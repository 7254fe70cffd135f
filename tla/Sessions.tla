------------------------------ MODULE Sessions ------------------------------
(***************************************************************************)
(* Sessions with a guest, which may end at any time: the agent's processes, *)
(* the streams between host and guest, and the following of a log.         *)
(* The components share no state: the initial state chooses the one that   *)
(* moves, and the others rest.                                             *)
(***************************************************************************)
EXTENDS Focus

CONSTANTS
    Chunks, Room,               \* length of a stream, chunks that fit in a pipe
    MaxBoots, MaxSize, HeadSize \* of a followed log

ASSUME SessionsAssumption ==
    /\ Chunks \in Nat
    /\ MaxBoots \in Nat \ {0} /\ HeadSize \in Nat \ {0}

VARIABLES
    portTotal, portRead, portWire, portGot, portEnded, portPump, portEvents, portSeen,
    portRet, portOpen,
    execBody, execCall, execFrames, execGot, execSession, execHost, execUp, execDown,
    execOpen, execSrv, execRecv, execPipe, execProc, execOut,
    logInode, logPath, logBoots, logFol, logSeen, logDirty, logRaced

Relay == INSTANCE PortRelay WITH
    Chunks <- Chunks, total <- portTotal, read <- portRead, wire <- portWire, got <- portGot,
    ended <- portEnded, pump <- portPump, events <- portEvents, seen <- portSeen,
    ret <- portRet, open <- portOpen
portVars ==
    <<portTotal, portRead, portWire, portGot, portEnded, portPump, portEvents, portSeen,
      portRet, portOpen>>
RelayRests ==
    /\ portTotal = 0 /\ portRead = 0 /\ portWire = 0 /\ portGot = 0 /\ portEnded = 0 /\ portPump = 0
    /\ portEvents = 0 /\ portSeen = 0 /\ portRet = 0 /\ portOpen = 0

Exec == INSTANCE ExecSession WITH
    MaxIn <- Chunks, MaxOut <- Chunks, Room <- Room, body <- execBody, call <- execCall,
    frames <- execFrames, got <- execGot, session <- execSession, host <- execHost,
    up <- execUp, down <- execDown, open <- execOpen, srv <- execSrv, recv <- execRecv,
    pipe <- execPipe, proc <- execProc, out <- execOut
execVars ==
    <<execBody, execCall, execFrames, execGot, execSession, execHost, execUp, execDown,
      execOpen, execSrv, execRecv, execPipe, execProc, execOut>>
ExecRests ==
    /\ execBody = 0 /\ execCall = 0 /\ execFrames = 0 /\ execGot = 0 /\ execSession = 0
    /\ execHost = 0 /\ execUp = 0 /\ execDown = 0 /\ execOpen = 0 /\ execSrv = 0
    /\ execRecv = 0 /\ execPipe = 0 /\ execProc = 0 /\ execOut = 0

Log == INSTANCE LogFollow WITH
    MaxBoots <- MaxBoots, MaxSize <- MaxSize, HeadSize <- HeadSize, inode <- logInode, path <- logPath,
    boots <- logBoots, fol <- logFol, seen <- logSeen, dirty <- logDirty, raced <- logRaced
logVars ==
    <<logInode, logPath, logBoots, logFol, logSeen, logDirty, logRaced>>
LogRests ==
    /\ logInode = 0 /\ logPath = 0 /\ logBoots = 0 /\ logFol = 0 /\ logSeen = 0
    /\ logDirty = 0 /\ logRaced = 0

sessionsVars == <<focus, portVars, execVars, logVars>>
-----------------------------------------------------------------------------
SessionsInit ==
    /\ IF focus = "relay" THEN Relay!Init ELSE RelayRests
    /\ IF focus = "exec" THEN Exec!Init ELSE ExecRests
    /\ IF focus = "log" THEN Log!Init ELSE LogRests

RelayStep ==
    /\ focus = "relay" /\ Relay!Next
    /\ UNCHANGED <<focus, execVars, logVars>>
ExecStep ==
    /\ focus = "exec" /\ Exec!Next
    /\ UNCHANGED <<focus, portVars, logVars>>
LogStep ==
    /\ focus = "log" /\ Log!Next
    /\ UNCHANGED <<focus, portVars, execVars>>

SessionsNext == RelayStep \/ ExecStep \/ LogStep

SessionsSpec == SessionsInit /\ [][SessionsNext]_sessionsVars
-----------------------------------------------------------------------------
(* The properties of the components, by the names that the run lists.      *)

\* A forwarding that ends without error has delivered both streams (relayPort), a
\* command's status comes after all its output (Run, runCommand), and a follower
\* has shown all of a log that is at rest (Logs).
NothingTruncated ==
    /\ focus = "relay" => Relay!NothingTruncated
    /\ focus = "exec" => Exec!ReportIsTrue
    /\ focus = "log" => Log!FollowerIsUpToDate
=============================================================================

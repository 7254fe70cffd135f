------------------------------ MODULE LogFollow ------------------------------
(***************************************************************************)
(* Following a VMM log (vmm/log.go).  The VMM appends to the log; a new    *)
(* VMM truncates it or puts another file in its place, and rm deletes it.  *)
(* The follower polls: it compares the path with the open file, the size   *)
(* with its offset and the head of the file with a signature, rewinds or   *)
(* reopens, and copies what is there.  The content of a file is the boot   *)
(* that wrote it and its length; the heads of two boots differ.            *)
(***************************************************************************)
EXTENDS Naturals, Sequences, FiniteSets

CONSTANTS MaxBoots, MaxSize,    \* bounds on the VMMs started and on a log's length
          HeadSize              \* length of the signature (logHeadSize)

VARIABLES
    inode,      \* [file -> boot and size]; the sequence of all files made
    path,       \* file the path names, 0 when it is removed
    boots,      \* VMMs started
    fol,        \* the follower's variables
    seen,       \* [boot -> units of its log that were written to the output, in order]
    dirty,      \* the log changed since the pass began
    raced       \* a log was truncated while a pass was copying and signing it

vars == <<inode, path, boots, fol, seen, dirty, raced>>
logVars == <<inode, path, boots>>

NoSignature == [boot |-> 0, width |-> 0]
Least(a, b) == IF a < b THEN a ELSE b

TypeOK ==
    /\ boots \in 1..MaxBoots /\ path \in 0..Len(inode)
    /\ \A f \in 1..Len(inode) : inode[f].boot \in 1..boots /\ inode[f].size \in 0..MaxSize
    /\ fol.open \in 1..Len(inode) /\ fol.offset \in 0..MaxSize /\ fol.size \in 0..MaxSize
    /\ fol.at \in {"copy", "sign", "select", "open", "check", "end"}
    /\ seen \in [1..MaxBoots -> 0..MaxSize]

\* Logs has opened the file and, for a tail, sought to one of its lines.
Init ==
    /\ \E n \in 0..MaxSize : inode = <<[boot |-> 1, size |-> n]>>
    /\ path = 1 /\ boots = 1
    /\ \E start \in 0..inode[1].size :
        /\ fol = [at |-> "copy", open |-> 1, offset |-> start, size |-> 0, signature |-> NoSignature,
                  first |-> TRUE]
        /\ seen = [b \in 1..MaxBoots |-> IF b = 1 THEN start ELSE 0]
    /\ dirty = FALSE /\ raced = FALSE
-----------------------------------------------------------------------------
\* The VMM and rm

Append1 ==
    /\ path # 0 /\ inode[path].size < MaxSize
    /\ inode' = [inode EXCEPT ![path].size = @ + 1]
    /\ dirty' = TRUE
    /\ UNCHANGED <<path, boots, fol, seen, raced>>

\* A pass that has begun to copy signs what it copied only at its end.
Truncate ==
    /\ path # 0 /\ boots < MaxBoots
    /\ boots' = boots + 1 /\ inode' = [inode EXCEPT ![path] = [boot |-> boots + 1, size |-> 0]]
    /\ dirty' = TRUE /\ raced' = (raced \/ fol.at \notin {"select", "end"})
    /\ UNCHANGED <<path, fol, seen>>

Replace ==
    /\ path # 0 /\ boots < MaxBoots
    /\ boots' = boots + 1 /\ inode' = Append(inode, [boot |-> boots + 1, size |-> 0])
    /\ path' = Len(inode) + 1
    /\ dirty' = TRUE
    /\ UNCHANGED <<fol, seen, raced>>

RemoveLogs ==
    /\ path # 0 /\ path' = 0 /\ dirty' = TRUE
    /\ UNCHANGED <<inode, boots, fol, seen, raced>>
-----------------------------------------------------------------------------
\* Logs

\* The head of the open file, of the given width or, for 0, as wide as it can be.
logSignature(width) ==
    LET file == inode[fol.open]
        w == Least(IF width = 0 THEN HeadSize ELSE width, file.size)
    IN IF w = 0 THEN NoSignature ELSE [boot |-> file.boot, width |-> w]

\* Units of the boot that the file holds now, from the offset to the end.
copyLog ==
    /\ fol.at = "copy"
    /\ LET file == inode[fol.open] IN
        /\ seen' = [seen EXCEPT ![file.boot] =
                        IF fol.offset <= @ /\ @ < file.size THEN file.size ELSE @]
        /\ fol' = [fol EXCEPT !.at = "sign", !.offset = IF @ < file.size THEN file.size ELSE @]
    /\ UNCHANGED <<logVars, dirty, raced>>

\* The first pass signs always, a later one when it has no signature.
Sign ==
    /\ fol.at = "sign"
    /\ fol' = [fol EXCEPT !.at = "select", !.first = FALSE,
                          !.signature = IF fol.first \/ (@ = NoSignature /\ fol.offset > 0)
                                        THEN logSignature(0) ELSE @]
    /\ UNCHANGED <<logVars, seen, dirty, raced>>

\* A tick of the ticker: os.Stat of the path and of the open file.
Poll ==
    /\ fol.at = "select" /\ dirty' = FALSE
    /\ fol' = IF path = 0 THEN [fol EXCEPT !.at = "end"]
              ELSE [fol EXCEPT !.at = IF path = fol.open THEN "check" ELSE "open", !.size = inode[path].size]
    /\ UNCHANGED <<logVars, seen, raced>>

\* The log may be gone, or replaced once more, since it was examined.
openLog ==
    /\ fol.at = "open"
    /\ fol' = IF path = 0 THEN [fol EXCEPT !.at = "select"]
              ELSE [fol EXCEPT !.at = "check", !.open = path, !.offset = 0, !.signature = NoSignature]
    /\ UNCHANGED <<logVars, seen, dirty, raced>>

\* The log became shorter, or its head is another's.
Rewind ==
    \/ fol.size < fol.offset
    \/ fol.signature # NoSignature /\ logSignature(fol.signature.width) # fol.signature

Check ==
    /\ fol.at = "check"
    /\ fol' = [fol EXCEPT !.at = "copy", !.offset = IF Rewind THEN 0 ELSE @,
                          !.signature = IF Rewind THEN logSignature(0) ELSE @]
    /\ UNCHANGED <<logVars, seen, dirty, raced>>

Cancel ==
    /\ fol.at # "end"
    /\ fol' = [fol EXCEPT !.at = "end"]
    /\ UNCHANGED <<logVars, seen, dirty, raced>>

Next ==
    \/ Append1 \/ Truncate \/ Replace \/ RemoveLogs
    \/ copyLog \/ Sign \/ Poll \/ openLog \/ Check \/ Cancel

Spec == Init /\ [][Next]_vars
-----------------------------------------------------------------------------
(* Following survives truncation and replacement: when a pass ends and the *)
(* log has not changed since it began, all of the log is in the output,    *)
(* unless a log was truncated in the middle of a pass.                     *)
FollowerIsUpToDate ==
    fol.at = "select" /\ ~dirty /\ ~raced /\ ~fol.first /\ path # 0 =>
        seen[inode[path].boot] = inode[path].size
=============================================================================

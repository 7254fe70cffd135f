----------------------------- MODULE FileTransfer -----------------------------
(***************************************************************************)
(* Files in the guest through the agent: uploads that replace one path     *)
(* (WriteFile and writeGuestFile), a download of it, and removals.  Each   *)
(* exchange has a connection of its own, which can break at any moment.    *)
(* A file is known by who wrote it and by how many chunks it holds.        *)
(***************************************************************************)
EXTENDS Integers

CONSTANTS Uploads, MaxChunks

VARIABLES
    total,      \* chunks of each upload's input
    file,       \* the path: absent, or the file it names
    temp,       \* chunks in an upload's temporary file, -1 when there is none
    client,     \* the host's sender
    sent, got,  \* data frames written by the host and read by the guest
    ended,      \* uploads whose end frame was written
    open,       \* the connection
    server,     \* the guest's handler
    reply,      \* the guest's frame that the host has not read
    result,     \* what WriteFile returned
    committed,  \* uploads whose rename has happened
    reader      \* the download

vars == <<total, file, temp, client, sent, got, ended, open, server, reply, result, committed, reader>>

Absent == [by |-> {}, chunks |-> 0]
Old == [by |-> {}, chunks |-> 1]
Whole(f) == IF f.by = {} THEN f = Old ELSE \A u \in f.by : f.chunks = total[u]

Init ==
    /\ total \in [Uploads -> 0..MaxChunks]
    /\ file \in {Absent, Old}
    /\ temp = [u \in Uploads |-> -1]
    /\ client = [u \in Uploads |-> "idle"]
    /\ sent = [u \in Uploads |-> 0] /\ got = [u \in Uploads |-> 0]
    /\ ended = {} /\ open = [u \in Uploads |-> FALSE]
    /\ server = [u \in Uploads |-> "idle"]
    /\ reply = [u \in Uploads |-> "none"]
    /\ result = [u \in Uploads |-> "none"]
    /\ committed = {}
    /\ reader = [step |-> "idle", file |-> Absent, got |-> 0]

hostVars == <<client, sent, ended, result>>
guestVars == <<file, temp, got, server, committed>>

Set(f, u, v) == [f EXCEPT ![u] = v]

\* A frame to the host; the write fails on a closed connection.
Encode(u, type) == reply' = IF open[u] THEN Set(reply, u, type) ELSE reply
-----------------------------------------------------------------------------
\* WriteFile on the host.

Request(u) ==
    /\ client[u] = "idle"
    /\ client' = Set(client, u, "asked") /\ open' = Set(open, u, TRUE)
    /\ UNCHANGED <<total, sent, ended, reply, result, guestVars, reader>>

Ready(u) ==
    /\ client[u] = "asked" /\ reply[u] = "ready"
    /\ client' = Set(client, u, "sending") /\ reply' = Set(reply, u, "none")
    /\ UNCHANGED <<total, sent, ended, open, result, guestVars, reader>>

NotReady(u) ==
    /\ client[u] = "asked" /\ (reply[u] = "error" \/ ~open[u])
    /\ result' = Set(result, u, IF reply[u] = "error" THEN "remote" ELSE "error")
    /\ client' = Set(client, u, "done") /\ open' = Set(open, u, FALSE)
    /\ UNCHANGED <<total, sent, ended, reply, guestVars, reader>>

sendFile(u) ==
    /\ client[u] = "sending" /\ open[u] /\ u \notin ended
    /\ IF sent[u] < total[u] THEN sent' = Set(sent, u, sent[u] + 1) /\ UNCHANGED ended
       ELSE ended' = ended \cup {u} /\ UNCHANGED sent
    /\ UNCHANGED <<total, client, open, reply, result, guestVars, reader>>

\* The input or the connection fails: the sender closes the connection.
sendFileFailed(u) ==
    /\ client[u] = "sending" /\ u \notin ended
    /\ client' = Set(client, u, "failed") /\ open' = Set(open, u, FALSE)
    /\ UNCHANGED <<total, sent, ended, reply, result, guestVars, reader>>

\* The response, or the failure to read one, ends the sender as well.  A frame
\* that arrived before the connection closed may or may not still be read.
WriteFile(u) ==
    /\ client[u] \in {"sending", "failed"}
    /\ \E response \in {reply[u]} \cup (IF open[u] THEN {} ELSE {"none"}) :
        /\ response # "none" \/ ~open[u]
        /\ result' = Set(result, u, IF response = "error" THEN "remote"
                                    ELSE IF u \notin ended \/ response # "done" THEN "error" ELSE "ok")
    /\ client' = Set(client, u, "done") /\ open' = Set(open, u, FALSE)
    /\ UNCHANGED <<total, sent, ended, reply, guestVars, reader>>

\* Cancellation closes the connection; the caller gets the context's error.
Cancel(u) ==
    /\ client[u] \notin {"idle", "done"}
    /\ client' = Set(client, u, "done") /\ open' = Set(open, u, FALSE) /\ result' = Set(result, u, "cancelled")
    /\ UNCHANGED <<total, sent, ended, reply, guestVars, reader>>

Break(u) ==
    /\ open[u] /\ open' = Set(open, u, FALSE)
    /\ UNCHANGED <<total, hostVars, reply, guestVars, reader>>
-----------------------------------------------------------------------------
\* writeGuestFile in the guest.

writeGuestFile(u) ==
    /\ server[u] = "idle" /\ client[u] # "idle"
    /\ temp' = Set(temp, u, 0) /\ server' = Set(server, u, "receiving") /\ Encode(u, "ready")
    /\ UNCHANGED <<total, hostVars, open, file, got, committed, reader>>

\* The path, the directory or a frame is refused, or the guest's disk fails;
\* the deferred removal leaves no temporary file behind.
fileFailure(u) ==
    /\ (server[u] = "idle" /\ client[u] # "idle") \/ server[u] \in {"receiving", "rename"}
    /\ temp' = Set(temp, u, -1) /\ server' = Set(server, u, "done") /\ Encode(u, "error")
    /\ UNCHANGED <<total, hostVars, open, file, got, committed, reader>>

fileData(u) ==
    /\ server[u] = "receiving" /\ got[u] < sent[u]
    /\ got' = Set(got, u, got[u] + 1) /\ temp' = Set(temp, u, temp[u] + 1)
    /\ UNCHANGED <<total, hostVars, open, file, server, reply, committed, reader>>

fileEnd(u) ==
    /\ server[u] = "receiving" /\ got[u] = sent[u] /\ u \in ended
    /\ server' = Set(server, u, "rename")
    /\ UNCHANGED <<total, hostVars, open, file, temp, got, reply, committed, reader>>

\* A mutant: the end of the stream commits what has arrived.
CommitOnEOF(u) ==
    /\ server[u] = "receiving" /\ ~open[u]
    /\ server' = Set(server, u, "rename")
    /\ UNCHANGED <<total, hostVars, open, file, temp, got, reply, committed, reader>>

\* The stream ends before the end frame; frames in flight may be lost.
Disconnected(u) ==
    /\ server[u] = "receiving" /\ ~open[u]
    /\ temp' = Set(temp, u, -1) /\ server' = Set(server, u, "done")
    /\ UNCHANGED <<total, hostVars, open, file, got, reply, committed, reader>>

rename(u) ==
    /\ server[u] = "rename"
    /\ file' = [by |-> {u}, chunks |-> temp[u]] /\ temp' = Set(temp, u, -1)
    /\ committed' = committed \cup {u} /\ server' = Set(server, u, "reply")
    /\ UNCHANGED <<total, hostVars, open, got, reply, reader>>

serveFile(u) ==
    /\ server[u] = "reply" /\ server' = Set(server, u, "done") /\ Encode(u, "done")
    /\ UNCHANGED <<total, hostVars, open, file, temp, got, committed, reader>>

\* The agent dies: temporary files stay.
Die ==
    /\ \E u \in Uploads : server[u] \notin {"idle", "done", "dead"}
    /\ server' = [u \in Uploads |-> IF server[u] = "done" THEN "done" ELSE "dead"]
    /\ open' = [u \in Uploads |-> FALSE]
    /\ reader' = [reader EXCEPT !.step = IF @ = "reading" THEN "failed" ELSE @]
    /\ UNCHANGED <<total, hostVars, file, temp, got, reply, committed>>
-----------------------------------------------------------------------------
\* The other requests: a removal is one system call, a download reads the
\* file it has opened to its end.

RemoveFile ==
    /\ file # Absent /\ file' = Absent
    /\ UNCHANGED <<total, hostVars, temp, got, open, server, reply, committed, reader>>

openGuestEntry ==
    /\ reader.step = "idle" /\ file # Absent
    /\ reader' = [step |-> "reading", file |-> file, got |-> 0]
    /\ UNCHANGED <<total, hostVars, guestVars, open, reply>>

readGuestFile ==
    /\ reader.step = "reading" /\ reader.got < reader.file.chunks
    /\ reader' = [reader EXCEPT !.got = @ + 1]
    /\ UNCHANGED <<total, hostVars, guestVars, open, reply>>

\* Success only on the done frame, which follows the last chunk.
ReadFile ==
    /\ reader.step = "reading"
    /\ \/ reader.got = reader.file.chunks /\ reader' = [reader EXCEPT !.step = "ok"]
       \/ reader' = [reader EXCEPT !.step = "failed"]
    /\ UNCHANGED <<total, hostVars, guestVars, open, reply>>

Next ==
    \/ \E u \in Uploads :
        \/ Request(u) \/ Ready(u) \/ NotReady(u) \/ sendFile(u) \/ sendFileFailed(u) \/ WriteFile(u)
        \/ Cancel(u) \/ Break(u) \/ writeGuestFile(u) \/ fileFailure(u) \/ fileData(u) \/ fileEnd(u)
        \/ Disconnected(u) \/ rename(u) \/ serveFile(u)
    \/ Die \/ RemoveFile \/ openGuestEntry \/ readGuestFile \/ ReadFile

Spec == Init /\ [][Next]_vars
-----------------------------------------------------------------------------
(* "EOF, cancellation and malformed input discard the temporary file":     *)
(* whatever fails, the path names a whole file, old or new, and so does a  *)
(* download that succeeds.  Success means that the upload has replaced the *)
(* path, a failure that the guest reports means it has not; only a lost    *)
(* completion is ambiguous.  A handler that ends keeps no temporary file.  *)
UploadsAreWhole ==
    /\ file # Absent => Whole(file)
    /\ reader.step = "ok" => Whole([reader.file EXCEPT !.chunks = reader.got])
    /\ \A u \in Uploads :
        /\ result[u] = "ok" => u \in committed
        /\ result[u] = "remote" => u \notin committed
        /\ server[u] = "done" => temp[u] = -1
=============================================================================

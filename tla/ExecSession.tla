----------------------------- MODULE ExecSession -----------------------------
(***************************************************************************)
(* One foreground command from the caller to the guest process and back:   *)
(* rpc.Client.Call, the node's rpc.Session, agent.Run over the framed      *)
(* connection, and Server.runCommand with its input goroutine.  Streams    *)
(* are counted in chunks; stdout and stderr behave alike and are one       *)
(* stream.  The caller may leave, the connection may close at either end,  *)
(* the agent may be stopped and a write may be refused at any time.        *)
(***************************************************************************)
EXTENDS Naturals, Sequences

CONSTANTS MaxIn, MaxOut,    \* most chunks of input and of output
          Room              \* chunks that fit in the stdin pipe

VARIABLES
    body,       \* request body: chunks left, and whether the caller is still there
    call,       \* result of Call: "none", "error" or the exit code
    frames,     \* response frames that Call has not read
    got,        \* chunks written to the caller's output
    session,    \* rpc.Session: "ok" or, after a failed send, "broken" for good
    host,       \* agent.Run: state of Run, of sendInput, the session's context
    up, down,   \* frames of the connection that the peer has not decoded
    open,       \* ends of the connection that are not closed
    srv,        \* runCommand and Serve
    recv,       \* receiveInput
    pipe,       \* stdin pipe of the command
    proc,       \* the command
    out         \* output pipe and the goroutine that copies it

vars == <<body, call, frames, got, session, host, up, down, open, srv, recv, pipe, proc, out>>
callerVars == <<body, call, frames, got>>
hostVars == <<session, host>>
guestVars == <<srv, recv, pipe, proc, out>>

Codes == {"0", "1", "killed"}

TypeOK ==
    /\ body.left \in 0..MaxIn /\ body.there \in BOOLEAN
    /\ call \in Codes \cup {"none", "error"} /\ got \in 0..MaxOut
    /\ session \in {"ok", "broken"} /\ open \subseteq {"host", "guest"}
    /\ host.run \in Codes \cup {"run", "error", "replied"} /\ host.send \in {"read", "close", "done"}
    /\ proc.state \in {"none", "running", "exited"} /\ proc.code \in Codes
    /\ proc.read \in 0..MaxIn /\ proc.wrote \in 0..MaxOut /\ pipe.n \in 0..Room

Init ==
    /\ body = [left |-> MaxIn, there |-> TRUE] /\ call = "none" /\ frames = <<>> /\ got = 0
    /\ session = "ok"
    /\ host = [run |-> "run", send |-> "read", inputError |-> FALSE, cancelled |-> FALSE]
    /\ up = <<>> /\ down = <<>> /\ open = {"host", "guest"}
    /\ srv = [at |-> "accept", closed |-> FALSE, ctx |-> FALSE, deadline |-> FALSE,
              wait |-> "none", delayed |-> FALSE]
    /\ recv = [at |-> "none", error |-> FALSE]
    /\ pipe = [n |-> 0, closed |-> FALSE]
    /\ proc = [state |-> "none", code |-> "0", read |-> 0, wrote |-> 0, eof |-> FALSE]
    /\ out = [n |-> 0, copy |-> "run", error |-> FALSE]
-----------------------------------------------------------------------------
\* rpc.Client.Call

CallOutput ==
    /\ call = "none" /\ frames # <<>> /\ Head(frames) = "stdout"
    /\ frames' = Tail(frames) /\ got' = got + 1
    /\ UNCHANGED <<body, call, hostVars, up, down, open, guestVars>>

CallResult ==
    /\ call = "none" /\ frames # <<>> /\ Head(frames) # "stdout"
    /\ call' = Head(frames) /\ frames' = Tail(frames)
    /\ body' = [body EXCEPT !.there = FALSE]
    /\ UNCHANGED <<got, hostVars, up, down, open, guestVars>>

\* The response ended without a result, the caller's writer failed or the
\* caller was cancelled: the request's context ends, nothing is retried.
CallFailed ==
    /\ call = "none"
    /\ call' = "error" /\ body' = [body EXCEPT !.there = FALSE] /\ frames' = <<>>
    /\ UNCHANGED <<got, hostVars, up, down, open, guestVars>>
-----------------------------------------------------------------------------
\* rpc.Session.  After a failed send no later frame is sent: no gap.

send(frame, fails) ==
    /\ session' = IF fails THEN "broken" ELSE session
    /\ frames' = IF session = "broken" \/ fails \/ ~body.there THEN frames ELSE Append(frames, frame)

\* The terminal result frame, after Run has returned.
Register(fails) ==
    /\ host.run \notin {"run", "replied"}
    /\ send(host.run, fails)
    /\ host' = [host EXCEPT !.run = "replied"]
    /\ UNCHANGED <<body, call, got, up, down, open, guestVars>>
-----------------------------------------------------------------------------
\* agent.Run and sendInput

Deliver(from, frame) ==
    IF from = "host" THEN up' = Append(up, frame) /\ UNCHANGED down
    ELSE down' = Append(down, frame) /\ UNCHANGED up

\* A frame is refused when this end is closed; it may be refused, or lost, when
\* the other end is.
Transmit(from, to, frame) == {from, to} \subseteq open /\ Deliver(from, frame)
Lost(from, to) == from \in open /\ to \notin open /\ UNCHANGED <<up, down>>
Refused == open # {"host", "guest"} /\ UNCHANGED <<up, down>>

SendChunk ==
    /\ host.send = "read" /\ body.left > 0
    /\ body' = [body EXCEPT !.left = @ - 1]
    /\ \/ (Transmit("host", "guest", "stdin") \/ Lost("host", "guest")) /\ UNCHANGED host
       \/ Refused /\ host' = [host EXCEPT !.send = "done"]
    /\ UNCHANGED <<call, frames, got, session, open, guestVars>>

\* The caller's reader fails, or the caller left.  The error is stored before the
\* end of the input is announced.
ReadFailed ==
    /\ host.send = "read"
    /\ host' = [host EXCEPT !.send = "close", !.inputError = TRUE, !.cancelled = TRUE]
    /\ UNCHANGED <<callerVars, session, up, down, open, guestVars>>

sendInput ==
    /\ \/ host.send = "close"
       \/ host.send = "read" /\ body.left = 0
    /\ host' = [host EXCEPT !.send = "done"]
    /\ Transmit("host", "guest", "close") \/ Lost("host", "guest") \/ Refused
    /\ UNCHANGED <<callerVars, session, open, guestVars>>

RunReturn(result) ==
    host' = [host EXCEPT !.run = result, !.cancelled = TRUE]

Incoming == host.run = "run" /\ down # <<>>

RunOutput(fails) ==
    /\ Incoming /\ Head(down) = "stdout"
    /\ down' = Tail(down)
    /\ send("stdout", fails)
    /\ IF session = "broken" \/ fails THEN RunReturn("error") ELSE UNCHANGED host
    /\ UNCHANGED <<body, call, got, up, open, guestVars>>

RunExit ==
    /\ Incoming /\ Head(down) # "stdout"
    /\ down' = Tail(down)
    /\ IF Head(down) = "started" THEN UNCHANGED host
       ELSE RunReturn(IF host.inputError THEN "error" ELSE Head(down))
    /\ UNCHANGED <<callerVars, session, up, open, guestVars>>

\* No frame is left and an end is closed, or this end is closed.
RunDecodeFailed ==
    /\ host.run = "run" /\ open # {"host", "guest"}
    /\ "host" \notin open \/ down = <<>>
    /\ RunReturn("error")
    /\ UNCHANGED <<callerVars, session, up, down, open, guestVars>>

\* context.AfterFunc of Run, whose context ends with the caller's request.
HostClose ==
    /\ host.cancelled \/ ~body.there
    /\ "host" \in open
    /\ open' = open \ {"host"}
    /\ UNCHANGED <<callerVars, hostVars, up, down, guestVars>>
-----------------------------------------------------------------------------
\* Server.Serve and Server.Close

\* A connection accepted after Close is closed unheard.
track ==
    /\ srv.at = "accept"
    /\ IF srv.closed THEN srv' = [srv EXCEPT !.at = "end"] /\ open' = open \ {"guest"}
       ELSE srv' = [srv EXCEPT !.at = "start"] /\ UNCHANGED open
    /\ UNCHANGED <<callerVars, hostVars, up, down, recv, pipe, proc, out>>

\* The context of Serve is cancelled; Close runs from AfterFunc.
Stop ==
    /\ ~srv.closed
    /\ srv' = [srv EXCEPT !.closed = TRUE, !.ctx = TRUE]
    /\ UNCHANGED <<callerVars, hostVars, up, down, open, recv, pipe, proc, out>>

Close ==
    /\ srv.closed /\ srv.at # "accept" /\ "guest" \in open
    /\ open' = open \ {"guest"}
    /\ UNCHANGED <<callerVars, hostVars, up, down, guestVars>>
-----------------------------------------------------------------------------
\* Server.runCommand

\* The command cannot start, which the host is told; or it starts and the host
\* is told, and without a host it is cancelled at once.
Start ==
    /\ srv.at = "start"
    /\ \/ /\ Transmit("guest", "host", "error") \/ Lost("guest", "host") \/ Refused
          /\ srv' = [srv EXCEPT !.at = "end"] /\ open' = open \ {"guest"}
          /\ UNCHANGED <<recv, proc>>
       \/ /\ \/ (Transmit("guest", "host", "started") \/ Lost("guest", "host")) /\ srv' = [srv EXCEPT !.at = "wait"]
             \/ Refused /\ srv' = [srv EXCEPT !.at = "wait", !.ctx = TRUE, !.wait = "silent"]
          /\ proc' = [proc EXCEPT !.state = "running"] /\ recv' = [recv EXCEPT !.at = "decode"]
          /\ UNCHANGED open
    /\ UNCHANGED <<callerVars, hostVars, pipe, out>>

\* command.Wait: an exit status other than 0 comes before the context's error.
Reap ==
    /\ srv.at = "wait" /\ proc.state = "exited"
    /\ srv' = [srv EXCEPT !.at = "drain",
                          !.wait = IF @ = "silent" THEN @
                                   ELSE IF proc.code = "0" /\ srv.ctx THEN "error" ELSE proc.code]
    /\ UNCHANGED <<callerVars, hostVars, up, down, open, recv, pipe, proc, out>>

AfterWait == [srv EXCEPT !.at = "join", !.ctx = TRUE, !.deadline = TRUE]

Drained ==
    /\ srv.at = "drain" /\ out.copy = "end"
    /\ srv' = AfterWait /\ pipe' = [pipe EXCEPT !.closed = TRUE]
    /\ UNCHANGED <<callerVars, hostVars, up, down, open, recv, proc, out>>

\* WaitDelay: the output is still being copied; what is not yet read is lost.
WaitDelay ==
    /\ srv.at = "drain" /\ out.copy # "end"
    /\ srv' = [AfterWait EXCEPT !.delayed = TRUE] /\ pipe' = [pipe EXCEPT !.closed = TRUE]
    /\ \E n \in {0, 1} : n <= out.n /\ out' = [out EXCEPT !.n = n]
    /\ UNCHANGED <<callerVars, hostVars, up, down, open, recv, proc>>

Report == IF srv.wait = "silent" \/ out.error THEN "none"
          ELSE IF recv.error THEN "error" ELSE srv.wait

\* The terminal frame, then the deferred close of the connection.
runCommand ==
    /\ srv.at = "join" /\ recv.at = "done"
    /\ srv' = [srv EXCEPT !.at = "end"] /\ open' = open \ {"guest"}
    /\ \/ Report # "none" /\ (Transmit("guest", "host", Report) \/ Lost("guest", "host") \/ Refused)
       \/ Report = "none" /\ UNCHANGED <<up, down>>
    /\ UNCHANGED <<callerVars, hostVars, recv, pipe, proc, out>>
-----------------------------------------------------------------------------
\* receiveInput

RecvClose ==
    /\ recv.at = "decode" /\ "guest" \in open /\ up # <<>> /\ Head(up) = "close"
    /\ up' = Tail(up) /\ pipe' = [pipe EXCEPT !.closed = TRUE]
    /\ recv' = [recv EXCEPT !.at = IF srv.ctx THEN "done" ELSE "decode"]
    /\ UNCHANGED <<callerVars, hostVars, down, open, srv, proc, out>>

RecvChunk ==
    /\ recv.at = "decode" /\ "guest" \in open /\ up # <<>> /\ Head(up) = "stdin"
    /\ up' = Tail(up)
    /\ recv' = [recv EXCEPT !.at = IF pipe.closed THEN "decode" ELSE "write"]
    /\ UNCHANGED <<callerVars, hostVars, down, open, srv, pipe, proc, out>>

\* The pipe takes the chunk, or the command no longer reads it; a cancelled
\* session closes the input.
RecvWrite ==
    /\ recv.at = "write"
    /\ \/ pipe.n < Room /\ ~pipe.closed /\ pipe' = [n |-> pipe.n + 1, closed |-> srv.ctx]
       \/ proc.state = "exited" /\ pipe' = [pipe EXCEPT !.closed = TRUE]
    /\ recv' = [recv EXCEPT !.at = IF srv.ctx THEN "done" ELSE "decode"]
    /\ UNCHANGED <<callerVars, hostVars, up, down, open, srv, proc, out>>

\* The host left, the connection was closed here or the read deadline passed.
\* The input is closed first, the command is cancelled after that.
RecvFailed ==
    /\ recv.at = "decode"
    /\ "guest" \notin open \/ ("host" \notin open /\ up = <<>>) \/ srv.deadline
    /\ pipe' = [pipe EXCEPT !.closed = TRUE]
    /\ recv' = IF srv.ctx THEN [recv EXCEPT !.at = "done"] ELSE [at |-> "cancel", error |-> TRUE]
    /\ UNCHANGED <<callerVars, hostVars, up, down, open, srv, proc, out>>

RecvCancel ==
    /\ recv.at = "cancel"
    /\ srv' = [srv EXCEPT !.ctx = TRUE] /\ recv' = [recv EXCEPT !.at = "done"]
    /\ UNCHANGED <<callerVars, hostVars, up, down, open, pipe, proc, out>>
-----------------------------------------------------------------------------
\* framedWriter.Write, called by the goroutine that copies the output pipe.

\* After a terminal frame, and on a refused one, the copy ends and the command
\* is cancelled.
Write ==
    /\ out.n > 0 /\ out.copy = "run"
    /\ \/ /\ srv.at # "end" /\ (Transmit("guest", "host", "stdout") \/ Lost("guest", "host"))
          /\ out' = [out EXCEPT !.n = @ - 1] /\ UNCHANGED srv
       \/ /\ IF srv.at = "end" THEN UNCHANGED <<up, down>> ELSE Refused
          /\ out' = [n |-> 0, copy |-> "end", error |-> TRUE]
          /\ srv' = [srv EXCEPT !.ctx = TRUE]
    /\ UNCHANGED <<callerVars, hostVars, open, recv, pipe, proc>>

CopyEnd ==
    /\ out.n = 0 /\ out.copy = "run" /\ proc.state = "exited"
    /\ out' = [out EXCEPT !.copy = "end"]
    /\ UNCHANGED <<callerVars, hostVars, up, down, open, srv, recv, pipe, proc>>
-----------------------------------------------------------------------------
\* The command, which reads and writes as it likes until it exits or is killed.

Command ==
    /\ proc.state = "running"
    /\ \/ pipe.n > 0 /\ ~proc.eof /\ proc' = [proc EXCEPT !.read = @ + 1] /\ pipe' = [pipe EXCEPT !.n = @ - 1]
          /\ UNCHANGED out
       \/ pipe.n = 0 /\ pipe.closed /\ ~proc.eof /\ proc' = [proc EXCEPT !.eof = TRUE] /\ UNCHANGED <<pipe, out>>
       \/ proc.wrote < MaxOut /\ proc' = [proc EXCEPT !.wrote = @ + 1] /\ UNCHANGED pipe
          /\ out' = IF out.copy = "run" THEN [out EXCEPT !.n = @ + 1] ELSE out
       \/ \E c \in {"0", "1"} : proc' = [proc EXCEPT !.state = "exited", !.code = c] /\ UNCHANGED <<pipe, out>>
    /\ UNCHANGED <<callerVars, hostVars, up, down, open, srv, recv>>

\* configureProcess: the cancelled context kills the process group.
Kill ==
    /\ srv.ctx /\ proc.state = "running"
    /\ proc' = [proc EXCEPT !.state = "exited", !.code = "killed"]
    /\ UNCHANGED <<callerVars, hostVars, up, down, open, srv, recv, pipe, out>>

Next ==
    \/ CallOutput \/ CallResult \/ CallFailed
    \/ \E fails \in BOOLEAN : Register(fails) \/ RunOutput(fails)
    \/ SendChunk \/ ReadFailed \/ sendInput \/ RunExit \/ RunDecodeFailed \/ HostClose
    \/ track \/ Stop \/ Close
    \/ Start \/ Reap \/ Drained \/ WaitDelay \/ runCommand
    \/ RecvClose \/ RecvChunk \/ RecvWrite \/ RecvFailed \/ RecvCancel
    \/ Write \/ CopyEnd \/ Command \/ Kill

Spec == Init /\ [][Next]_vars
-----------------------------------------------------------------------------
(* A status that the caller gets is the one the command ended with, and    *)
(* all its output came before it, unless the agent gave up waiting for the *)
(* output.  Success is not reported for a command that took a cut-off      *)
(* input for the whole of it.  When a session has ended, its command has.  *)
ReportIsTrue ==
    /\ call \in Codes =>
        /\ proc.state = "exited" /\ proc.code = call
        /\ got = proc.wrote \/ srv.delayed
        /\ call = "0" /\ proc.eof => proc.read = MaxIn
    /\ srv.at = "end" => proc.state # "running"
=============================================================================

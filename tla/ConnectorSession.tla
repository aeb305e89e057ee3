-------------------------- MODULE ConnectorSession --------------------------
(***************************************************************************)
(* One connection between the node plugin and the connector daemon.        *)
(*                                                                         *)
(*   client --socket--> reader --cmdOut--> handler --stdin--> command      *)
(*   client <--socket-- writer <--cmdIn-- 2 outputReaders <--stdout-+      *)
(*                             <--cmdIn-- runner <----exit code-----+      *)
(*                                                                         *)
(* client: mountKodo, mountKodoFS, cleanAfterKodoUmount (plugin/utils.go). *)
(* reader, writer: handleConn; handler: handleCmd, which starts two        *)
(* outputReaders and the runner (connector/main.go).  The command is       *)
(* rclone, or kodofs, which asks for the master address and the access     *)
(* token on its stdout.  Both channels are unbuffered: a send and its      *)
(* receive are one step.  The connection has one deadline, 30 s after it   *)
(* is accepted.  A send on a closed channel panics and ends the daemon.    *)
(***************************************************************************)
EXTENDS Naturals, Sequences

CONSTANTS
    Kinds,    \* the sessions: "kodo", "kodofs", "umount"
    Prompts,  \* questions kodofs asks
    Lines,    \* bound on the plain lines the command prints
    Faults    \* what may go wrong

FaultKinds ==
    {"dial",     \* the daemon does not listen
     "version",  \* plugin and connector speak different protocol versions
     "setup",    \* the rclone configuration or a directory cannot be made
     "exit",     \* the command fails
     "gone"}     \* the plugin dies

ASSUME SessionAssumption ==
    /\ Kinds \subseteq {"kodo", "kodofs", "umount"}
    /\ Prompts \in Nat /\ Lines \in Nat
    /\ Faults \subseteq FaultKinds

Readers == {"stdout", "stderr"}
Asks    == 1..Prompts

\* What the command prints: a question, or (0) a line.
Chunks  == 0..Prompts

\* Lines from the client, and lines to the client.
Init_  == "init"
Umount == "umount"
Requests  == {<<Init_, 0>>, <<Umount, 0>>} \cup ({"data"} \X Asks)
Responses == (Readers \X Chunks) \cup ({"terminate"} \X {0, 1})
Nothing   == <<"nothing", 0>>

VARIABLES
    kind,     \* which session this is
    client,   \* the plugin's function: its state, then its result
    toServer, \* lines sent to the connector, unread
    toClient, \* lines sent to the plugin, unread
    expired,  \* the deadline of the connection has passed
    reader,   \* handleConn: "scan", "send", "done" (cmdOut closed, context done)
    request,  \* the command the reader is sending
    writer,   \* handleConn's goroutine: "select", "write", "done" (conn closed)
    response, \* the command the writer is writing
    handler,  \* handleCmd: "loop", "returning" (isClosed set), "closed" (cmdOut closed)
    output,   \* output[o]: the outputReaders
    chunk,    \* chunk[o]: what an outputReader is sending
    runner,   \* the goroutine that runs the command
    command,  \* the command: a process of the host
    asked,    \* the command waits for an answer
    answered, \* how many answers the command has read
    printed,  \* how many plain lines it has printed
    stdin,    \* the pipes
    stdout,
    mounted,  \* the command has mounted the volume
    config,   \* the rclone configuration file, which holds the keys, exists
    cleaned,  \* cache directory and log file of the mount are removed
    panic     \* the daemon has panicked

socket  == <<client, toServer, toClient>>
conn    == <<reader, request, writer, response>>
cmd     == <<handler, output, chunk, runner>>
process == <<command, asked, answered, printed, stdin, stdout, mounted>>
vars    == <<kind, client, toServer, toClient, expired, reader, request, writer, response,
             handler, output, chunk, runner, command, asked, answered, printed, stdin,
             stdout, mounted, config, cleaned, panic>>

\* "ok": the client read Terminate with code 0; "eof": the connection ended
\* before.  Both return nil.  "refused": there was no connection.
Returned == {"ok", "eof", "failed", "gone", "refused"}

\* The types; a pipe or socket never holds more than the command printed.
TypeOK ==
    /\ kind \in Kinds
    /\ client \in {"dial", "wait"} \cup Returned
    /\ toServer \in Seq(Requests) /\ Len(toServer) <= 1 + Prompts
    /\ toClient \in Seq(Responses) /\ Len(toClient) <= Prompts + Lines + 1
    /\ expired \in BOOLEAN
    /\ reader \in {"scan", "send", "done"}
    /\ request \in Requests \cup {Nothing}
    /\ writer \in {"select", "write", "done"}
    /\ response \in Responses \cup {Nothing}
    /\ handler \in {"loop", "returning", "closed"}
    /\ output \in [Readers -> {"off", "read", "send", "done"}]
    /\ chunk \in [Readers -> Chunks]
    /\ runner \in {"off", "start", "run", "send", "done"}
    /\ command \in {"none", "running", "exit0", "exit1", "killed"}
    /\ asked \in BOOLEAN
    /\ answered \in 0..Prompts
    /\ printed \in 0..Lines
    /\ stdin \in Seq(Asks) /\ Len(stdin) <= 1
    /\ stdout \in Seq(Chunks) /\ Len(stdout) <= Prompts + Lines
    /\ {mounted, config, cleaned, panic} \subseteq BOOLEAN

Init ==
    /\ kind \in Kinds
    /\ client = "dial"
    /\ toServer = <<>> /\ toClient = <<>>
    /\ expired = FALSE
    /\ reader = "scan" /\ request = Nothing
    /\ writer = "select" /\ response = Nothing
    /\ handler = "loop"
    /\ output = [o \in Readers |-> "off"]
    /\ chunk = [o \in Readers |-> 0]
    /\ runner = "off"
    /\ command = "none" /\ asked = FALSE /\ answered = 0 /\ printed = 0
    /\ stdin = <<>> /\ stdout = <<>>
    /\ mounted = FALSE /\ config = FALSE /\ cleaned = FALSE
    /\ panic = FALSE

-----------------------------------------------------------------------------
(* What the goroutines see of each other *)

Connected  == client = "wait"
Hungup     == client \in Returned \ {"refused"}
ServerOpen == writer # "done" /\ ~ panic
IsClosed   == handler # "loop"

\* handleCmd's context, which kills the command when it ends.
Cancelled  == runner = "done" \/ handler = "closed"

\* handleCmd's deferred function and exec.Cmd.Wait close the pipes.
PipesOpen  == handler = "loop" /\ runner \in {"start", "run"}

-----------------------------------------------------------------------------
(* The client *)

\* mountKodo and mountKodoFS send the init command and wait for answers.
SendInit ==
    /\ toServer' = <<<<Init_, 0>>>>
    /\ client' = "wait"

\* cleanAfterKodoUmount sends its command and hangs up.
SendUmount ==
    /\ toServer' = <<<<Umount, 0>>>>
    /\ client' = "ok"

Dial ==
    /\ client = "dial"
    /\ \/ kind # "umount" /\ SendInit
       \/ kind = "umount" /\ SendUmount
       \/ "dial" \in Faults /\ client' = "refused" /\ UNCHANGED toServer
    /\ UNCHANGED <<kind, toClient, expired, conn, cmd, process, config, cleaned, panic>>

\* Faulty: the client takes whatever ends the command for success.
ClientReceiveAnyCode ==
    /\ client = "wait"
    /\ toClient # <<>>
    /\ toClient' = Tail(toClient)
    /\ client' = IF Head(toClient)[1] = "terminate" THEN "ok" ELSE client
    /\ UNCHANGED <<kind, toServer, expired, conn, cmd, process, config, cleaned, panic>>

\* Faulty: a question is answered whichever stream it was on, and always with
\* the master address.
ClientReceiveAddress ==
    /\ client = "wait"
    /\ toClient # <<>>
    /\ toClient' = Tail(toClient)
    /\ IF Head(toClient)[1] \in Readers /\ Head(toClient)[2] # 0
          THEN toServer' = Append(toServer, <<"data", 1>>) /\ UNCHANGED client
          ELSE UNCHANGED <<client, toServer>>
    /\ UNCHANGED <<kind, expired, conn, cmd, process, config, cleaned, panic>>

\* A question on stdout is answered, other output only logged; Terminate
\* carries the result.  An answer to a closed connection is an error.
ClientReceive ==
    LET type == Head(toClient)[1]
        arg  == Head(toClient)[2] IN
    /\ client = "wait"
    /\ toClient # <<>>
    /\ toClient' = Tail(toClient)
    /\ CASE type = "terminate" ->
              /\ client' = IF arg = 0 THEN "ok" ELSE "failed"
              /\ UNCHANGED toServer
         [] type = "stdout" /\ arg # 0 ->
              IF ServerOpen
                 THEN toServer' = Append(toServer, <<"data", arg>>) /\ UNCHANGED client
                 ELSE client' = "failed" /\ UNCHANGED toServer
         [] OTHER -> UNCHANGED <<client, toServer>>
    /\ UNCHANGED <<kind, expired, conn, cmd, process, config, cleaned, panic>>

\* decoder.More() is false: the loop ends and nil is returned.
ClientEOF ==
    /\ client = "wait"
    /\ toClient = <<>>
    /\ ~ ServerOpen
    /\ client' = "eof"
    /\ UNCHANGED <<kind, toServer, toClient, expired, conn, cmd, process, config, cleaned, panic>>

ClientGone ==
    /\ "gone" \in Faults
    /\ client = "wait"
    /\ client' = "gone"
    /\ UNCHANGED <<kind, toServer, toClient, expired, conn, cmd, process, config, cleaned, panic>>

Client == Dial \/ ClientReceive \/ ClientEOF

-----------------------------------------------------------------------------
(* handleConn *)

\* A line is read; one of another version ends the session.
ReaderScan ==
    /\ ~ panic
    /\ reader = "scan"
    /\ toServer # <<>>
    /\ ~ expired
    /\ toServer' = Tail(toServer)
    /\ \/ reader' = "send" /\ request' = Head(toServer)
       \/ "version" \in Faults /\ reader' = "done" /\ UNCHANGED request
    /\ UNCHANGED <<kind, client, toClient, expired, writer, response, cmd, process, config,
                   cleaned, panic>>

\* Faulty: the connection has no deadline.
ReaderEndNoDeadline ==
    /\ ~ panic
    /\ reader = "scan"
    /\ Hungup /\ toServer = <<>>
    /\ reader' = "done"
    /\ UNCHANGED <<kind, socket, expired, request, writer, response, cmd, process, config,
                   cleaned, panic>>

\* The client hung up or the deadline passed: cmdOut is closed and the
\* writer's context cancelled.  (A reader that is sending notices neither.)
ReaderEnd ==
    /\ ~ panic
    /\ reader = "scan"
    /\ expired \/ (Hungup /\ toServer = <<>>)
    /\ reader' = "done"
    /\ UNCHANGED <<kind, socket, expired, request, writer, response, cmd, process, config,
                   cleaned, panic>>

\* select: the writer's context is done, the connection is closed.
WriterEnd ==
    /\ ~ panic
    /\ writer = "select"
    /\ reader = "done"
    /\ writer' = "done"
    /\ UNCHANGED <<kind, socket, expired, reader, request, response, cmd, process, config,
                   cleaned, panic>>

\* A failed write is logged and nothing else.
WriterWrite ==
    /\ ~ panic
    /\ writer = "write"
    /\ toClient' = IF Connected /\ ~ expired THEN Append(toClient, response) ELSE toClient
    /\ writer' = "select"
    /\ response' = Nothing
    /\ UNCHANGED <<kind, client, toServer, expired, reader, request, cmd, process, config,
                   cleaned, panic>>

Writer == WriterEnd \/ WriterWrite

-----------------------------------------------------------------------------
(* handleCmd *)

\* Only mountKodo needs a configuration file.
WriteRcloneConfig == config' = (kind = "kodo")

\* execCommand starts the goroutines of the command; a second init fails.
ExecCommand ==
    /\ runner = "off"
    /\ runner' = "start"
    /\ output' = [o \in Readers |-> "read"]

\* InitKodoMountCmd, InitKodoFSMountCmd.  A failure may leave the
\* configuration behind.
HandlerInit ==
    \/ /\ WriteRcloneConfig
       /\ ExecCommand
       /\ UNCHANGED <<handler, chunk, stdin, cleaned>>
    \/ /\ runner # "off" \/ "setup" \in Faults
       /\ WriteRcloneConfig \/ UNCHANGED config
       /\ handler' = "returning"
       /\ UNCHANGED <<output, chunk, runner, stdin, cleaned>>

\* RequestDataCmd: the answer goes to the command's stdin, if there is one
\* that takes it.
HandlerData ==
    /\ IF PipesOpen /\ command = "running"
          THEN stdin' = Append(stdin, request[2]) /\ UNCHANGED handler
          ELSE handler' = "returning" /\ UNCHANGED stdin
    /\ UNCHANGED <<output, chunk, runner, config, cleaned>>

\* KodoUmountCmd: the cache directory and the log file are removed.
HandlerUmount ==
    /\ cleaned' = TRUE
    /\ UNCHANGED <<handler, output, chunk, runner, stdin, config>>

\* select: the command the reader sends.
HandlerReceive ==
    /\ ~ panic
    /\ handler = "loop"
    /\ reader = "send"
    /\ reader' = "scan" /\ request' = Nothing
    /\ CASE request[1] = Init_  -> HandlerInit
         [] request[1] = Umount -> HandlerUmount
         [] OTHER               -> HandlerData
    /\ UNCHANGED <<kind, socket, expired, writer, response, command, asked, answered, printed,
                   stdout, mounted, panic>>

\* Faulty: the handler goes as soon as the client has hung up.
HandlerReturnHungup ==
    /\ ~ panic
    /\ handler = "loop"
    /\ reader = "done" \/ Cancelled \/ Hungup
    /\ handler' = "returning"
    /\ UNCHANGED <<kind, socket, expired, conn, output, chunk, runner, process, config, cleaned,
                   panic>>

\* select: cmdIn is closed, or the context done; isClosed is set and the
\* pipes are closed.
HandlerReturn ==
    /\ ~ panic
    /\ handler = "loop"
    /\ reader = "done" \/ Cancelled
    /\ handler' = "returning"
    /\ UNCHANGED <<kind, socket, expired, conn, output, chunk, runner, process, config, cleaned,
                   panic>>

\* The remaining deferred calls: cancel() and close(cmdOut).
HandlerClose ==
    /\ ~ panic
    /\ handler = "returning"
    /\ handler' = "closed"
    /\ UNCHANGED <<kind, socket, expired, conn, output, chunk, runner, process, config, cleaned,
                   panic>>

Handler == HandlerReceive \/ HandlerReturn \/ HandlerClose

\* An outputReader reads what the command printed and sees that isClosed is
\* not set.  Both read stdout: the parameter output is not used.
OutputRead(o) ==
    /\ ~ panic
    /\ output[o] = "read"
    /\ PipesOpen
    /\ stdout # <<>>
    /\ chunk' = [chunk EXCEPT ![o] = Head(stdout)]
    /\ stdout' = Tail(stdout)
    /\ output' = [output EXCEPT ![o] = "send"]
    /\ UNCHANGED <<kind, socket, expired, conn, handler, runner, command, asked, answered,
                   printed, stdin, mounted, config, cleaned, panic>>

\* End of file, or the pipe was closed.
OutputEnd(o) ==
    /\ ~ panic
    /\ output[o] = "read"
    /\ ~ PipesOpen \/ (stdout = <<>> /\ command \notin {"none", "running"})
    /\ output' = [output EXCEPT ![o] = "done"]
    /\ UNCHANGED <<kind, socket, expired, conn, handler, chunk, runner, process, config, cleaned,
                   panic>>

\* Faulty: a chunk is sent again and again.
OutputSendAgain(o) ==
    /\ ~ panic
    /\ output[o] = "send" /\ handler # "closed"
    /\ writer = "select"
    /\ writer' = "write" /\ response' = <<o, chunk[o]>>
    /\ UNCHANGED <<kind, socket, expired, reader, request, cmd, process, config, cleaned, panic>>

\* cmdOut <- ResponseDataCmd, received by the writer.
OutputSend(o) ==
    /\ ~ panic
    /\ output[o] = "send" /\ handler # "closed"
    /\ writer = "select"
    /\ writer' = "write" /\ response' = <<o, chunk[o]>>
    /\ output' = [output EXCEPT ![o] = "read"]
    /\ chunk' = [chunk EXCEPT ![o] = 0]
    /\ UNCHANGED <<kind, socket, expired, reader, request, handler, runner, process, config,
                   cleaned, panic>>

Output(o) == OutputRead(o) \/ OutputEnd(o) \/ OutputSend(o)

\* execCmd.Run starts the command, unless the context is done; it may also
\* fail to start.
RunCommand ==
    /\ ~ panic
    /\ runner = "start"
    /\ \/ ~ Cancelled /\ command' = "running" /\ runner' = "run"
       \/ Cancelled /\ command' = "killed" /\ runner' = "run"
       \/ "exit" \in Faults /\ command' = "exit1" /\ runner' = "run"
    /\ UNCHANGED <<kind, socket, expired, conn, handler, output, chunk, asked, answered, printed,
                   stdin, stdout, mounted, config, cleaned, panic>>

\* Faulty: the configuration is not removed if the session is closed.
RunReturnsClosedFirst ==
    /\ ~ panic
    /\ runner = "run"
    /\ command # "running"
    /\ IF IsClosed THEN runner' = "done" /\ UNCHANGED config
                   ELSE runner' = "send" /\ config' = FALSE
    /\ UNCHANGED <<kind, socket, expired, conn, handler, output, chunk, process, cleaned, panic>>

\* Faulty: the context is cancelled when Run returns, before Terminate is sent.
RunReturnsCancelling ==
    /\ ~ panic
    /\ runner = "run"
    /\ command # "running"
    /\ config' = FALSE
    /\ runner' = IF IsClosed THEN "done" ELSE "send"
    /\ handler' = IF handler = "loop" THEN "returning" ELSE handler
    /\ UNCHANGED <<kind, socket, expired, conn, output, chunk, process, cleaned, panic>>

\* Run returns; the configuration is removed; Terminate is sent unless
\* isClosed is set.
RunReturns ==
    /\ ~ panic
    /\ runner = "run"
    /\ command # "running"
    /\ config' = FALSE
    /\ runner' = IF IsClosed THEN "done" ELSE "send"
    /\ UNCHANGED <<kind, socket, expired, conn, handler, output, chunk, process, cleaned, panic>>

\* cmdOut <- TerminateCmd, received by the writer; then the context is cancelled.
RunTerminate ==
    /\ ~ panic
    /\ runner = "send" /\ handler # "closed"
    /\ writer = "select"
    /\ writer' = "write"
    /\ response' = <<"terminate", IF command = "exit0" THEN 0 ELSE 1>>
    /\ runner' = "done"
    /\ UNCHANGED <<kind, socket, expired, reader, request, handler, output, chunk, process,
                   config, cleaned, panic>>

Runner == RunCommand \/ RunReturns \/ RunTerminate

\* isClosed was not set when it was looked at, but cmdOut is closed now.
SendOnClosed ==
    /\ ~ panic
    /\ handler = "closed"
    /\ runner = "send" \/ \E o \in Readers : output[o] = "send"
    /\ panic' = TRUE
    /\ UNCHANGED <<kind, socket, expired, conn, cmd, process, config, cleaned>>

-----------------------------------------------------------------------------
(* The command, the clock *)

CommandPrint ==
    /\ command = "running"
    /\ \/ /\ kind = "kodofs" /\ ~ asked /\ answered < Prompts
          /\ stdout' = Append(stdout, answered + 1)
          /\ asked' = TRUE
          /\ UNCHANGED printed
       \/ /\ printed < Lines
          /\ stdout' = Append(stdout, 0)
          /\ printed' = printed + 1
          /\ UNCHANGED asked
    /\ UNCHANGED <<kind, socket, expired, conn, cmd, command, answered, stdin, mounted, config,
                   cleaned, panic>>

CommandRead ==
    /\ command = "running"
    /\ asked /\ stdin # <<>>
    /\ stdin' = Tail(stdin)
    /\ answered' = answered + 1
    /\ asked' = FALSE
    /\ UNCHANGED <<kind, socket, expired, conn, cmd, command, printed, stdout, mounted, config,
                   cleaned, panic>>

\* The command goes to the background once the volume is mounted, or fails.
CommandExit ==
    /\ command = "running"
    /\ \/ /\ kind = "kodofs" => answered = Prompts
          /\ command' = "exit0" /\ mounted' = TRUE
       \/ "exit" \in Faults /\ command' = "exit1" /\ UNCHANGED mounted
    /\ UNCHANGED <<kind, socket, expired, conn, cmd, asked, answered, printed, stdin, stdout,
                   config, cleaned, panic>>

\* exec.CommandContext kills the command.
CommandKilled ==
    /\ command = "running"
    /\ Cancelled /\ ~ panic
    /\ command' = "killed"
    /\ UNCHANGED <<kind, socket, expired, conn, cmd, asked, answered, printed, stdin, stdout,
                   mounted, config, cleaned, panic>>

\* 30 seconds have passed since the connection was accepted.
Deadline ==
    /\ client \notin {"dial", "refused"}
    /\ ~ expired
    /\ expired' = TRUE
    /\ UNCHANGED <<kind, socket, conn, cmd, process, config, cleaned, panic>>

Command == CommandPrint \/ CommandRead \/ CommandExit

Next ==
    \/ Client
    \/ ClientGone
    \/ ReaderScan \/ ReaderEnd
    \/ Writer
    \/ Handler
    \/ \E o \in Readers : Output(o)
    \/ Runner
    \/ SendOnClosed
    \/ Command
    \/ CommandKilled
    \/ Deadline

Spec == Init /\ [][Next]_vars

\* Goroutines and the client are scheduled, time passes, a killed process
\* ends.  The command itself may hang for ever.
FairSpec ==
    /\ Spec
    /\ WF_vars(Client)
    /\ WF_vars(ReaderScan \/ ReaderEnd)
    /\ WF_vars(Writer)
    /\ WF_vars(Handler)
    /\ \A o \in Readers : WF_vars(Output(o))
    /\ WF_vars(Runner)
    /\ WF_vars(SendOnClosed)
    /\ WF_vars(CommandKilled)
    /\ WF_vars(Deadline)

-----------------------------------------------------------------------------
(* Properties *)

\* A mount the connector reports as successful has succeeded: whatever the
\* other goroutines, the deadline and other sessions do, Terminate with code 0
\* reaches the client only after the command has mounted the volume.
ReportedMountIsReal ==
    client = "ok" /\ kind # "umount" => mounted

\* Every answer in the pipe is the answer to the question the command asks:
\* the access token is never entered as the master address or the other way
\* round, although questions pass through two racing readers.
AnswersMatchQuestions ==
    stdin # <<>> => asked /\ stdin = <<answered + 1>>

\* A mountKodo session that is neither given up nor timed out can make the
\* daemon panic only through an outputReader that still holds output of the
\* command: the runner cancels the context after Terminate was taken, so its
\* own send never meets the closed channel.
PanicOnlyFromOutput ==
    panic /\ kind = "kodo" =>
        expired \/ Hungup \/ \E o \in Readers : output[o] = "send"

\* The rclone configuration, which holds the secret key, does not survive the
\* command: it is gone when the runner has finished, and once the command was
\* started that happens when the command exits or the session ends.
ConfigRemoved ==
    /\ [](runner \in {"send", "done"} => ~ config)
    /\ (runner = "run" /\ IsClosed) ~> (~ config \/ panic)

\* An answer of the client is stuck in a reader whose handler is gone.
LostAnswer == reader = "send" /\ handler = "closed"

\* The client gets its answer or the end of the connection, at the latest
\* after the deadline, unless its last answer came when the handler was gone:
\* then the reader hangs in its send, never sees the deadline and never closes
\* the connection.  mountKodo sends nothing after the first line and always
\* returns.
ClientReturns ==
    <>(client \in Returned \/ (kind = "kodofs" /\ LostAnswer))

\* A clean-up the connector has read is carried out, although the client has
\* hung up long ago and whether or not the deadline passes.
CleanupDone ==
    request = <<Umount, 0>> ~> cleaned

\* plugin/kodo_node_server.go:53 logs that the "kodo volume %s is mounted on
\* %s" when mountKodo returns nil.
SuccessMeansMounted ==
    client \in {"ok", "eof"} /\ kind # "umount" => mounted
=============================================================================

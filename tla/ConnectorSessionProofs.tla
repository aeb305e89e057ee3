------------------------ MODULE ConnectorSessionProofs ------------------------
(***************************************************************************)
(* Proofs about ConnectorSession, for any number of questions and of lines *)
(* the command prints, any of the sessions and any set of failures: a      *)
(* reported mount is real, an answer is the answer to the question that is *)
(* asked, only output of the command can make the daemon panic in a        *)
(* mountKodo session, and the configuration with the keys is gone when the *)
(* runner has finished.                                                    *)
(*                                                                         *)
(* A question of the command passes through stdout, an outputReader, the   *)
(* writer, the socket, the client, the socket, the reader and stdin.  The  *)
(* command asks one at a time, so at most one of these places holds a      *)
(* question or its answer, and it is the one the command waits for.        *)
(***************************************************************************)
EXTENDS ConnectorSession, SequenceTheorems, TLAPS

InitLine   == <<Init_, 0>>
UmountLine == <<Umount, 0>>
DataLine   == <<"data", answered + 1>>

\* A line for the client that holds a question of the command.
Question(r) == r[1] \in Readers /\ r[2] # 0

\* The places a question and its answer pass through.
InStdout   == \E i \in 1..Len(stdout) : stdout[i] # 0
InChunk    == \E o \in Readers : chunk[o] # 0
InResponse == Question(response)
InToClient == \E i \in 1..Len(toClient) : Question(toClient[i])
InToServer == toServer = <<DataLine>>
InRequest  == request = DataLine
InStdin    == stdin # <<>>

-----------------------------------------------------------------------------
(***************************************************************************)
(* The inductive invariant                                                 *)
(***************************************************************************)

Flags ==
    /\ expired \in BOOLEAN /\ asked \in BOOLEAN /\ mounted \in BOOLEAN
    /\ config \in BOOLEAN /\ cleaned \in BOOLEAN /\ panic \in BOOLEAN

\* The types without the bounds on what is under way.
Types ==
    /\ kind \in Kinds
    /\ client \in {"dial", "wait"} \cup Returned
    /\ toServer \in Seq(Requests)
    /\ toClient \in Seq(Responses)
    /\ reader \in {"scan", "send", "done"}
    /\ request \in Requests \cup {Nothing}
    /\ writer \in {"select", "write", "done"}
    /\ response \in Responses \cup {Nothing}
    /\ handler \in {"loop", "returning", "closed"}
    /\ output \in [Readers -> {"off", "read", "send", "done"}]
    /\ chunk \in [Readers -> Chunks]
    /\ runner \in {"off", "start", "run", "send", "done"}
    /\ command \in {"none", "running", "exit0", "exit1", "killed"}
    /\ answered \in 0..Prompts
    /\ printed \in 0..Lines
    /\ stdin \in Seq(Asks)
    /\ stdout \in Seq(Chunks)

\* The order in which a session begins: the client sends one init (or umount)
\* line, which starts the runner, which starts the command.
Startup ==
    /\ reader = "send" <=> request # Nothing
    /\ writer = "write" <=> response # Nothing
    /\ client \in {"dial", "refused"} => toServer = <<>> /\ request = Nothing /\ runner = "off"
    /\ toServer = <<InitLine>> => request = Nothing /\ runner = "off"
    /\ request = InitLine => toServer = <<>> /\ runner = "off"
    /\ toServer = <<UmountLine>> \/ request = UmountLine => kind = "umount"
    /\ runner \in {"off", "start"} => command = "none"
    /\ runner = "off" => \A o \in Readers : output[o] = "off"
    /\ \A o \in Readers : chunk[o] # 0 => output[o] = "send"
    /\ asked => kind = "kodofs" /\ command # "none" /\ answered < Prompts

\* What each place may hold, and that only one of them does.
Questions ==
    /\ toServer \in {<<>>, <<InitLine>>, <<UmountLine>>, <<DataLine>>}
    /\ request \in {Nothing, InitLine, UmountLine, DataLine}
    /\ stdin \in {<<>>, <<answered + 1>>}
    /\ \A i \in 1..Len(stdout) : stdout[i] \in {0, answered + 1}
    /\ \A o \in Readers : chunk[o] \in {0, answered + 1}
    /\ Question(response) => response[2] = answered + 1
    /\ \A i \in 1..Len(toClient) : Question(toClient[i]) => toClient[i][2] = answered + 1

Exclusive ==
    /\ InStdout => ~ (InChunk \/ InResponse \/ InToClient \/ InToServer \/ InRequest \/ InStdin)
    /\ InChunk => ~ (InResponse \/ InToClient \/ InToServer \/ InRequest \/ InStdin)
    /\ InResponse => ~ (InToClient \/ InToServer \/ InRequest \/ InStdin)
    /\ InToClient => ~ (InToServer \/ InRequest \/ InStdin)
    /\ InToServer => ~ (InRequest \/ InStdin)
    /\ InRequest => ~ InStdin

Unique ==
    /\ \A i, j \in 1..Len(stdout) : stdout[i] # 0 /\ stdout[j] # 0 => i = j
    /\ \A o, q \in Readers : chunk[o] # 0 /\ chunk[q] # 0 => o = q
    /\ \A i, j \in 1..Len(toClient) : Question(toClient[i]) /\ Question(toClient[j]) => i = j

OnlyWhenAsked ==
    InStdout \/ InChunk \/ InResponse \/ InToClient \/ InToServer \/ InRequest \/ InStdin => asked

\* How many outputs of the command are under way to the client: never more
\* than it has printed, and Terminate.
Sending(o) == IF output[o] = "send" THEN 1 ELSE 0
Writing    == IF writer = "write" THEN 1 ELSE 0
Asking     == IF asked THEN 1 ELSE 0
Ending     == IF runner = "done" THEN 1 ELSE 0

Backlog  == Len(stdout) + Sending("stdout") + Sending("stderr")
UnderWay == Backlog + Writing + Len(toClient)

Flow ==
    /\ Backlog <= printed + answered + Asking
    /\ UnderWay <= printed + answered + Asking + Ending

\* Terminate with code 0 is on its way only when the command has mounted.
Results ==
    /\ response = <<"terminate", 0>> => command = "exit0"
    /\ \A i \in 1..Len(toClient) : toClient[i] = <<"terminate", 0>> => command = "exit0"
    /\ command = "exit0" => mounted
    /\ client = "ok" /\ kind # "umount" => mounted

\* In a mountKodo session that is neither given up nor timed out, the reader
\* and the handler end only before the runner starts or after it has ended.
Orderly ==
    kind = "kodo" /\ ~ expired /\ ~ Hungup =>
        /\ reader = "done" => runner = "off"
        /\ handler # "loop" => runner \in {"off", "done"}
        /\ panic => \E o \in Readers : output[o] = "send"

ConfigGone == runner \in {"send", "done"} => ~ config

SessionInv ==
    /\ Flags
    /\ Types
    /\ Startup
    /\ Questions
    /\ Exclusive
    /\ Unique
    /\ OnlyWhenAsked
    /\ Flow
    /\ Results
    /\ Orderly
    /\ ConfigGone

-----------------------------------------------------------------------------
(* Steps *)

\* The lines that pass through the session have their types.
LEMMA LineTypes ==
    /\ InitLine \in Requests /\ UmountLine \in Requests
    /\ \A n \in Asks : <<"data", n>> \in Requests
    /\ \A o \in Readers, n \in Chunks : <<o, n>> \in Responses
    /\ <<"terminate", 0>> \in Responses /\ <<"terminate", 1>> \in Responses
  BY DEF InitLine, UmountLine, Init_, Umount, Requests, Responses

\* Appending keeps the type of a sequence.
LEMMA AppendType ==
    ASSUME NEW S, NEW s \in Seq(S), NEW e \in S
    PROVE  Append(s, e) \in Seq(S)
  OBVIOUS

\* Appending to a sequence and taking its head off.
LEMMA SeqFacts ==
    ASSUME NEW S, NEW s \in Seq(S)
    PROVE  /\ s # <<>> => /\ Head(s) \in S /\ Head(s) = s[1] /\ Tail(s) \in Seq(S)
                          /\ Len(s) \in Nat /\ Len(s) >= 1
                          /\ Len(Tail(s)) = Len(s) - 1
                          /\ \A i \in 1..Len(Tail(s)) : Tail(s)[i] = s[i + 1] /\ i + 1 \in 1..Len(s)
           /\ \A e \in S : /\ Append(s, e) \in Seq(S)
                            /\ Len(Append(s, e)) = Len(s) + 1
                            /\ Append(s, e)[Len(s) + 1] = e
                            /\ \A i \in 1..Len(s) : Append(s, e)[i] = s[i]
  OBVIOUS

\* A flag stays a flag.
LEMMA FlagsStep ==
    ASSUME Flags, [Next]_vars
    PROVE  Flags'
<1> USE DEF Flags, socket, conn, cmd, process
<1>u. CASE UNCHANGED vars
  BY <1>u DEF vars
<1>1. CASE Dial \/ ClientReceive \/ ClientEOF \/ ClientGone
  BY <1>1, Zenon DEF Dial, ClientReceive, ClientEOF, ClientGone
<1>2. CASE ReaderScan \/ ReaderEnd \/ WriterEnd \/ WriterWrite
  BY <1>2, Zenon DEF ReaderScan, ReaderEnd, WriterEnd, WriterWrite
<1>3. CASE HandlerReceive
  <2>1. config' \in BOOLEAN
    BY <1>3, Zenon DEF HandlerReceive, HandlerInit, HandlerUmount, HandlerData, WriteRcloneConfig
  <2>2. cleaned' \in BOOLEAN
    BY <1>3, Zenon DEF HandlerReceive, HandlerInit, HandlerUmount, HandlerData
  <2> QED
    BY <1>3, <2>1, <2>2, Zenon DEF HandlerReceive
<1>4. CASE HandlerReturn \/ HandlerClose
  BY <1>4, Zenon DEF HandlerReturn, HandlerClose
<1>5. ASSUME NEW o \in Readers, OutputRead(o) \/ OutputEnd(o) \/ OutputSend(o) PROVE Flags'
  BY <1>5, Zenon DEF OutputRead, OutputEnd, OutputSend
<1>6. CASE RunCommand \/ RunReturns \/ RunTerminate \/ SendOnClosed
  BY <1>6, Zenon DEF RunCommand, RunReturns, RunTerminate, SendOnClosed
<1>7. CASE CommandPrint \/ CommandRead
  BY <1>7, Zenon DEF CommandPrint, CommandRead
<1>8. CASE CommandExit \/ CommandKilled \/ Deadline
  BY <1>8, Zenon DEF CommandExit, CommandKilled, Deadline
<1> QED
  BY <1>u, <1>1, <1>2, <1>3, <1>4, <1>5, <1>6, <1>7, <1>8
     DEF Next, Client, Writer, Handler, Output, Runner, Command

\* What the handler does with a line, and what it leaves alone.
LEMMA HandlerSteps ==
    ASSUME Types, Startup, HandlerReceive
    PROVE  /\ \/ request = InitLine /\ HandlerInit
              \/ request = UmountLine /\ HandlerUmount
              \/ request[1] = "data" /\ HandlerData
           /\ ~ panic /\ handler = "loop" /\ reader = "send" /\ request # Nothing
           /\ reader' = "scan" /\ request' = Nothing
           /\ UNCHANGED <<kind, client, toServer, toClient, expired, writer, response, command,
                          asked, answered, printed, stdout, mounted, panic>>
<1>1. /\ ~ panic /\ handler = "loop" /\ reader = "send"
      /\ reader' = "scan" /\ request' = Nothing
      /\ UNCHANGED <<kind, client, toServer, toClient, expired, writer, response, command,
                     asked, answered, printed, stdout, mounted, panic>>
  BY Zenon DEF HandlerReceive, socket
<1>2. request # Nothing
  BY <1>1 DEF Startup
<1>3. request \in Requests
  BY <1>2 DEF Types
<1>4. \/ request = InitLine /\ request[1] = "init"
      \/ request = UmountLine /\ request[1] = "umount"
      \/ request[1] = "data"
  BY <1>3 DEF Requests, InitLine, UmountLine, Init_, Umount
<1>5. request[1] = "init" => HandlerInit
  BY DEF HandlerReceive, Init_, Umount
<1>6. request[1] = "umount" => HandlerUmount
  BY DEF HandlerReceive, Init_, Umount
<1>7. request[1] = "data" => HandlerData
  BY DEF HandlerReceive, Init_, Umount
<1> QED
  BY <1>1, <1>2, <1>4, <1>5, <1>6, <1>7

\* An init command starts the goroutines of the command, or ends the handler.
LEMMA InitSteps ==
    ASSUME HandlerInit
    PROVE  /\ \/ runner = "off" /\ runner' = "start" /\ output' = [q \in Readers |-> "read"]
                 /\ UNCHANGED handler
              \/ handler' = "returning" /\ UNCHANGED <<output, runner>>
           /\ UNCHANGED <<chunk, stdin>>
  BY Zenon DEF HandlerInit, ExecCommand

\* Every step keeps the types.
LEMMA TypesStep ==
    ASSUME Types, Startup, [Next]_vars
    PROVE  Types'
<1> USE SessionAssumption
       DEF Types, socket, conn, cmd, process
<1>u. CASE UNCHANGED vars
  BY <1>u DEF vars
<1>1. CASE Dial
  <2>1. toServer' \in {<<InitLine>>, <<UmountLine>>, toServer}
    BY <1>1 DEF Dial, SendInit, SendUmount, InitLine, UmountLine
  <2>2. toServer' \in Seq(Requests)
    <3>1. <<InitLine>> \in Seq(Requests) /\ <<UmountLine>> \in Seq(Requests)
      BY LineTypes, SMT
    <3> QED
      BY <2>1, <3>1
  <2> QED
    BY <1>1, <2>2 DEF Dial, SendInit, SendUmount, Returned
<1>2. CASE ClientReceive
  <2>1. Head(toClient) \in Responses /\ toClient' \in Seq(Responses)
    BY <1>2, SeqFacts DEF ClientReceive
  <2>2. toServer' \in Seq(Requests)
    <3>1. CASE UNCHANGED toServer
      BY <3>1
    <3>2. CASE Head(toClient)[1] = "stdout" /\ Head(toClient)[2] # 0
               /\ toServer' = Append(toServer, <<"data", Head(toClient)[2]>>)
      <4>1. Head(toClient)[2] \in Asks
        BY SMTT(30), <2>1, <3>2 DEF Responses, Readers, Chunks, Asks
      <4> QED
        BY <3>2, <4>1, LineTypes, SeqFacts
    <3> QED
      BY <1>2, <3>1, <3>2 DEF ClientReceive
  <2>3. client' \in {"dial", "wait"} \cup Returned
    BY <1>2 DEF ClientReceive, Returned
  <2> QED
    BY SMTT(30), <1>2, <2>1, <2>2, <2>3 DEF ClientReceive
<1>3. CASE ClientEOF \/ ClientGone
  BY <1>3 DEF ClientEOF, ClientGone, Returned
<1>4. CASE ReaderScan
  BY <1>4, SeqFacts DEF ReaderScan
<1>5. CASE ReaderEnd \/ WriterEnd
  BY <1>5 DEF ReaderEnd, WriterEnd
<1>6. CASE WriterWrite
  <2>1. response \in Responses
    BY <1>6 DEF WriterWrite, Startup
  <2> QED
    BY <1>6, <2>1 DEF WriterWrite
<1>7. CASE HandlerReceive
  <2>0. reader' = "scan" /\ request' = Nothing
        /\ UNCHANGED <<kind, client, toServer, toClient, writer, response, command, answered, printed, stdout>>
    BY <1>7, HandlerSteps
  <2>1. CASE HandlerInit
    BY <2>0, <2>1, InitSteps
  <2>2. CASE HandlerUmount
    BY <2>0, <2>2 DEF HandlerUmount
  <2>3. CASE HandlerData /\ request[1] = "data"
    <3>1. request[2] \in Asks
      BY <2>3 DEF Requests, Init_, Umount, Nothing
    <3>2. stdin' = Append(stdin, request[2]) \/ stdin' = stdin
      BY <2>3 DEF HandlerData
    <3>3. stdin' \in Seq(Asks)
      <4>1. Append(stdin, request[2]) \in Seq(Asks)
        BY <3>1, AppendType
      <4> QED
        BY <3>2, <4>1
    <3>4. handler' \in {"returning", handler}
      BY <2>3 DEF HandlerData
    <3> QED
      BY <2>0, <2>3, <3>3, <3>4 DEF HandlerData
  <2> QED
    BY <1>7, <2>1, <2>2, <2>3, HandlerSteps
<1>8. CASE HandlerReturn \/ HandlerClose
  BY <1>8 DEF HandlerReturn, HandlerClose
<1>9. ASSUME NEW o \in Readers, OutputRead(o) PROVE Types'
  BY <1>9, SeqFacts DEF OutputRead
<1>10. ASSUME NEW o \in Readers, OutputEnd(o) PROVE Types'
  BY <1>10 DEF OutputEnd
<1>11. ASSUME NEW o \in Readers, OutputSend(o) PROVE Types'
  BY <1>11, LineTypes DEF OutputSend, Chunks
<1>12. CASE RunCommand \/ RunReturns \/ SendOnClosed
  BY <1>12 DEF RunCommand, RunReturns, SendOnClosed
<1>13. CASE RunTerminate
  BY <1>13, LineTypes DEF RunTerminate
<1>14. CASE CommandPrint
  <2>1. 0 \in Chunks /\ (answered < Prompts => answered + 1 \in Chunks)
    BY DEF Chunks
  <2>2. \/ stdout' = Append(stdout, 0)
        \/ answered < Prompts /\ stdout' = Append(stdout, answered + 1)
    BY <1>14 DEF CommandPrint
  <2>4. stdout' \in Seq(Chunks)
    <3>1. \A e \in Chunks : Append(stdout, e) \in Seq(Chunks)
      BY AppendType
    <3> QED
      BY <2>1, <2>2, <3>1
  <2>3. printed' \in 0..Lines
    BY <1>14 DEF CommandPrint
  <2> QED
    BY <1>14, <2>3, <2>4 DEF CommandPrint
<1>15. CASE CommandRead
  BY <1>15, SeqFacts DEF CommandRead, Startup
<1>16. CASE CommandExit \/ CommandKilled \/ Deadline
  BY <1>16 DEF CommandExit, CommandKilled, Deadline
<1> QED
  BY <1>u, <1>1, <1>2, <1>3, <1>4, <1>5, <1>6, <1>7, <1>8, <1>9, <1>10, <1>11, <1>12, <1>13, <1>14, <1>15, <1>16
     DEF Next, Client, Writer, Handler, Output, Runner, Command

\* Sequences of one line.
LEMMA Singleton ==
    ASSUME NEW x
    PROVE  /\ <<x>> # <<>> /\ Len(<<x>>) = 1 /\ <<x>>[1] = x
           /\ Head(<<x>>) = x /\ Tail(<<x>>) = <<>> /\ Append(<<>>, x) = <<x>>
<1>1. <<x>> \in Seq({x})
  OBVIOUS
<1>2. Tail(<<x>>) \in Seq({x}) /\ Len(Tail(<<x>>)) = 0
  BY <1>1
<1>3. Tail(<<x>>) = <<>>
  BY <1>2, EmptySeq
<1> QED
  BY <1>1, <1>3

\* The reader takes the only line there is.
LEMMA ScanSteps ==
    ASSUME Types, Questions, ReaderScan
    PROVE  /\ toServer = <<Head(toServer)>>
           /\ Head(toServer) \in {InitLine, UmountLine, DataLine}
           /\ toServer' = <<>>
<1>1. toServer # <<>> /\ toServer' = Tail(toServer)
  BY DEF ReaderScan
<1>2. PICK x \in {InitLine, UmountLine, DataLine} : toServer = <<x>>
  BY <1>1 DEF Questions
<1> QED
  BY <1>1, <1>2, Singleton

\* The client answers a question only when nothing else is on its way to the
\* connector.
LEMMA ReceiveSteps ==
    ASSUME Types, Startup, Questions, Exclusive, OnlyWhenAsked, ClientReceive
    PROVE  /\ toClient # <<>> /\ toClient' = Tail(toClient)
           /\ UNCHANGED request
           /\ \/ toServer' = toServer
              \/ /\ Question(toClient[1]) /\ asked
                 /\ toServer = <<>> /\ toServer' = <<DataLine>>
                 /\ request # InitLine
<1>1. toClient # <<>> /\ toClient' = Tail(toClient) /\ UNCHANGED request
  BY DEF ClientReceive, conn
<1>2. Head(toClient) = toClient[1] /\ 1 \in 1..Len(toClient)
  BY <1>1, SeqFacts DEF Types
<1>3. \/ toServer' = toServer
      \/ /\ toClient[1][1] = "stdout" /\ toClient[1][2] # 0
         /\ toServer' = Append(toServer, <<"data", toClient[1][2]>>)
  BY <1>2 DEF ClientReceive
<1>4. ASSUME toClient[1][1] = "stdout", toClient[1][2] # 0,
             toServer' = Append(toServer, <<"data", toClient[1][2]>>)
      PROVE  /\ Question(toClient[1]) /\ asked
             /\ toServer = <<>> /\ toServer' = <<DataLine>>
             /\ request # InitLine
  <2>1. Question(toClient[1])
    BY <1>4 DEF Question, Readers
  <2>2. InToClient
    BY <1>2, <2>1 DEF InToClient
  <2>3. asked /\ toServer # <<DataLine>> /\ <<"data", toClient[1][2]>> = DataLine
    BY <1>2, <2>1, <2>2 DEF OnlyWhenAsked, Exclusive, InToServer, Questions, DataLine
  <2>4. kind = "kodofs" /\ runner # "off"
    BY <2>3 DEF Startup
  <2>5. toServer # <<InitLine>> /\ toServer # <<UmountLine>> /\ request # InitLine
    BY <2>4 DEF Startup
  <2>6. toServer = <<>>
    BY <2>3, <2>5 DEF Questions
  <2> QED
    BY <1>4, <2>1, <2>3, <2>5, <2>6, Singleton
<1> QED
  BY <1>1, <1>3, <1>4

\* A session begins in its order.
LEMMA StartupStep ==
    ASSUME Flags, Types, Startup, Questions, Exclusive, OnlyWhenAsked, [Next]_vars
    PROVE  Startup'
<1> USE SessionAssumption
       DEF Types, Startup, Questions, socket, conn, cmd, process, InitLine, UmountLine, DataLine,
           Nothing, Init_, Umount
<1>u. CASE UNCHANGED vars
  BY <1>u DEF vars
<1>1. CASE Dial
  <2>1. CASE kind # "umount" /\ SendInit
    BY <1>1, <2>1 DEF Dial, SendInit, Returned
  <2>2. CASE kind = "umount" /\ SendUmount
    BY <1>1, <2>2 DEF Dial, SendUmount, Returned
  <2>3. CASE client' = "refused" /\ UNCHANGED toServer
    BY <1>1, <2>3 DEF Dial
  <2> QED
    BY <1>1, <2>1, <2>2, <2>3 DEF Dial
<1>2. CASE ClientReceive
  <2>1. client' \notin {"dial", "refused"} /\ client = "wait"
    BY <1>2 DEF ClientReceive
  <2>2. toServer' = toServer \/ (toServer' = <<DataLine>> /\ request # InitLine)
    BY <1>2, ReceiveSteps
  <2>3. UNCHANGED <<kind, reader, request, writer, response, output, chunk, runner, command, asked,
                    answered>>
    BY <1>2 DEF ClientReceive
  <2>4. <<DataLine>> # <<InitLine>> /\ <<DataLine>> # <<UmountLine>>
    OBVIOUS
  <2> QED
    BY <2>1, <2>2, <2>3, <2>4
<1>3. CASE ClientEOF \/ ClientGone
  BY <1>3 DEF ClientEOF, ClientGone, Returned
<1>4. CASE ReaderScan
  <2>1. toServer' = <<>> /\ <<>> # <<InitLine>> /\ <<>> # <<UmountLine>>
    BY <1>4, ScanSteps, Singleton
  <2>2. PICK x \in {InitLine, UmountLine, DataLine} : toServer = <<x>> /\ x = Head(toServer)
    BY <1>4, ScanSteps
  <2>3. /\ x # Nothing
        /\ x = InitLine => runner = "off"
        /\ x = UmountLine => kind = "umount"
    BY <2>2
  <2>4. \/ reader' = "send" /\ request' = x
        \/ reader' = "done" /\ request' = request /\ request = Nothing
    BY <1>4, <2>2 DEF ReaderScan
  <2>5. client \notin {"dial", "refused"}
    BY <2>2, Singleton
  <2>6. UNCHANGED <<kind, client, writer, response, output, chunk, runner, command, asked, answered>>
    BY <1>4 DEF ReaderScan
  <2> QED
    BY <2>1, <2>3, <2>4, <2>5, <2>6
<1>5. CASE ReaderEnd \/ WriterEnd \/ WriterWrite
  BY <1>5 DEF ReaderEnd, WriterEnd, WriterWrite
<1>6. CASE HandlerReceive
  <2>1. CASE HandlerInit
    BY <1>6, <2>1, InitSteps, HandlerSteps
  <2>2. CASE HandlerUmount
    BY <1>6, <2>2, HandlerSteps DEF HandlerUmount
  <2>3. CASE HandlerData
    BY <1>6, <2>3, HandlerSteps DEF HandlerData
  <2> QED
    BY <1>6, <2>1, <2>2, <2>3, HandlerSteps
<1>7. CASE HandlerReturn \/ HandlerClose
  BY <1>7 DEF HandlerReturn, HandlerClose
<1>8. ASSUME NEW o \in Readers, OutputRead(o) PROVE Startup'
  BY <1>8 DEF OutputRead, PipesOpen
<1>9. ASSUME NEW o \in Readers, OutputEnd(o) PROVE Startup'
  BY <1>9 DEF OutputEnd
<1>10. ASSUME NEW o \in Readers, OutputSend(o) PROVE Startup'
  BY <1>10 DEF OutputSend, Readers
<1>11. CASE RunCommand
  BY <1>11 DEF RunCommand
<1>12. CASE RunReturns
  <2>1. runner = "run" /\ runner' \in {"send", "done"}
    BY <1>12 DEF RunReturns
  <2>2. UNCHANGED <<kind, client, toServer, reader, request, writer, response, output, chunk, command,
                    asked, answered>>
    BY <1>12 DEF RunReturns
  <2> QED
    BY <2>1, <2>2
<1>13. CASE RunTerminate
  BY <1>13 DEF RunTerminate
<1>14. CASE SendOnClosed
  BY <1>14 DEF SendOnClosed
<1>15. CASE CommandPrint
  BY <1>15 DEF CommandPrint
<1>16. CASE CommandRead
  BY <1>16 DEF CommandRead
<1>17. CASE CommandExit \/ CommandKilled \/ Deadline
  BY <1>17 DEF CommandExit, CommandKilled, Deadline
<1> QED
  BY <1>u, <1>1, <1>2, <1>3, <1>4, <1>5, <1>6, <1>7, <1>8, <1>9, <1>10, <1>11, <1>12, <1>13, <1>14, <1>15, <1>16, <1>17
     DEF Next, Client, Writer, Handler, Output, Runner, Command

\* Terminate with code 0 is sent only by a command that has mounted.
LEMMA ResultsStep ==
    ASSUME Flags, Types, Startup, Results, [Next]_vars
    PROVE  Results'
<1> USE SessionAssumption
       DEF Types, Startup, Results, socket, conn, cmd, process
<1>u. CASE UNCHANGED vars
  BY <1>u DEF vars
<1>1. CASE Dial
  <2>1. client' = "ok" => kind = "umount"
    BY <1>1 DEF Dial, SendInit, SendUmount
  <2> QED
    BY <1>1, <2>1 DEF Dial
<1>2. CASE ClientReceive
  <2>1. /\ Len(toClient') = Len(toClient) - 1 /\ Len(toClient) \in Nat /\ Head(toClient) = toClient[1]
        /\ 1 \in 1..Len(toClient)
        /\ \A i \in 1..Len(toClient') : toClient'[i] = toClient[i + 1] /\ i + 1 \in 1..Len(toClient)
    BY <1>2, SeqFacts DEF ClientReceive
  <2>2. client' = "ok" => toClient[1][1] = "terminate" /\ toClient[1][2] = 0
    BY <1>2, <2>1 DEF ClientReceive
  <2>3. toClient[1][1] = "terminate" /\ toClient[1][2] = 0 => toClient[1] = <<"terminate", 0>>
    BY <2>1 DEF Responses, Readers
  <2>4. UNCHANGED <<kind, response, command, mounted>>
    BY <1>2 DEF ClientReceive
  <2>5. client' = "ok" /\ kind # "umount" => mounted
    BY <2>1, <2>2, <2>3
  <2>6. ASSUME NEW i \in 1..Len(toClient'), toClient'[i] = <<"terminate", 0>> PROVE command = "exit0"
    <3>1. i + 1 \in 1..Len(toClient) /\ toClient[i + 1] = <<"terminate", 0>>
      BY <2>1, <2>6
    <3> QED
      BY <3>1
  <2> QED
    BY <2>4, <2>5, <2>6
<1>3. CASE ClientEOF \/ ClientGone
  BY <1>3 DEF ClientEOF, ClientGone
<1>4. CASE ReaderScan \/ ReaderEnd \/ WriterEnd
  BY <1>4 DEF ReaderScan, ReaderEnd, WriterEnd
<1>5. CASE WriterWrite
  <2>0. response' = Nothing /\ Nothing # <<"terminate", 0>> /\ UNCHANGED <<kind, client, command, mounted>>
    BY <1>5 DEF WriterWrite, Nothing
  <2>1. CASE toClient' = toClient
    BY <2>0, <2>1
  <2>2. CASE toClient' = Append(toClient, response)
    <3>1. response \in Responses
      BY <1>5 DEF WriterWrite
    <3>2. /\ Len(toClient') = Len(toClient) + 1 /\ toClient'[Len(toClient) + 1] = response
          /\ \A i \in 1..Len(toClient) : toClient'[i] = toClient[i]
      BY <2>2, <3>1, SeqFacts
    <3>3. \A i \in 1..Len(toClient') : i \in 1..Len(toClient) \/ i = Len(toClient) + 1
      BY <3>2
    <3>4. \A i \in 1..Len(toClient') : toClient'[i] = <<"terminate", 0>> => command = "exit0"
      BY <3>2, <3>3
    <3> QED
      BY <2>0, <3>4
  <2> QED
    BY <1>5, <2>1, <2>2 DEF WriterWrite
<1>6. CASE HandlerReceive
  BY <1>6, HandlerSteps
<1>7. CASE HandlerReturn \/ HandlerClose
  BY <1>7 DEF HandlerReturn, HandlerClose
<1>8. ASSUME NEW o \in Readers, OutputRead(o) \/ OutputEnd(o) PROVE Results'
  BY <1>8 DEF OutputRead, OutputEnd
<1>9. ASSUME NEW o \in Readers, OutputSend(o) PROVE Results'
  BY <1>9 DEF OutputSend, Readers
<1>10. CASE RunCommand
  BY <1>10 DEF RunCommand
<1>11. CASE RunReturns \/ SendOnClosed
  BY <1>11 DEF RunReturns, SendOnClosed
<1>12. CASE RunTerminate
  BY <1>12 DEF RunTerminate
<1>13. CASE CommandPrint \/ CommandRead
  BY <1>13 DEF CommandPrint, CommandRead
<1>14. CASE CommandExit
  BY <1>14 DEF CommandExit
<1>15. CASE CommandKilled \/ Deadline
  BY <1>15 DEF CommandKilled, Deadline
<1> QED
  BY <1>u, <1>1, <1>2, <1>3, <1>4, <1>5, <1>6, <1>7, <1>8, <1>9, <1>10, <1>11, <1>12, <1>13, <1>14, <1>15
     DEF Next, Client, Writer, Handler, Output, Runner, Command

\* A mountKodo session goes on in order while the client waits.
LEMMA OrderlyStep ==
    ASSUME Flags, Types, Startup, Questions, OnlyWhenAsked, Orderly, [Next]_vars
    PROVE  Orderly'
<1> USE DEF Types, Startup, Questions, Orderly, Hungup, socket, conn, cmd, process
<1>u. CASE UNCHANGED vars
  BY <1>u DEF vars
<1>1. CASE Dial
  BY <1>1 DEF Dial, SendInit, SendUmount, Returned
<1>2. CASE ClientReceive
  BY <1>2 DEF ClientReceive, Returned
<1>3. CASE ClientEOF \/ ClientGone
  BY <1>3 DEF ClientEOF, ClientGone, Returned
<1>4. CASE ReaderScan
  <2>1. kind = "kodo" => runner = "off"
    <3>1. PICK x \in {InitLine, UmountLine, DataLine} : toServer = <<x>>
      BY <1>4, ScanSteps
    <3>2. kind = "kodo" => x # UmountLine
      BY <3>1
    <3>3. kind = "kodo" => x # DataLine
      BY <3>1 DEF OnlyWhenAsked, InToServer
    <3> QED
      BY <3>1, <3>2, <3>3
  <2> QED
    BY <1>4, <2>1 DEF ReaderScan
<1>5. CASE ReaderEnd \/ WriterEnd \/ WriterWrite
  BY <1>5 DEF ReaderEnd, WriterEnd, WriterWrite
<1>6. CASE HandlerReceive
  <2>1. CASE HandlerInit /\ request = InitLine
    BY <1>6, <2>1, InitSteps, HandlerSteps
  <2>2. CASE HandlerUmount
    BY <1>6, <2>2, HandlerSteps DEF HandlerUmount
  <2>3. CASE HandlerData /\ request[1] = "data"
    <3>1. request = DataLine
      BY <2>3 DEF InitLine, UmountLine, Init_, Umount, Nothing
    <3>2. kind = "kodofs"
      BY <3>1 DEF OnlyWhenAsked, InRequest
    <3> QED
      BY <1>6, <3>2, HandlerSteps
  <2> QED
    BY <1>6, <2>1, <2>2, <2>3, HandlerSteps
<1>7. CASE HandlerReturn
  BY <1>7 DEF HandlerReturn, Cancelled
<1>8. CASE HandlerClose
  BY <1>8 DEF HandlerClose
<1>9. ASSUME NEW o \in Readers, OutputRead(o) PROVE Orderly'
  BY <1>9 DEF OutputRead
<1>10. ASSUME NEW o \in Readers, OutputEnd(o) \/ OutputSend(o) PROVE Orderly'
  BY <1>10 DEF OutputEnd, OutputSend
<1>11. CASE RunCommand
  BY <1>11 DEF RunCommand
<1>12. CASE RunReturns
  BY <1>12 DEF RunReturns, IsClosed
<1>13. CASE RunTerminate
  BY <1>13 DEF RunTerminate
<1>14. CASE SendOnClosed
  BY <1>14 DEF SendOnClosed
<1>15. CASE CommandPrint \/ CommandRead
  BY <1>15 DEF CommandPrint, CommandRead
<1>16. CASE CommandExit \/ CommandKilled \/ Deadline
  BY <1>16 DEF CommandExit, CommandKilled, Deadline
<1> QED
  BY <1>u, <1>1, <1>2, <1>3, <1>4, <1>5, <1>6, <1>7, <1>8, <1>9, <1>10, <1>11, <1>12, <1>13, <1>14, <1>15, <1>16
     DEF Next, Client, Writer, Handler, Output, Runner, Command

\* A configuration that is removed is not made again.
LEMMA ConfigGoneStep ==
    ASSUME Types, Startup, ConfigGone, [Next]_vars
    PROVE  ConfigGone'
<1> USE DEF Startup, ConfigGone, socket, conn, cmd, process
<1>u. CASE UNCHANGED vars
  BY <1>u DEF vars
<1>1. CASE Dial \/ ClientReceive \/ ClientEOF \/ ClientGone
  BY <1>1 DEF Dial, ClientReceive, ClientEOF, ClientGone
<1>2. CASE ReaderScan \/ ReaderEnd \/ WriterEnd \/ WriterWrite
  BY <1>2 DEF ReaderScan, ReaderEnd, WriterEnd, WriterWrite
<1>3. CASE HandlerReceive
  <2>1. CASE HandlerInit /\ request = InitLine
    BY <2>1, InitSteps
  <2>2. CASE HandlerUmount
    BY <2>2 DEF HandlerUmount
  <2>3. CASE HandlerData
    BY <2>3 DEF HandlerData
  <2> QED
    BY <1>3, <2>1, <2>2, <2>3, HandlerSteps
<1>4. CASE HandlerReturn \/ HandlerClose
  BY <1>4 DEF HandlerReturn, HandlerClose
<1>5. ASSUME NEW o \in Readers, OutputRead(o) \/ OutputEnd(o) \/ OutputSend(o) PROVE ConfigGone'
  BY <1>5 DEF OutputRead, OutputEnd, OutputSend
<1>6. CASE RunCommand \/ RunReturns \/ RunTerminate \/ SendOnClosed
  BY <1>6 DEF RunCommand, RunReturns, RunTerminate, SendOnClosed
<1>7. CASE CommandPrint \/ CommandRead
  BY <1>7 DEF CommandPrint, CommandRead
<1>8. CASE CommandExit \/ CommandKilled \/ Deadline
  BY <1>8 DEF CommandExit, CommandKilled, Deadline
<1> QED
  BY <1>u, <1>1, <1>2, <1>3, <1>4, <1>5, <1>6, <1>7, <1>8
     DEF Next, Client, Writer, Handler, Output, Runner, Command

\* What a step leaves alone holds a question if and only if it did before.
LEMMA SamePlaces ==
    ASSUME UNCHANGED answered
    PROVE  /\ UNCHANGED stdout => (InStdout' <=> InStdout)
           /\ UNCHANGED chunk => (InChunk' <=> InChunk)
           /\ UNCHANGED response => (InResponse' <=> InResponse)
           /\ UNCHANGED toClient => (InToClient' <=> InToClient)
           /\ UNCHANGED toServer => (InToServer' <=> InToServer)
           /\ UNCHANGED request => (InRequest' <=> InRequest)
           /\ UNCHANGED stdin => (InStdin' <=> InStdin)
           /\ DataLine' = DataLine
  BY DEF InStdout, InChunk, InResponse, InToClient, InToServer, InRequest, InStdin, Question, DataLine

\* The lines differ.
LEMMA LinesDiffer ==
    /\ \A n : <<"data", n>> # InitLine /\ <<"data", n>> # UmountLine /\ <<"data", n>> # Nothing
    /\ InitLine # Nothing /\ UmountLine # Nothing /\ InitLine # UmountLine
    /\ \A x, y : <<x>> = <<y>> => x = y
  BY DEF InitLine, UmountLine, Init_, Umount, Nothing

\* The questions and their places.
Token == Questions /\ Exclusive /\ Unique /\ OnlyWhenAsked

\* Steps that touch none of the places.
LEMMA TokenFrame ==
    ASSUME Token, UNCHANGED <<asked, answered, stdout, chunk, response, toClient, toServer, request, stdin>>
    PROVE  Token'
  BY DEF Token, Questions, Exclusive, Unique, OnlyWhenAsked, InStdout, InChunk, InResponse, InToClient,
         InToServer, InRequest, InStdin, Question, DataLine, InitLine, UmountLine

\* A line for the connector is no question.
LEMMA TokenDial ==
    ASSUME Types, Startup, Token, Dial
    PROVE  Token'
<1>1. UNCHANGED <<asked, answered, stdout, chunk, response, toClient, request, stdin>>
  BY DEF Dial, conn, cmd, process
<1>2. toServer' \in {<<InitLine>>, <<UmountLine>>, toServer}
  BY DEF Dial, SendInit, SendUmount, InitLine, UmountLine
<1>3. toServer' = toServer \/ ~ InToServer'
  BY <1>1, <1>2, LinesDiffer, SamePlaces DEF InToServer, DataLine
<1>4. Questions'
  BY <1>1, <1>2, SamePlaces DEF Token, Questions, Question, DataLine, InitLine, UmountLine
<1>5. Unique'
  BY <1>1 DEF Token, Unique, Question
<1>6. Exclusive' /\ OnlyWhenAsked'
  BY <1>1, <1>3, SamePlaces DEF Token, Exclusive, OnlyWhenAsked
<1> QED
  BY <1>4, <1>5, <1>6 DEF Token

\* The client takes a line and may answer it.
LEMMA TokenReceive ==
    ASSUME Types, Startup, Token, ClientReceive
    PROVE  Token'
<1> USE DEF Token
<1>1. UNCHANGED <<asked, answered, stdout, chunk, response, request, stdin>>
  BY DEF ClientReceive, conn, cmd, process
<1>2. /\ toClient # <<>> /\ toClient' = Tail(toClient)
      /\ \/ toServer' = toServer
         \/ Question(toClient[1]) /\ asked /\ toServer' = <<DataLine>>
  BY ReceiveSteps
<1>3. /\ 1 \in 1..Len(toClient)
      /\ \A i \in 1..Len(toClient') : toClient'[i] = toClient[i + 1] /\ i + 1 \in 1..Len(toClient) /\ i + 1 # 1
  BY <1>2, SeqFacts DEF Types
<1>4. ASSUME NEW i \in 1..Len(toClient'), Question(toClient'[i])
      PROVE  /\ InToClient /\ ~ Question(toClient[1]) /\ toClient'[i][2] = answered + 1
  <2>1. i + 1 \in 1..Len(toClient) /\ Question(toClient[i + 1]) /\ i + 1 # 1 /\ toClient'[i] = toClient[i + 1]
    BY <1>3, <1>4
  <2> QED
    BY <1>3, <2>1 DEF InToClient, Unique, Questions
<1>5. InToClient' => InToClient /\ ~ Question(toClient[1])
  <2>1. InToClient' => \E i \in 1..Len(toClient') : Question(toClient'[i])
    BY DEF InToClient, Question
  <2> QED
    BY <1>4, <2>1
<1>6. Questions'
  <2>1. \A i \in 1..Len(toClient') : Question(toClient'[i]) => toClient'[i][2] = answered + 1
    BY <1>4
  <2>2. toServer' \in {<<>>, <<InitLine>>, <<UmountLine>>, <<DataLine>>}
    BY <1>2 DEF Questions
  <2> QED
    BY <1>1, <2>1, <2>2 DEF Questions, Question, DataLine, InitLine, UmountLine
<1>7. Unique'
  <2>1. ASSUME NEW i \in 1..Len(toClient'), NEW j \in 1..Len(toClient'),
               Question(toClient'[i]), Question(toClient'[j])
        PROVE  i = j
    <3>1. /\ i + 1 \in 1..Len(toClient) /\ Question(toClient[i + 1])
          /\ j + 1 \in 1..Len(toClient) /\ Question(toClient[j + 1])
      BY <1>3, <2>1
    <3>2. i + 1 = j + 1
      BY <3>1 DEF Unique
    <3> QED
      BY <3>2
  <2> QED
    BY <1>1, <2>1 DEF Unique, Question
<1>8. Question(toClient[1]) => InToClient
  BY <1>3 DEF InToClient
<1>9. Exclusive' /\ OnlyWhenAsked'
  <2>1. CASE toServer' = toServer
    BY <1>1, <1>5, <2>1, SamePlaces DEF Exclusive, OnlyWhenAsked
  <2>2. CASE Question(toClient[1]) /\ asked
    <3>1. InToClient /\ ~ InToClient'
      BY <1>5, <1>8, <2>2
    <3> QED
      BY <1>1, <3>1, <2>2, SamePlaces DEF Exclusive, OnlyWhenAsked
  <2> QED
    BY <1>2, <2>1, <2>2
<1> QED
  BY <1>6, <1>7, <1>9

\* The reader takes the only line.
LEMMA TokenScan ==
    ASSUME Types, Startup, Token, ReaderScan
    PROVE  Token'
<1> USE DEF Token
<1>1. UNCHANGED <<asked, answered, stdout, chunk, response, toClient, stdin>>
  BY DEF ReaderScan, cmd, process
<1>2. PICK x \in {InitLine, UmountLine, DataLine} : toServer = <<x>> /\ x = Head(toServer)
  BY ScanSteps
<1>3. toServer' = <<>> /\ ~ InToServer'
  BY ScanSteps, Singleton DEF InToServer
<1>4. request = Nothing /\ request' \in {x, Nothing}
  BY <1>2 DEF ReaderScan, Startup
<1>5. InRequest' => InToServer
  BY <1>1, <1>2, <1>4, LinesDiffer, SamePlaces DEF InRequest, InToServer, DataLine
<1>6. Questions'
  BY <1>1, <1>3, <1>4 DEF Questions, Question, DataLine, InitLine, UmountLine
<1>7. Unique'
  BY <1>1 DEF Unique, Question
<1>8. Exclusive' /\ OnlyWhenAsked'
  BY <1>1, <1>3, <1>5, SamePlaces DEF Exclusive, OnlyWhenAsked
<1> QED
  BY <1>6, <1>7, <1>8

\* The writer writes what it took, or loses it.
LEMMA TokenWrite ==
    ASSUME Types, Startup, Token, WriterWrite
    PROVE  Token'
<1> USE DEF Token
<1>1. UNCHANGED <<asked, answered, stdout, chunk, toServer, request, stdin>>
  BY DEF WriterWrite, cmd, process
<1>2. response' = Nothing /\ ~ Question(Nothing)
  BY DEF WriterWrite, Question, Nothing, Readers
<1>3. CASE toClient' = toClient
  <2>1. ~ InResponse'
    BY <1>2 DEF InResponse, Question
  <2>2. Questions'
    BY <1>1, <1>2, <1>3 DEF Questions, Question, DataLine, InitLine, UmountLine
  <2>3. Unique'
    BY <1>1, <1>3 DEF Unique, Question
  <2> QED
    BY <1>1, <1>3, <2>1, <2>2, <2>3, SamePlaces DEF Exclusive, OnlyWhenAsked
<1>4. CASE toClient' = Append(toClient, response)
  <2>0. response \in Responses
    BY DEF WriterWrite, Startup, Types
  <2>1. /\ Len(toClient') = Len(toClient) + 1 /\ toClient'[Len(toClient) + 1] = response
        /\ \A i \in 1..Len(toClient) : toClient'[i] = toClient[i]
    BY <1>4, <2>0, SeqFacts DEF Types
  <2>2. \A i \in 1..Len(toClient') : i \in 1..Len(toClient) \/ i = Len(toClient) + 1
    BY <2>1 DEF Types
  <2>3. ASSUME NEW i \in 1..Len(toClient'), Question(toClient'[i])
        PROVE  \/ i \in 1..Len(toClient) /\ Question(toClient[i]) /\ InToClient /\ toClient'[i] = toClient[i]
               \/ i = Len(toClient) + 1 /\ InResponse /\ toClient'[i] = response
    BY <2>1, <2>2, <2>3 DEF InToClient, InResponse
  <2>4. ~ (InToClient /\ InResponse)
    BY DEF Exclusive
  <2>5. ~ InResponse'
    BY <1>2 DEF InResponse, Question
  <2>6. InToClient' => InToClient \/ InResponse
    <3>1. InToClient' => \E i \in 1..Len(toClient') : Question(toClient'[i])
      BY DEF InToClient, Question
    <3> QED
      BY <2>3, <3>1
  <2>7. Questions'
    <3>1. \A i \in 1..Len(toClient') : Question(toClient'[i]) => toClient'[i][2] = answered + 1
      BY <2>3 DEF Questions, InResponse
    <3> QED
      BY <1>1, <1>2, <3>1 DEF Questions, Question, DataLine, InitLine, UmountLine
  <2>8. Unique'
    <3>1. ASSUME NEW i \in 1..Len(toClient'), NEW j \in 1..Len(toClient'),
                 Question(toClient'[i]), Question(toClient'[j])
          PROVE  i = j
      <4>1. CASE InResponse
        BY <2>3, <2>4, <3>1, <4>1
      <4>2. CASE ~ InResponse
        BY <2>3, <3>1, <4>2 DEF Unique
      <4> QED
        BY <4>1, <4>2
    <3> QED
      BY <1>1, <3>1 DEF Unique, Question
  <2>9. Exclusive' /\ OnlyWhenAsked'
    BY <1>1, <2>5, <2>6, SamePlaces DEF Exclusive, OnlyWhenAsked
  <2> QED
    BY <2>7, <2>8, <2>9
<1> QED
  BY <1>3, <1>4 DEF WriterWrite

\* The handler takes the request; an answer goes into stdin or is lost.
LEMMA TokenHandler ==
    ASSUME Types, Startup, Token, HandlerReceive
    PROVE  Token'
<1> USE DEF Token
<1>1. UNCHANGED <<asked, answered, stdout, response, toClient, toServer>> /\ request' = Nothing
  BY HandlerSteps
<1>2. UNCHANGED chunk
  <2>1. HandlerInit => UNCHANGED chunk
    BY InitSteps
  <2> QED
    BY <2>1, HandlerSteps DEF HandlerUmount, HandlerData
<1>3. ~ InRequest'
  BY <1>1, LinesDiffer, SamePlaces DEF InRequest, DataLine
<1>4. Unique'
  BY <1>1, <1>2 DEF Unique, Question
<1>5. CASE UNCHANGED stdin
  <2>1. Questions'
    BY <1>1, <1>2, <1>5 DEF Questions, Question, DataLine, InitLine, UmountLine
  <2> QED
    BY <1>1, <1>2, <1>3, <1>4, <1>5, <2>1, SamePlaces DEF Exclusive, OnlyWhenAsked
<1>6. CASE request[1] = "data" /\ HandlerData /\ stdin' = Append(stdin, request[2])
  <2>1. request = DataLine
    BY <1>6 DEF Questions, InitLine, UmountLine, Init_, Umount, Nothing
  <2>2. InRequest /\ request[2] = answered + 1
    BY <2>1 DEF InRequest, DataLine
  <2>3. stdin = <<>>
    BY <2>2 DEF Exclusive, InStdin
  <2>4. stdin' = <<answered + 1>>
    BY <1>6, <2>2, <2>3, Singleton
  <2>5. Questions'
    BY <1>1, <1>2, <2>4 DEF Questions, Question, DataLine, InitLine, UmountLine
  <2> QED
    BY <1>1, <1>2, <1>3, <1>4, <2>2, <2>5, SamePlaces DEF Exclusive, OnlyWhenAsked
<1>7. \/ UNCHANGED stdin
      \/ request[1] = "data" /\ HandlerData /\ stdin' = Append(stdin, request[2])
  <2>1. HandlerInit => UNCHANGED stdin
    BY InitSteps
  <2> QED
    BY <2>1, HandlerSteps DEF HandlerUmount, HandlerData
<1> QED
  BY <1>5, <1>6, <1>7

\* An outputReader takes what the command printed first.
LEMMA TokenRead ==
    ASSUME Types, Startup, Token, NEW o \in Readers, OutputRead(o)
    PROVE  Token'
<1> USE DEF Token
<1>1. UNCHANGED <<asked, answered, response, toClient, toServer, request, stdin>>
  BY DEF OutputRead, conn, socket
<1>2. /\ chunk[o] = 0 /\ stdout # <<>> /\ stdout' = Tail(stdout)
      /\ chunk' = [chunk EXCEPT ![o] = Head(stdout)]
  BY DEF OutputRead, Startup
<1>3. /\ 1 \in 1..Len(stdout) /\ Head(stdout) = stdout[1]
      /\ \A i \in 1..Len(stdout') : stdout'[i] = stdout[i + 1] /\ i + 1 \in 1..Len(stdout) /\ i + 1 # 1
  BY <1>2, SeqFacts DEF Types
<1>4. chunk'[o] = stdout[1] /\ \A q \in Readers : q # o => chunk'[q] = chunk[q]
  BY <1>2, <1>3 DEF Types
<1>5. ASSUME NEW i \in 1..Len(stdout'), stdout'[i] # 0
      PROVE  InStdout /\ stdout[1] = 0 /\ stdout'[i] = answered + 1
  <2>1. i + 1 \in 1..Len(stdout) /\ stdout[i + 1] # 0 /\ i + 1 # 1 /\ stdout'[i] = stdout[i + 1]
    BY <1>3, <1>5
  <2> QED
    BY <1>3, <2>1 DEF InStdout, Unique, Questions
<1>6. InStdout' => InStdout /\ stdout[1] = 0
  BY <1>5 DEF InStdout
<1>7. stdout[1] # 0 => InStdout
  BY <1>3 DEF InStdout
<1>8. InChunk' => InChunk \/ stdout[1] # 0
  BY <1>4 DEF InChunk
<1>9. Questions'
  <2>1. \A i \in 1..Len(stdout') : stdout'[i] \in {0, answered + 1}
    BY <1>5
  <2>2. \A q \in Readers : chunk'[q] \in {0, answered + 1}
    BY <1>3, <1>4 DEF Questions
  <2> QED
    BY <1>1, <2>1, <2>2 DEF Questions, Question, DataLine, InitLine, UmountLine
<1>10. Unique'
  <2>1. ASSUME NEW i \in 1..Len(stdout'), NEW j \in 1..Len(stdout'), stdout'[i] # 0, stdout'[j] # 0
        PROVE  i = j
    <3>1. /\ i + 1 \in 1..Len(stdout) /\ stdout[i + 1] # 0
          /\ j + 1 \in 1..Len(stdout) /\ stdout[j + 1] # 0
      BY <1>3, <2>1
    <3>2. i + 1 = j + 1
      BY <3>1 DEF Unique
    <3> QED
      BY <3>2
  <2>2. \A q, r \in Readers : chunk'[q] # 0 /\ chunk'[r] # 0 => q = r
    <3>1. CASE stdout[1] = 0
      BY <1>2, <1>4, <3>1 DEF Unique
    <3>2. CASE stdout[1] # 0
      <4>1. ~ InChunk
        BY <1>7, <3>2 DEF Exclusive
      <4> QED
        BY <1>4, <4>1 DEF InChunk
    <3> QED
      BY <3>1, <3>2
  <2> QED
    BY <1>1, <2>1, <2>2 DEF Unique, Question
<1>11. Exclusive' /\ OnlyWhenAsked'
  <2>1. CASE stdout[1] = 0
    <3>1. InChunk' => InChunk
      BY <1>8, <2>1
    <3> QED
      BY <1>1, <1>6, <3>1, SamePlaces DEF Exclusive, OnlyWhenAsked
  <2>2. CASE stdout[1] # 0
    BY <1>1, <1>6, <1>7, <2>2, SamePlaces DEF Exclusive, OnlyWhenAsked
  <2> QED
    BY <2>1, <2>2
<1> QED
  BY <1>9, <1>10, <1>11

\* The writer takes what an outputReader holds.
LEMMA TokenSend ==
    ASSUME Types, Startup, Token, NEW o \in Readers, OutputSend(o)
    PROVE  Token'
<1> USE DEF Token
<1>1. UNCHANGED <<asked, answered, stdout, toClient, toServer, request, stdin>>
  BY DEF OutputSend, process, socket
<1>2. response = Nothing /\ response' = <<o, chunk[o]>> /\ chunk' = [chunk EXCEPT ![o] = 0]
  BY DEF OutputSend, Startup
<1>3. chunk'[o] = 0 /\ \A q \in Readers : q # o => chunk'[q] = chunk[q]
  BY <1>2 DEF Types
<1>4. InResponse' <=> chunk[o] # 0
  BY <1>2 DEF InResponse, Question
<1>5. InChunk' => InChunk /\ chunk[o] = 0
  BY <1>3 DEF InChunk, Unique
<1>6. chunk[o] # 0 => InChunk
  BY DEF InChunk
<1>7. ~ InResponse
  BY <1>2 DEF InResponse, Question, Nothing, Readers
<1>8. Questions'
  <2>1. \A q \in Readers : chunk'[q] \in {0, answered + 1}
    BY <1>3 DEF Questions
  <2>2. response'[2] # 0 => response'[2] = answered + 1
    BY <1>2 DEF Questions
  <2> QED
    BY <1>1, <2>1, <2>2 DEF Questions, Question, DataLine, InitLine, UmountLine
<1>9. Unique'
  BY <1>1, <1>3 DEF Unique, Question
<1>10. Exclusive' /\ OnlyWhenAsked'
  <2>1. CASE chunk[o] = 0
    <3>1. ~ InResponse' /\ (InChunk' => InChunk)
      BY <1>4, <1>5, <2>1
    <3> QED
      BY <1>1, <3>1, SamePlaces DEF Exclusive, OnlyWhenAsked
  <2>2. CASE chunk[o] # 0
    <3>1. InChunk /\ ~ InChunk'
      BY <1>5, <1>6, <2>2
    <3> QED
      BY <1>1, <3>1, SamePlaces DEF Exclusive, OnlyWhenAsked
  <2> QED
    BY <2>1, <2>2
<1> QED
  BY <1>8, <1>9, <1>10

\* Terminate is no question.
LEMMA TokenTerminate ==
    ASSUME Types, Startup, Token, RunTerminate
    PROVE  Token'
<1> USE DEF Token
<1>1. UNCHANGED <<asked, answered, stdout, chunk, toClient, toServer, request, stdin>>
  BY DEF RunTerminate, process, socket
<1>2. response'[1] = "terminate"
  BY DEF RunTerminate
<1>3. ~ InResponse'
  BY <1>2 DEF InResponse, Question, Readers
<1>4. Questions'
  BY <1>1, <1>2 DEF Questions, Question, DataLine, InitLine, UmountLine, Readers
<1>5. Unique'
  BY <1>1 DEF Unique, Question
<1> QED
  BY <1>1, <1>3, <1>4, <1>5, SamePlaces DEF Exclusive, OnlyWhenAsked

\* The command prints a line, or asks when nothing it asked is under way.
LEMMA TokenPrint ==
    ASSUME Flags, Types, Startup, Token, CommandPrint
    PROVE  Token'
<1> USE DEF Token
<1>1. UNCHANGED <<answered, chunk, response, toClient, toServer, request, stdin>>
  BY DEF CommandPrint, cmd, conn, socket
<1>2. PICK n \in {0, answered + 1} :
         /\ stdout' = Append(stdout, n)
         /\ n # 0 => ~ asked /\ asked'
         /\ n = 0 => (asked' <=> asked)
         /\ n \in Chunks
  <2>1. CASE /\ ~ asked /\ answered < Prompts
             /\ stdout' = Append(stdout, answered + 1) /\ asked' = TRUE
    BY <2>1, SessionAssumption DEF Types, Chunks
  <2>2. CASE stdout' = Append(stdout, 0) /\ UNCHANGED asked
    BY <2>2, SessionAssumption DEF Types, Chunks
  <2> QED
    BY <2>1, <2>2 DEF CommandPrint
<1>3. /\ Len(stdout') = Len(stdout) + 1 /\ stdout'[Len(stdout) + 1] = n
      /\ \A i \in 1..Len(stdout) : stdout'[i] = stdout[i]
      /\ \A i \in 1..Len(stdout') : i \in 1..Len(stdout) \/ i = Len(stdout) + 1
  <2>1. Len(stdout') = Len(stdout) + 1 /\ stdout'[Len(stdout) + 1] = n
        /\ \A i \in 1..Len(stdout) : stdout'[i] = stdout[i]
    BY <1>2, SeqFacts DEF Types
  <2> QED
    BY <2>1 DEF Types
<1>4. ~ asked => ~ (InStdout \/ InChunk \/ InResponse \/ InToClient \/ InToServer \/ InRequest \/ InStdin)
  BY DEF OnlyWhenAsked
<1>5. InStdout' => InStdout \/ n # 0
  BY <1>3 DEF InStdout
<1>6. Questions'
  <2>1. \A i \in 1..Len(stdout') : stdout'[i] \in {0, answered + 1}
    BY <1>3 DEF Questions
  <2> QED
    BY <1>1, <2>1 DEF Questions, Question, DataLine, InitLine, UmountLine
<1>7. Unique'
  <2>1. ASSUME NEW i \in 1..Len(stdout'), NEW j \in 1..Len(stdout'), stdout'[i] # 0, stdout'[j] # 0
        PROVE  i = j
    <3>1. CASE n = 0
      BY <1>3, <2>1, <3>1 DEF Unique
    <3>2. CASE n # 0
      <4>1. \A k \in 1..Len(stdout) : stdout[k] = 0
        BY <1>2, <1>4, <3>2 DEF InStdout
      <4> QED
        BY <1>3, <2>1, <4>1
    <3> QED
      BY <3>1, <3>2
  <2> QED
    BY <1>1, <2>1 DEF Unique, Question
<1>8. Exclusive' /\ OnlyWhenAsked'
  <2>1. CASE n = 0
    <3>1. (InStdout' => InStdout) /\ (asked => asked')
      BY <1>2, <1>5, <2>1
    <3> QED
      BY <1>1, <3>1, SamePlaces DEF Exclusive, OnlyWhenAsked
  <2>2. CASE n # 0
    <3>1. ~ asked /\ asked'
      BY <1>2, <2>2
    <3> QED
      BY <1>1, <1>4, <3>1, SamePlaces DEF Exclusive, OnlyWhenAsked
  <2> QED
    BY <2>1, <2>2
<1> QED
  BY <1>6, <1>7, <1>8

\* The command takes its answer; then nothing it asked is under way.
LEMMA TokenAnswer ==
    ASSUME Types, Startup, Token, CommandRead
    PROVE  Token'
<1> USE DEF Token
<1>1. UNCHANGED <<stdout, chunk, response, toClient, toServer, request>>
  BY DEF CommandRead, cmd, conn, socket
<1>2. InStdin /\ stdin' = Tail(stdin)
  BY DEF CommandRead, InStdin
<1>3. stdin' = <<>>
  BY <1>2, Singleton DEF Questions, InStdin
<1>4. ~ (InStdout \/ InChunk \/ InResponse \/ InToClient \/ InToServer \/ InRequest)
  BY <1>2 DEF Exclusive
<1>5. toServer \in {<<>>, <<InitLine>>, <<UmountLine>>} /\ request \in {Nothing, InitLine, UmountLine}
  BY <1>4 DEF Questions, InToServer, InRequest
<1>6. ~ InToServer' /\ ~ InRequest'
  BY <1>1, <1>5, LinesDiffer, Singleton DEF InToServer, InRequest, DataLine
<1>7. ~ InStdout' /\ ~ InChunk' /\ ~ InResponse' /\ ~ InToClient' /\ ~ InStdin'
  BY <1>1, <1>3, <1>4 DEF InStdout, InChunk, InResponse, InToClient, InStdin, Question
<1>8. Questions'
  BY <1>1, <1>3, <1>4, <1>5 DEF Questions, Question, InitLine, UmountLine, InStdout, InChunk, InResponse,
     InToClient
<1>9. Unique'
  BY <1>1 DEF Unique, Question
<1> QED
  BY <1>6, <1>7, <1>8, <1>9 DEF Exclusive, OnlyWhenAsked

\* At most one question is under way, in one place.
LEMMA TokenStep ==
    ASSUME Flags, Types, Startup, Token, [Next]_vars
    PROVE  Token'
<1> USE DEF socket, conn, cmd, process
<1>u. CASE UNCHANGED vars
  BY <1>u, TokenFrame DEF vars
<1>1. CASE Dial
  BY <1>1, TokenDial
<1>2. CASE ClientReceive
  BY <1>2, TokenReceive
<1>3. CASE ClientEOF \/ ClientGone
  BY <1>3, TokenFrame DEF ClientEOF, ClientGone
<1>4. CASE ReaderScan
  BY <1>4, TokenScan
<1>5. CASE ReaderEnd \/ WriterEnd
  BY <1>5, TokenFrame DEF ReaderEnd, WriterEnd
<1>6. CASE WriterWrite
  BY <1>6, TokenWrite
<1>7. CASE HandlerReceive
  BY <1>7, TokenHandler
<1>8. CASE HandlerReturn \/ HandlerClose
  BY <1>8, TokenFrame DEF HandlerReturn, HandlerClose
<1>9. ASSUME NEW o \in Readers, OutputRead(o) PROVE Token'
  BY <1>9, TokenRead
<1>10. ASSUME NEW o \in Readers, OutputEnd(o) PROVE Token'
  BY <1>10, TokenFrame DEF OutputEnd
<1>11. ASSUME NEW o \in Readers, OutputSend(o) PROVE Token'
  BY <1>11, TokenSend
<1>12. CASE RunCommand \/ RunReturns \/ SendOnClosed
  BY <1>12, TokenFrame DEF RunCommand, RunReturns, SendOnClosed
<1>13. CASE RunTerminate
  BY <1>13, TokenTerminate
<1>14. CASE CommandPrint
  BY <1>14, TokenPrint
<1>15. CASE CommandRead
  BY <1>15, TokenAnswer
<1>16. CASE CommandExit \/ CommandKilled \/ Deadline
  BY <1>16, TokenFrame DEF CommandExit, CommandKilled, Deadline
<1> QED
  BY <1>u, <1>1, <1>2, <1>3, <1>4, <1>5, <1>6, <1>7, <1>8, <1>9, <1>10, <1>11, <1>12, <1>13, <1>14, <1>15, <1>16
     DEF Next, Client, Writer, Handler, Output, Runner, Command

\* What is counted is a number.
LEMMA Counts ==
    ASSUME Types
    PROVE  /\ Len(stdout) \in Nat /\ Len(toClient) \in Nat
           /\ Sending("stdout") \in {0, 1} /\ Sending("stderr") \in {0, 1}
           /\ Writing \in {0, 1} /\ Asking \in {0, 1} /\ Ending \in {0, 1}
           /\ answered \in Nat /\ printed \in Nat
<1>1. Len(stdout) \in Nat /\ Len(toClient) \in Nat
  BY DEF Types
<1>2. Asking \in {0, 1}
  BY DEF Asking
<1> QED
  BY <1>1, <1>2, SessionAssumption DEF Types, Sending, Writing, Ending

\* Steps that leave alone all that is counted.
LEMMA FlowFrame ==
    ASSUME Flow, UNCHANGED <<stdout, output, writer, toClient, printed, answered, asked>>,
           UNCHANGED runner \/ runner # "done"
    PROVE  Ending' >= Ending /\ Backlog' = Backlog /\ UnderWay' = UnderWay /\ Asking' = Asking
  BY DEF Ending, UnderWay, Backlog, Asking, Sending, Writing

\* The two outputReaders.
LEMMA ReaderNames == Readers = {"stdout", "stderr"}
  BY DEF Readers

\* No more output is under way than was printed.
LEMMA FlowStep ==
    ASSUME Flags, Types, Startup, Flow, [Next]_vars
    PROVE  Flow'
<1> USE DEF socket, conn, cmd, process
<1>t. Types'
  BY TypesStep
<1>n. /\ Len(stdout) \in Nat /\ Len(toClient) \in Nat /\ answered \in Nat /\ printed \in Nat
      /\ Sending("stdout") \in {0, 1} /\ Sending("stderr") \in {0, 1}
      /\ Writing \in {0, 1} /\ Asking \in {0, 1} /\ Ending \in {0, 1}
      /\ Len(stdout') \in Nat /\ Len(toClient') \in Nat /\ answered' \in Nat /\ printed' \in Nat
      /\ Sending("stdout")' \in {0, 1} /\ Sending("stderr")' \in {0, 1}
      /\ Writing' \in {0, 1} /\ Asking' \in {0, 1} /\ Ending' \in {0, 1}
  <2>1. Len(stdout') \in Nat /\ Len(toClient') \in Nat
    BY <1>t DEF Types
  <2>2. Asking' \in {0, 1}
    BY DEF Asking
  <2>3. /\ answered' \in Nat /\ printed' \in Nat
        /\ Sending("stdout")' \in {0, 1} /\ Sending("stderr")' \in {0, 1}
        /\ Writing' \in {0, 1} /\ Ending' \in {0, 1}
    BY <1>t, SessionAssumption DEF Types, Sending, Writing, Ending
  <2> QED
    BY <2>1, <2>2, <2>3, Counts
<1>f. ASSUME UNCHANGED <<stdout, output, writer, toClient, printed, answered, asked>>,
             UNCHANGED runner \/ runner # "done"
      PROVE  Flow'
  <2>1. Ending' >= Ending /\ Backlog' = Backlog /\ UnderWay' = UnderWay /\ Asking' = Asking
    BY <1>f, FlowFrame
  <2> QED
    BY SMTT(60), <1>f, <1>n, <2>1 DEF Flow, UnderWay, Backlog
<1>u. CASE UNCHANGED vars
  BY <1>u, <1>f DEF vars
<1>1. CASE Dial \/ ClientEOF \/ ClientGone
  BY <1>1, <1>f DEF Dial, ClientEOF, ClientGone
<1>2. CASE ClientReceive
  <2>1. toClient # <<>> /\ toClient' = Tail(toClient)
        /\ UNCHANGED <<stdout, output, writer, printed, answered, asked, runner>>
    BY <1>2 DEF ClientReceive
  <2>2. Len(toClient') = Len(toClient) - 1
    BY <2>1, SeqFacts DEF Types
  <2>3. UNCHANGED <<Sending("stdout"), Sending("stderr"), Writing, Asking, Ending>>
    BY <2>1 DEF Sending, Writing, Asking, Ending
  <2> QED
    BY <1>n, <2>1, <2>2, <2>3 DEF Flow, UnderWay, Backlog
<1>3. CASE ReaderScan \/ ReaderEnd
  BY <1>3, <1>f DEF ReaderScan, ReaderEnd
<1>4. CASE WriterEnd
  <2>1. writer = "select" /\ writer' = "done"
        /\ UNCHANGED <<stdout, output, toClient, printed, answered, asked, runner>>
    BY <1>4 DEF WriterEnd
  <2>2. UNCHANGED <<Sending("stdout"), Sending("stderr"), Writing, Asking, Ending>>
    BY <2>1 DEF Sending, Writing, Asking, Ending
  <2> QED
    BY <1>n, <2>1, <2>2 DEF Flow, UnderWay, Backlog
<1>5. CASE WriterWrite
  <2>1. writer = "write" /\ writer' = "select" /\ response # Nothing
        /\ UNCHANGED <<stdout, output, printed, answered, asked, runner>>
    BY <1>5 DEF WriterWrite, Startup
  <2>2. Len(toClient') <= Len(toClient) + 1
    <3>1. response \in Responses
      BY <2>1 DEF Types
    <3>2. Len(Append(toClient, response)) = Len(toClient) + 1
      BY <3>1, SeqFacts DEF Types
    <3> QED
      BY <1>5, <1>n, <3>2 DEF WriterWrite
  <2>3. UNCHANGED <<Sending("stdout"), Sending("stderr"), Asking, Ending>> /\ Writing = 1 /\ Writing' = 0
    BY <2>1 DEF Sending, Writing, Asking, Ending
  <2> QED
    BY <1>n, <2>1, <2>2, <2>3 DEF Flow, UnderWay, Backlog
<1>6. CASE HandlerReceive
  <2>1. UNCHANGED <<toClient, writer, asked, answered, printed, stdout>>
    BY <1>6, HandlerSteps
  <2>2. \/ runner = "off" /\ runner' = "start" /\ output' = [q \in Readers |-> "read"]
        \/ UNCHANGED <<output, runner>>
    <3>1. HandlerInit => \/ runner = "off" /\ runner' = "start" /\ output' = [q \in Readers |-> "read"]
                         \/ UNCHANGED <<output, runner>>
      BY InitSteps
    <3>2. HandlerUmount \/ HandlerData => UNCHANGED <<output, runner>>
      BY DEF HandlerUmount, HandlerData
    <3> QED
      BY <1>6, <3>1, <3>2, HandlerSteps
  <2>3. CASE UNCHANGED <<output, runner>>
    BY <1>f, <2>1, <2>3
  <2>4. CASE runner = "off" /\ runner' = "start" /\ output' = [q \in Readers |-> "read"]
    <3>1. Sending("stdout")' = 0 /\ Sending("stderr")' = 0 /\ UNCHANGED <<Writing, Asking, Ending>>
      BY <2>1, <2>4, ReaderNames DEF Sending, Writing, Asking, Ending
    <3>2. Len(stdout') = Len(stdout) /\ Len(toClient') = Len(toClient)
          /\ printed' = printed /\ answered' = answered
          /\ Writing' = Writing /\ Asking' = Asking /\ Ending' = Ending
      BY <2>1, <3>1
    <3>3. Backlog' <= Backlog /\ UnderWay' <= UnderWay /\ Backlog' \in Nat /\ UnderWay' \in Nat
          /\ Backlog \in Nat /\ UnderWay \in Nat
      BY SMTT(30), <1>n, <3>1, <3>2 DEF UnderWay, Backlog
    <3> QED
      BY <1>n, <3>2, <3>3 DEF Flow
  <2> QED
    BY <2>2, <2>3, <2>4
<1>7. CASE HandlerReturn \/ HandlerClose
  BY <1>7, <1>f DEF HandlerReturn, HandlerClose
<1>8. ASSUME NEW o \in Readers, OutputRead(o) PROVE Flow'
  <2>1. stdout # <<>> /\ stdout' = Tail(stdout) /\ output[o] = "read"
        /\ output' = [output EXCEPT ![o] = "send"]
        /\ UNCHANGED <<toClient, writer, printed, answered, asked, runner>>
    BY <1>8 DEF OutputRead
  <2>2. Len(stdout') = Len(stdout) - 1
    BY <2>1, SeqFacts DEF Types
  <2>3. Sending("stdout")' + Sending("stderr")' = Sending("stdout") + Sending("stderr") + 1
    BY <1>8, <2>1, ReaderNames DEF Sending, Types
  <2>4. UNCHANGED <<Writing, Asking, Ending>>
    BY <2>1 DEF Writing, Asking, Ending
  <2> QED
    BY SMTT(30), <1>n, <2>1, <2>2, <2>3, <2>4 DEF Flow, UnderWay, Backlog
<1>9. ASSUME NEW o \in Readers, OutputEnd(o) PROVE Flow'
  <2>1. output[o] = "read" /\ output' = [output EXCEPT ![o] = "done"]
        /\ UNCHANGED <<stdout, toClient, writer, printed, answered, asked, runner>>
    BY <1>9 DEF OutputEnd
  <2>2. Sending("stdout")' = Sending("stdout") /\ Sending("stderr")' = Sending("stderr")
    BY <1>9, <2>1, ReaderNames DEF Sending, Types
  <2>3. UNCHANGED <<Writing, Asking, Ending>>
    BY <2>1 DEF Writing, Asking, Ending
  <2> QED
    BY <1>n, <2>1, <2>2, <2>3 DEF Flow, UnderWay, Backlog
<1>10. ASSUME NEW o \in Readers, OutputSend(o) PROVE Flow'
  <2>1. output[o] = "send" /\ output' = [output EXCEPT ![o] = "read"]
        /\ writer = "select" /\ writer' = "write"
        /\ UNCHANGED <<stdout, toClient, printed, answered, asked, runner>>
    BY <1>10 DEF OutputSend
  <2>2. Sending("stdout")' + Sending("stderr")' + 1 = Sending("stdout") + Sending("stderr")
    BY <1>10, <2>1, ReaderNames DEF Sending, Types
  <2>3. UNCHANGED <<Asking, Ending>> /\ Writing = 0 /\ Writing' = 1
    BY <2>1 DEF Writing, Asking, Ending
  <2> QED
    BY <1>n, <2>1, <2>2, <2>3 DEF Flow, UnderWay, Backlog
<1>11. CASE RunCommand \/ SendOnClosed
  BY <1>11, <1>f DEF RunCommand, SendOnClosed
<1>12. CASE RunReturns
  BY <1>12, <1>f DEF RunReturns
<1>13. CASE RunTerminate
  <2>1. writer = "select" /\ writer' = "write" /\ runner = "send" /\ runner' = "done"
        /\ UNCHANGED <<stdout, toClient, output, printed, answered, asked>>
    BY <1>13 DEF RunTerminate
  <2>2. UNCHANGED <<Sending("stdout"), Sending("stderr"), Asking>>
        /\ Writing = 0 /\ Writing' = 1 /\ Ending = 0 /\ Ending' = 1
    BY <2>1 DEF Sending, Writing, Asking, Ending
  <2> QED
    BY <1>n, <2>1, <2>2 DEF Flow, UnderWay, Backlog
<1>14. CASE CommandPrint
  <2>0. UNCHANGED <<toClient, writer, output, answered, runner>>
    BY <1>14 DEF CommandPrint
  <2>1. UNCHANGED <<Sending("stdout"), Sending("stderr"), Writing, Ending>>
    BY <2>0 DEF Sending, Writing, Ending
  <2>2. CASE ~ asked /\ answered < Prompts /\ stdout' = Append(stdout, answered + 1) /\ asked' = TRUE
             /\ UNCHANGED printed
    <3>1. answered + 1 \in Chunks
      BY <1>n, <2>2, SessionAssumption DEF Chunks
    <3>2. Len(stdout') = Len(stdout) + 1
      BY <2>2, <3>1, SeqFacts DEF Types
    <3>3. Asking = 0 /\ Asking' = 1
      BY <2>2 DEF Asking
    <3>4. printed' = printed /\ answered' = answered /\ Len(toClient') = Len(toClient)
          /\ Sending("stdout")' = Sending("stdout") /\ Sending("stderr")' = Sending("stderr")
          /\ Writing' = Writing /\ Ending' = Ending
      BY <2>0, <2>1, <2>2
    <3>5. UnderWay' = UnderWay + 1 /\ Backlog' = Backlog + 1 /\ UnderWay \in Nat /\ Backlog \in Nat
      BY SMTT(60), <1>n, <3>2, <3>3, <3>4 DEF UnderWay, Backlog
    <3> QED
      BY <1>n, <3>2, <3>3, <3>4, <3>5 DEF Flow
  <2>3. CASE stdout' = Append(stdout, 0) /\ printed' = printed + 1 /\ UNCHANGED asked
    <3>1. 0 \in Chunks
      BY SessionAssumption DEF Chunks
    <3>2. Len(stdout') = Len(stdout) + 1
      BY <2>3, <3>1, SeqFacts DEF Types
    <3>3. Asking' = Asking
      BY <2>3 DEF Asking
    <3> QED
      BY SMTT(30), <1>n, <2>0, <2>1, <2>3, <3>2, <3>3 DEF Flow, UnderWay, Backlog
  <2> QED
    BY <1>14, <2>2, <2>3 DEF CommandPrint
<1>15. CASE CommandRead
  <2>1. asked /\ asked' = FALSE /\ answered' = answered + 1
        /\ UNCHANGED <<toClient, writer, output, printed, stdout, runner>>
    BY <1>15 DEF CommandRead
  <2>2. UNCHANGED <<Sending("stdout"), Sending("stderr"), Writing, Ending>> /\ Asking = 1 /\ Asking' = 0
    BY <2>1 DEF Sending, Writing, Asking, Ending
  <2> QED
    BY <1>n, <2>1, <2>2 DEF Flow, UnderWay, Backlog
<1>16. CASE CommandExit \/ CommandKilled \/ Deadline
  BY <1>16, <1>f DEF CommandExit, CommandKilled, Deadline
<1> QED
  BY <1>u, <1>1, <1>2, <1>3, <1>4, <1>5, <1>6, <1>7, <1>8, <1>9, <1>10, <1>11, <1>12, <1>13, <1>14,
     <1>15, <1>16
     DEF Next, Client, Writer, Handler, Output, Runner, Command

-----------------------------------------------------------------------------
(***************************************************************************)
(* The theorems                                                            *)
(***************************************************************************)

\* A new session satisfies the invariant.
LEMMA InitSession == Init => SessionInv
<1> SUFFICES ASSUME Init PROVE SessionInv
  OBVIOUS
<1> USE SessionAssumption DEF Init
<1>1. Flags
  BY Zenon DEF Flags
<1>2. Types
  BY DEF Types, Nothing, Chunks
<1>3. ~ (InStdout \/ InChunk \/ InResponse \/ InToClient \/ InToServer \/ InRequest \/ InStdin)
  BY LinesDiffer, Singleton DEF InStdout, InChunk, InResponse, InToClient, InToServer, InRequest, InStdin,
     Question, DataLine, Nothing, Readers
<1>4. Startup
  BY LinesDiffer, Singleton DEF Startup, Readers
<1>5. Questions
  BY <1>3 DEF Questions, Question, InResponse
<1>6. Exclusive /\ OnlyWhenAsked
  BY <1>3 DEF Exclusive, OnlyWhenAsked
<1>7. Unique
  BY DEF Unique
<1>8. Flow
  BY <1>2 DEF Types, Flow, UnderWay, Backlog, Sending, Writing, Asking, Ending, Readers
<1>9. Results
  BY DEF Results, Nothing
<1>10. Orderly /\ ConfigGone
  BY DEF Orderly, ConfigGone
<1> QED
  BY <1>1, <1>2, <1>4, <1>5, <1>6, <1>7, <1>8, <1>9, <1>10 DEF SessionInv

\* Every step keeps it.
LEMMA NextSession == SessionInv /\ [Next]_vars => SessionInv'
<1> SUFFICES ASSUME SessionInv, [Next]_vars PROVE SessionInv'
  OBVIOUS
<1> USE DEF SessionInv
<1>1. Token
  BY DEF Token
<1>2. Token'
  BY <1>1, TokenStep
<1>3. Questions' /\ Exclusive' /\ Unique' /\ OnlyWhenAsked'
  BY <1>2 DEF Token
<1>4. Flags' /\ Types' /\ Startup'
  BY FlagsStep, TypesStep, StartupStep
<1>5. Flow' /\ Results'
  BY FlowStep, ResultsStep
<1>6. Orderly' /\ ConfigGone'
  BY OrderlyStep, ConfigGoneStep
<1> QED
  BY <1>3, <1>4, <1>5, <1>6

\* The inductive invariant of a session.
THEOREM SessionInvariant == Spec => []SessionInv
  BY InitSession, NextSession, PTL DEF Spec

\* ConnectorSession is type correct; in particular the sockets and the pipes
\* never hold more than the client and the command can have sent.
THEOREM TypeCorrect == Spec => []TypeOK
<1>1. SessionInv => TypeOK
  <2> SUFFICES ASSUME SessionInv PROVE TypeOK
    OBVIOUS
  <2>0. Flags /\ Types /\ Startup /\ Questions /\ Flow
    BY DEF SessionInv
  <2>1. Len(toServer) <= 1 + Prompts
    <3>1. toServer \in {<<>>, <<InitLine>>, <<UmountLine>>, <<DataLine>>}
      BY <2>0 DEF Questions
    <3>2. PICK n \in {0, 1} : Len(toServer) = n
      BY <3>1
    <3>3. n <= 1 + Prompts
      BY SessionAssumption
    <3> QED
      BY <3>2, <3>3
  <2>2. Len(stdin) <= 1
    <3>1. stdin \in {<<>>, <<answered + 1>>}
      BY <2>0 DEF Questions
    <3>2. Len(stdin) = 0 \/ Len(stdin) = 1
      BY <3>1
    <3> QED
      BY <3>2
  <2>3. answered + Asking <= Prompts /\ printed <= Lines
    BY <2>0, SessionAssumption DEF Types, Startup, Asking
  <2>4. Len(toClient) <= Prompts + Lines + 1 /\ Len(stdout) <= Prompts + Lines
    <3>1. Prompts \in Nat /\ Lines \in Nat
      BY SessionAssumption
    <3>2. /\ Len(stdout) \in Nat /\ Len(toClient) \in Nat
          /\ Sending("stdout") \in {0, 1} /\ Sending("stderr") \in {0, 1}
          /\ Writing \in {0, 1} /\ Asking \in {0, 1} /\ Ending \in {0, 1}
          /\ answered \in Nat /\ printed \in Nat
      BY <2>0, Counts
    <3>3. /\ Len(stdout) <= Backlog /\ Len(toClient) <= UnderWay
          /\ Backlog \in Nat /\ UnderWay \in Nat
      BY <3>2 DEF UnderWay, Backlog
    <3>4. /\ Backlog <= printed + answered + Asking
          /\ UnderWay <= printed + answered + Asking + Ending
      BY <2>0 DEF Flow
    <3> QED
      BY <2>3, <3>1, <3>2, <3>3, <3>4
  <2>5. {mounted, config, cleaned, panic} \subseteq BOOLEAN
    BY <2>0, Zenon DEF Flags
  <2>6. expired \in BOOLEAN /\ asked \in BOOLEAN
    BY <2>0 DEF Flags
  <2> QED
    BY <2>0, <2>1, <2>2, <2>4, <2>5, <2>6 DEF TypeOK, Types
<1> QED
  BY <1>1, SessionInvariant, PTL

\* A mount that the connector reports as successful has succeeded.
THEOREM ReportsAreReal == Spec => []ReportedMountIsReal
<1>1. SessionInv => ReportedMountIsReal
  BY DEF SessionInv, Results, ReportedMountIsReal
<1> QED
  BY <1>1, SessionInvariant, PTL

\* An answer in the pipe is the answer to the question the command waits for.
THEOREM AnswersMatch == Spec => []AnswersMatchQuestions
<1>1. SessionInv => AnswersMatchQuestions
  BY DEF SessionInv, Questions, OnlyWhenAsked, InStdin, AnswersMatchQuestions
<1> QED
  BY <1>1, SessionInvariant, PTL

\* In a mountKodo session nobody gave up, only output of the command that is
\* still held by an outputReader makes the daemon panic.
THEOREM PanicsAreFromOutput == Spec => []PanicOnlyFromOutput
<1>1. SessionInv => PanicOnlyFromOutput
  BY DEF SessionInv, Orderly, PanicOnlyFromOutput
<1> QED
  BY <1>1, SessionInvariant, PTL

\* The configuration file with the keys is gone once the runner has seen the
\* command end (the safety half of ConfigRemoved).
THEOREM KeysAreGone == Spec => [](runner \in {"send", "done"} => ~ config)
<1>1. SessionInv => (runner \in {"send", "done"} => ~ config)
  BY DEF SessionInv, ConfigGone
<1> QED
  BY <1>1, SessionInvariant, PTL
=============================================================================

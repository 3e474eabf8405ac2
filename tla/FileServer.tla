----------------------------- MODULE FileServer -----------------------------
(***************************************************************************)
(* The replicated file server of src/cs733/assignment4 (server.go): one    *)
(* server on top of each node of a Raft cluster.  Module Raft is the       *)
(* cluster; its variables are declared here and its actions are taken from *)
(* it, so that servers see the elections, the lost messages and the        *)
(* restarts of the nodes below them.                                       *)
(*                                                                         *)
(* In a server                                                             *)
(*   - parseCommand, a goroutine per connection, reads a line, hands the   *)
(*     command over on the unbuffered channel `commands` and waits on its  *)
(*     own unbuffered result channel;                                      *)
(*   - clientHandler takes the commands: it appends those that change      *)
(*     files to the Raft log and executes reads itself;                    *)
(*   - backendHandler executes what the node commits;                      *)
(*   - serverMain restores the map from the log and then accepts clients.  *)
(* The last three share the map, without a lock: in a step of its own each *)
(* enters handleMap, works on the map and leaves it for the answer.        *)
(*                                                                         *)
(* A connection is known by the number under which its server accepted it. *)
(* These numbers start at 1 on every server, and they are all that an      *)
(* entry of the log says about where it comes from.                        *)
(*                                                                         *)
(* No clock runs.  Every execution of a command picks the age that files   *)
(* have by then, so expiry is a choice and no two servers need agree on it *)
(* (more freedom than their clocks have).  Lines are counted; what one is  *)
(* is chosen when it is parsed.                                            *)
(***************************************************************************)
EXTENDS FileMap, FiniteSets

CONSTANTS
    Server, NoServer, MaxTerm, MaxLog, MaxInFlight, MaxPowerOffs,   \* of Raft
    MaxLines,       \* bound: lines that clients send in all
    Times           \* bound: the ages in seconds that files may have

ASSUME ClusterAssumption ==
    /\ IsFiniteSet(Server) /\ Server # {} /\ NoServer \notin Server
    /\ {MaxTerm, MaxLog, MaxInFlight, MaxPowerOffs} \subseteq Nat

ASSUME ConnectionAssumption == Clients = 1..Cardinality(Clients)

ASSUME LineAssumption == MaxLines \in Nat /\ Times \subseteq Nat

VARIABLES
    role, term, votedFor, log, commitIndex, leaderId, votes, nextIndex,
    matchIndex, stateLog, diskLog, net, delivered, nacked, submitted, elected,
    powerOffs,      \* the variables of Raft
    lines,          \* how many lines have been parsed
    data,           \* data[s]: the map of server s
    phase,          \* phase[s][c]: where parseCommand of connection c is
    command,        \* command[s][c]: the command it has in hand
    connections,    \* connections[s]: the keys of connectionMap
    main,           \* main[s]: where serverMain is
    restoring,      \* restoring[s]: what restoreMap has still to execute
    handler,        \* handler[s]: what clientHandler is doing
    backend,        \* backend[s]: what backendHandler is doing
    counter,        \* counter[s]: messageCounter
    appends,        \* appends[s]: AppendEvents in the node's ReceiveChannel
    commits         \* commits[s]: what is in its ClientCommitChannel

raftVars == <<role, term, votedFor, log, commitIndex, leaderId, votes,
              nextIndex, matchIndex, stateLog, diskLog, net, delivered, nacked,
              submitted, elected, powerOffs>>
parserVars == <<lines, phase, command, connections>>
workVars   == <<handler, backend, counter, main, restoring>>
vars == <<raftVars, data, parserVars, workVars, appends, commits>>

-----------------------------------------------------------------------------
(* Entries, answers and what a worker does.                                *)

(* The server and the id make an entry unique; no code that executes one   *)
(* depends on them.  The code's MessageId starts again with the server.    *)
Entry ==
    [server : Server, client : Clients, id : Nat, command : CommandsAt(Nat)]

R == INSTANCE Raft WITH Command <- Entry

Commit == [entry : Entry, err : BOOLEAN]

Shutdown == [op |-> "shutdown"]

ErrRedirect == [kind |-> "ERR_REDIRECT"]

NoAnswer == [kind |-> "none"]

(* A worker is idle, about to work on the map, sending an answer, closing a *)
(* connection, waiting for ever at a channel that does not exist, or done.  *)
Worker ==
    [pc : {"idle", "map", "reply", "close", "stuck", "done"},
     client : Clients \cup {0}, command : CommandsAt(Nat) \cup {NoCommand},
     sendReply : BOOLEAN, answer : Answer \cup {ErrRedirect, NoAnswer}]

AtRest == [pc |-> "idle", client |-> 0, command |-> NoCommand,
           sendReply |-> FALSE, answer |-> NoAnswer]

Executing(c, m, sendReply) ==
    [pc |-> "map", client |-> c, command |-> m, sendReply |-> sendReply,
     answer |-> NoAnswer]

(* channelMap[c] <- answer.  Nobody ever receives on a channel that is not *)
(* in channelMap when the send begins.                                     *)
Sending(s, c, m, answer) ==
    [pc |-> IF phase[s][c] = "none" THEN "stuck" ELSE "reply", client |-> c,
     command |-> m, sendReply |-> TRUE, answer |-> answer]

(* handleMap: a cas that succeeds answers without a look at sendReply.  (So *)
(* does the read of an expired file; but reads are not in the log, and the *)
(* handler always has them answered.)                                      *)
Answers(m, outcome, sendReply) ==
    sendReply \/ (m.op = "cas" /\ outcome.answers[1].kind = "OK")

(* The worker after its work on the map.                                   *)
AfterMap(s, w, outcome) ==
    IF Answers(w.command, outcome, w.sendReply)
    THEN Sending(s, w.client, w.command, outcome.answers[1])
    ELSE AtRest

-----------------------------------------------------------------------------
(* serverMain and parseCommand.                                            *)

Connect(s, c) ==
    /\ main[s] = "serving"
    /\ phase[s][c] = "none"
    /\ \A d \in Clients : d < c => phase[s][d] # "none"
    /\ phase' = [phase EXCEPT ![s][c] = "reading"]
    /\ connections' = [connections EXCEPT ![s] = @ \cup {c}]
    /\ UNCHANGED <<raftVars, data, lines, command, workVars, appends,
                   commits>>

TakeLine(s, c) ==
    /\ phase[s][c] = "reading"
    /\ lines < MaxLines
    /\ lines' = lines + 1
    /\ UNCHANGED <<raftVars, data, workVars, appends, commits>>

Parse(s, c) ==
    /\ TakeLine(s, c)
    /\ \E m \in CommandsAt({0}) \cup {Shutdown} :
         command' = [command EXCEPT ![s][c] = m]
    /\ phase' = [phase EXCEPT ![s][c] = "submitting"]
    /\ UNCHANGED connections

(* A malformed line closes the connection; the loop goes on with the lines *)
(* that the reader holds.  Only an overlong line ends it, and leaves the   *)
(* connection in the map.                                                  *)
Reject(s, c) ==
    /\ TakeLine(s, c)
    /\ \/ /\ connections' = [connections EXCEPT ![s] = @ \ {c}]
          /\ UNCHANGED phase
       \/ /\ phase' = [phase EXCEPT ![s][c] = "left"]
          /\ UNCHANGED connections
    /\ UNCHANGED command

(* The other end of channelMap[c] <- answer.                               *)
Receive(s, c) ==
    /\ phase[s][c] = "awaiting"
    /\ phase' = [phase EXCEPT ![s][c] = "reading"]
    /\ command' = [command EXCEPT ![s][c] = NoCommand]
    /\ UNCHANGED <<lines, connections>>

-----------------------------------------------------------------------------
(* clientHandler.                                                          *)

Take(s, c) ==
    /\ handler[s].pc = "idle"
    /\ phase[s][c] = "submitting"
    /\ UNCHANGED <<raftVars, data, lines, command, connections, backend,
                   main, restoring, commits>>

TakeChange(s, c) ==
    /\ Take(s, c)
    /\ command[s][c].op \in {"write", "cas", "delete"}
    /\ counter' = [counter EXCEPT ![s] = @ + 1]
    /\ appends' = [appends EXCEPT ![s] = Append(@,
         [server |-> s, client |-> c, id |-> counter'[s],
          command |-> command[s][c]])]
    /\ phase' = [phase EXCEPT ![s][c] = "awaiting"]
    /\ UNCHANGED handler

TakeRead(s, c) ==
    /\ Take(s, c)
    /\ command[s][c].op = "read"
    /\ handler' = [handler EXCEPT ![s] = Executing(c, command[s][c], TRUE)]
    /\ phase' = [phase EXCEPT ![s][c] = "awaiting"]
    /\ UNCHANGED <<counter, appends>>

(* The handler ends; parseCommand goes on to tell the others.              *)
TakeShutdown(s, c) ==
    /\ Take(s, c)
    /\ command[s][c].op = "shutdown"
    /\ handler' = [handler EXCEPT ![s].pc = "done"]
    /\ phase' = [phase EXCEPT ![s][c] = "stopping"]
    /\ UNCHANGED <<counter, appends>>

HandlerMap(s) ==
    /\ handler[s].pc = "map"
    /\ \E t \in Times :
       LET f == handler[s].command.file
           outcome == Outcome(handler[s].command, data[s][f], t)
       IN  /\ data' = [data EXCEPT ![s][f] = outcome.entry]
           /\ handler' = [handler EXCEPT ![s] = AfterMap(s, @, outcome)]
    /\ UNCHANGED <<raftVars, parserVars, backend, counter, main, restoring,
                   appends, commits>>

HandlerReply(s) ==
    /\ handler[s].pc = "reply"
    /\ Receive(s, handler[s].client)
    /\ handler' = [handler EXCEPT ![s] = AtRest]
    /\ UNCHANGED <<raftVars, data, backend, counter, main, restoring,
                   appends, commits>>

-----------------------------------------------------------------------------
(* The node below.                                                         *)

(* Defect: a node that is not the leader drops the command.                *)
DropAppend(s) ==
    /\ appends[s] # <<>>
    /\ role[s] \in {"FOLLOWER", "CANDIDATE"}
    /\ appends' = [appends EXCEPT ![s] = Tail(@)]
    /\ UNCHANGED <<raftVars, data, parserVars, workVars, commits>>

(* follower.go and candidate.go refuse a command.                          *)
RefuseAppend(s) ==
    /\ appends[s] # <<>>
    /\ role[s] \in {"FOLLOWER", "CANDIDATE"}
    /\ appends' = [appends EXCEPT ![s] = Tail(@)]
    /\ commits' = [commits EXCEPT ![s] =
                     Append(@, [entry |-> Head(appends[s]), err |-> TRUE])]
    /\ UNCHANGED <<raftVars, data, parserVars, workVars>>

AcceptAppend(s) ==
    /\ appends[s] # <<>>
    /\ R!LeaderAppendEvent(s, Head(appends[s]))
    /\ appends' = [appends EXCEPT ![s] = Tail(@)]
    /\ UNCHANGED <<data, parserVars, workVars, commits>>

(* Defect: the log's entry is pushed and not the command in it.            *)
DeliveredEntries(s) ==
    [k \in 1..(Len(delivered'[s]) - Len(delivered[s])) |->
        [entry |-> log'[s][Len(delivered[s]) + k], err |-> FALSE]]

(* What a step of the cluster pushes on the commit channel of server s.    *)
Delivered(s) ==
    [k \in 1..(Len(delivered'[s]) - Len(delivered[s])) |->
        [entry |-> delivered'[s][Len(delivered[s]) + k], err |-> FALSE]]

Refused(s) ==
    IF role[s] = "LEADER" /\ role'[s] = "FOLLOWER"
    THEN [k \in 1..(Len(log[s]) - commitIndex[s]) |->
            [entry |-> log[s][commitIndex[s] + k].cmd, err |-> TRUE]]
    ELSE <<>>

ClusterStep ==
    /\ \/ \E m \in net : R!Handle(m.to, m)
       \/ \E s \in Server : \/ R!FollowerTimeout(s)
                            \/ R!CandidateTimeout(s)
                            \/ R!LeaderTimeout(s)
    /\ commits' = [s \in Server |-> commits[s] \o Delivered(s) \o Refused(s)]
    /\ UNCHANGED <<data, parserVars, workVars, appends>>

-----------------------------------------------------------------------------
(* backendHandler.                                                         *)

(* Defect: every server that executes a command answers it.                *)
TakeCommitAndAnswer(s) ==
    /\ backend[s].pc = "idle"
    /\ commits[s] # <<>>
    /\ commits' = [commits EXCEPT ![s] = Tail(@)]
    /\ LET e == Head(commits[s]).entry
       IN  backend' = [backend EXCEPT ![s] =
             IF Head(commits[s]).err
             THEN Sending(s, e.client, e.command, ErrRedirect)
             ELSE Executing(e.client, e.command, TRUE)]
    /\ UNCHANGED <<raftVars, data, parserVars, handler, counter, main,
                   restoring, appends>>

(* Message ids are compared but nothing is done about it.  The role is     *)
(* that of the moment.                                                     *)
TakeCommit(s) ==
    /\ backend[s].pc = "idle"
    /\ commits[s] # <<>>
    /\ commits' = [commits EXCEPT ![s] = Tail(@)]
    /\ LET e == Head(commits[s]).entry
       IN  backend' = [backend EXCEPT ![s] =
             IF Head(commits[s]).err
             THEN Sending(s, e.client, e.command, ErrRedirect)
             ELSE Executing(e.client, e.command, role[s] = "LEADER")]
    /\ UNCHANGED <<raftVars, data, parserVars, handler, counter, main,
                   restoring, appends>>

(* Defect: a server that need not answer does not execute the command.     *)
BackendMapIfLeader(s) ==
    /\ backend[s].pc = "map"
    /\ \E t \in Times :
       LET f == backend[s].command.file
           outcome == Outcome(backend[s].command, data[s][f], t)
       IN  /\ data' = IF backend[s].sendReply
                      THEN [data EXCEPT ![s][f] = outcome.entry] ELSE data
           /\ backend' = [backend EXCEPT ![s] = AfterMap(s, @, outcome)]
    /\ UNCHANGED <<raftVars, parserVars, handler, counter, main, restoring,
                   appends, commits>>

BackendMap(s) ==
    /\ backend[s].pc = "map"
    /\ \E t \in Times :
       LET f == backend[s].command.file
           outcome == Outcome(backend[s].command, data[s][f], t)
       IN  /\ data' = [data EXCEPT ![s][f] = outcome.entry]
           /\ backend' = [backend EXCEPT ![s] = AfterMap(s, @, outcome)]
    /\ UNCHANGED <<raftVars, parserVars, handler, counter, main, restoring,
                   appends, commits>>

BackendReply(s) ==
    /\ backend[s].pc = "reply"
    /\ Receive(s, backend[s].client)
    /\ backend' = [backend EXCEPT ![s] =
         IF @.answer = ErrRedirect THEN [@ EXCEPT !.pc = "close"] ELSE AtRest]
    /\ UNCHANGED <<raftVars, data, handler, counter, main, restoring,
                   appends, commits>>

(* The connection is closed a moment after the redirection.                *)
BackendClose(s) ==
    /\ backend[s].pc = "close"
    /\ connections' = [connections EXCEPT ![s] = @ \ {backend[s].client}]
    /\ backend' = [backend EXCEPT ![s] = AtRest]
    /\ UNCHANGED <<raftVars, data, lines, phase, command, handler, counter,
                   main, restoring, appends, commits>>

-----------------------------------------------------------------------------
(* Going down and coming back.                                             *)

(* The process ends and its goroutines with it.                            *)
Stop(s) ==
    /\ R!Shutdown(s)
    /\ data' = [data EXCEPT ![s] = [f \in Files |-> NoFile]]
    /\ phase' = [phase EXCEPT ![s] = [c \in Clients |-> "none"]]
    /\ command' = [command EXCEPT ![s] = [c \in Clients |-> NoCommand]]
    /\ connections' = [connections EXCEPT ![s] = {}]
    /\ main' = [main EXCEPT ![s] = "stopped"]
    /\ restoring' = [restoring EXCEPT ![s] = <<>>]
    /\ handler' = [handler EXCEPT ![s] = AtRest]
    /\ backend' = [backend EXCEPT ![s] = AtRest]
    /\ appends' = [appends EXCEPT ![s] = <<>>]
    /\ commits' = [commits EXCEPT ![s] = <<>>]
    /\ UNCHANGED <<lines, counter>>

(* shutDownChannel is unbuffered: the backend has to be back at its select. *)
ShutdownByClient(s) ==
    /\ \E c \in Clients : phase[s][c] = "stopping"
    /\ backend[s].pc = "idle"
    /\ Stop(s)

Crash(s) == Stop(s)

(* The node and the backend run before the log is restored.                *)
Start(s) ==
    /\ main[s] = "stopped"
    /\ R!New(s)
    /\ main' = [main EXCEPT ![s] = "starting"]
    /\ UNCHANGED <<data, parserVars, restoring, handler, backend, counter,
                   appends, commits>>

(* restoreMap is given the log of this moment, committed or not.           *)
BeginRestore(s) ==
    /\ main[s] = "starting"
    /\ main' = [main EXCEPT ![s] = "restoring"]
    /\ restoring' = [restoring EXCEPT ![s] =
                       [k \in 1..Len(log[s]) |-> log[s][k].cmd.command]]
    /\ UNCHANGED <<raftVars, data, parserVars, handler, backend, counter,
                   appends, commits>>

(* There is no connection yet, so an answer is sent into a nil channel.    *)
RestoreEntry(s) ==
    /\ main[s] = "restoring"
    /\ restoring[s] # <<>>
    /\ restoring' = [restoring EXCEPT ![s] = Tail(@)]
    /\ \E t \in Times :
       LET m == Head(restoring[s])
           outcome == Outcome(m, data[s][m.file], t)
       IN  /\ data' = [data EXCEPT ![s][m.file] = outcome.entry]
           /\ main' = [main EXCEPT ![s] =
                         IF Answers(m, outcome, FALSE) THEN "stuck" ELSE @]
    /\ UNCHANGED <<raftVars, parserVars, handler, backend, counter,
                   appends, commits>>

Serve(s) ==
    /\ main[s] = "restoring"
    /\ restoring[s] = <<>>
    /\ main' = [main EXCEPT ![s] = "serving"]
    /\ UNCHANGED <<raftVars, data, parserVars, restoring, handler, backend,
                   counter, appends, commits>>

-----------------------------------------------------------------------------
(* The specification.  The servers have just started on empty logs.        *)

Init ==
    /\ R!Init
    /\ lines = 0
    /\ data = [s \in Server |-> [f \in Files |-> NoFile]]
    /\ phase = [s \in Server |-> [c \in Clients |-> "none"]]
    /\ command = [s \in Server |-> [c \in Clients |-> NoCommand]]
    /\ connections = [s \in Server |-> {}]
    /\ main = [s \in Server |-> "serving"]
    /\ restoring = [s \in Server |-> <<>>]
    /\ handler = [s \in Server |-> AtRest]
    /\ backend = [s \in Server |-> AtRest]
    /\ counter = [s \in Server |-> 0]
    /\ appends = [s \in Server |-> <<>>]
    /\ commits = [s \in Server |-> <<>>]

Next ==
    \/ \E s \in Server, c \in Clients :
         \/ Connect(s, c) \/ Parse(s, c) \/ Reject(s, c)
         \/ TakeChange(s, c) \/ TakeRead(s, c) \/ TakeShutdown(s, c)
    \/ \E s \in Server :
         \/ HandlerMap(s) \/ HandlerReply(s)
         \/ RefuseAppend(s) \/ AcceptAppend(s)
         \/ TakeCommit(s) \/ BackendMap(s) \/ BackendReply(s) \/ BackendClose(s)
         \/ ShutdownByClient(s) \/ Crash(s)
         \/ Start(s) \/ BeginRestore(s) \/ RestoreEntry(s) \/ Serve(s)
    \/ ClusterStep

(* Every goroutine that can go on does.  Senders that wait at a channel are *)
(* served in their order, so a command waits for finitely many others.     *)
(* Nothing is assumed of clients, of elections or of the network.          *)
Fairness ==
    \A s \in Server :
        /\ \A c \in Clients : SF_vars(TakeChange(s, c) \/ TakeRead(s, c))
        /\ WF_vars(HandlerMap(s) \/ HandlerReply(s))
        /\ WF_vars(RefuseAppend(s))
        /\ WF_vars(\/ TakeCommit(s) \/ BackendMap(s)
                   \/ BackendReply(s) \/ BackendClose(s))

Spec == Init /\ [][Next]_vars /\ Fairness

-----------------------------------------------------------------------------
(* Properties.                                                             *)

(* Every variable holds what its Go variable, channel or goroutine can.    *)
TypeOK ==
    /\ R!TypeOK
    /\ lines \in 0..MaxLines
    /\ data \in [Server -> [Files -> File \cup {NoFile}]]
    /\ phase \in [Server -> [Clients ->
         {"none", "reading", "submitting", "awaiting", "stopping", "left"}]]
    /\ command \in [Server ->
         [Clients -> CommandsAt(Nat) \cup {Shutdown, NoCommand}]]
    /\ connections \in [Server -> SUBSET Clients]
    /\ main \in [Server ->
         {"serving", "stopped", "starting", "restoring", "stuck"}]
    /\ restoring \in [Server -> Seq(CommandsAt(Nat))]
    /\ handler \in [Server -> Worker] /\ backend \in [Server -> Worker]
    /\ counter \in [Server -> Nat]
    /\ appends \in [Server -> Seq(Entry)]
    /\ commits \in [Server -> Seq(Commit)]

(* No server went down, one election was won at most and no cas is in the  *)
(* log: what keeps the connection numbers of two servers apart.            *)
Steady ==
    /\ powerOffs = 0
    /\ Cardinality(elected) <= 1
    /\ \A e \in submitted : e.command.op # "cas"

(* Whoever sends an answer has someone waiting for it, and it is the answer *)
(* to the command this one gave: although entries are told apart by the    *)
(* connection number alone and both workers send (server.go:388, 507).     *)
AnswersAwaited ==
    Steady =>
    \A s \in Server : \A w \in {handler[s], backend[s]} :
        w.pc \in {"reply", "stuck"} =>
            /\ phase[s][w.client] = "awaiting"
            /\ command[s][w.client] = w.command

(* Where in q, from position k on, commits are that are no refusals.       *)
AcceptedFrom(q, k) == {h \in k..Len(q) : ~q[h].err}

(* How many entries the backend of s has executed.                         *)
Executed(s) ==
    Len(delivered[s]) - Cardinality(AcceptedFrom(commits[s], 1))
      - (IF backend[s].pc = "map" THEN 1 ELSE 0)

(* Servers that have executed as many entries have the same files, whoever *)
(* answers and whatever reads went on: unless entries expire, which every  *)
(* server judges by its own clock (server.go:371), or the map is restored. *)
ReplicasAgree ==
    powerOffs = 0 /\ R!StateMachineSafety
      /\ (\A e \in submitted : e.command.struct.life = 0)
    => \A s, t \in Server : Executed(s) = Executed(t) => data[s] = data[t]

(* A write, a cas or a delete at a server that is not the leader does not  *)
(* hang: its client gets the redirection, and its connection is about to be *)
(* closed for it (README.md:30, "a proper leader url is returned as an      *)
(* error message and the connection is closed for that client").            *)
FollowerAnswers ==
    \A s \in Server, c \in Clients :
        /\ phase[s][c] = "submitting"
        /\ command[s][c].op \in {"write", "cas", "delete"}
        ~>  \/ /\ backend[s].pc = "close" /\ backend[s].client = c
               /\ phase[s][c] = "reading"
            \/ role[s] = "LEADER" \/ handler[s].pc = "done"
            \/ ~Steady

(* What the backend of a server that never won an election says to a client *)
(* that waits with a write, a read or a delete is a redirection            *)
(* (README.md:30, "If executed on follower machine a proper leader url is   *)
(* returned").                                                             *)
FollowersRedirect ==
    \A s \in Server :
        /\ backend[s].pc = "reply"
        /\ phase[s][backend[s].client] = "awaiting"
        /\ command[s][backend[s].client].op \in {"write", "read", "delete"}
        /\ \A e \in elected : e[1] # s
        => backend[s].answer = ErrRedirect

(* Access to the map is serialized (server.go:63-64).                      *)
MapAccessSerialized ==
    \A s \in Server : ~(handler[s].pc = "map" /\ backend[s].pc = "map")

=============================================================================

-------------------------- MODULE FileServerProofs --------------------------
(***************************************************************************)
(* Proofs about the replicated file servers.  The nodes below are those of *)
(* module Raft: what is proved of a cluster comes in through RM, and       *)
(* StepOfCluster says that each step of the servers is one of the cluster, *)
(* or none.                                                                *)
(*                                                                         *)
(* FileServerType: types, with what a goroutine has in hand as it sends.   *)
(*                                                                         *)
(* AnswersReachTheirClients: SteadyInv follows a command from the handler  *)
(* to the node, its log, the commit channel and the backend, and says that *)
(* its client waits all the way and that it is in one of these places only.*)
(*                                                                         *)
(* ReplicasHaveTheSameFiles: PositionInv says that what is on its way to a *)
(* map is what the node delivered last, HistoryInv that the maps of all    *)
(* servers are stages of one history.                                      *)
(***************************************************************************)
EXTENDS FileServer, SequenceTheorems, FiniteSetTheorems, TLAPS

RM == INSTANCE RaftMatchProofs WITH Command <- Entry

-----------------------------------------------------------------------------
(* The cluster below: the actions of R are those that RM proves about.     *)

LEMMA SameCardinality ==
    /\ \A S : RM!Cardinality(S) = Cardinality(S)
    /\ \A S : R!Cardinality(S) = Cardinality(S)
BY DEF RM!Cardinality, R!Cardinality, Cardinality

LEMMA RaftAssumptions == RM!ServerAssumption /\ RM!BoundAssumption
<1>1. RM!IsFiniteSet(Server) <=> IsFiniteSet(Server)
  BY DEF RM!IsFiniteSet, IsFiniteSet
<1> QED BY <1>1, ClusterAssumption DEF RM!ServerAssumption, RM!BoundAssumption

LEMMA SameTypes == R!TypeOK <=> RM!TypeOK
BY DEF R!TypeOK, RM!TypeOK, R!State, RM!State, R!LogEntry, RM!LogEntry,
       R!StateStore, RM!StateStore, R!Vote, RM!Vote, R!Message, RM!Message,
       R!VoteReqEvent, RM!VoteReqEvent, R!VoteRespEvent, RM!VoteRespEvent,
       R!AppendEntriesReqEvent, RM!AppendEntriesReqEvent,
       R!AppendEntriesRespEvent, RM!AppendEntriesRespEvent,
       R!FOLLOWER, R!CANDIDATE, R!LEADER, R!POWEROFF,
       RM!FOLLOWER, RM!CANDIDATE, RM!LEADER, RM!POWEROFF

\* What a node does with a message, when its timer runs out, with a command,
\* and as it goes down and comes back: both instances say the same.
LEMMA SameActions ==
    ASSUME NEW i
    PROVE  /\ \A m : R!Handle(i, m) => RM!Handle(i, m)
           /\ R!FollowerTimeout(i) => RM!FollowerTimeout(i)
           /\ R!CandidateTimeout(i) => RM!CandidateTimeout(i)
           /\ R!LeaderTimeout(i) => RM!LeaderTimeout(i)
           /\ \A c : R!LeaderAppendEvent(i, c) => RM!LeaderAppendEvent(i, c)
           /\ R!Shutdown(i) => RM!Shutdown(i)
           /\ R!New(i) => RM!New(i)
<1> USE SameCardinality
    DEF R!FOLLOWER, RM!FOLLOWER, R!VoteReq, RM!VoteReq,
        R!LastTerm, RM!LastTerm, R!Reply, RM!Reply, R!Transmit,
        RM!Transmit, R!VoteResp, RM!VoteResp, R!stateVars, RM!stateVars,
        R!MoreComplete, RM!MoreComplete, R!StoreState, RM!StoreState,
        R!logVars, RM!logVars, R!commitVars, RM!commitVars, R!leaderVars,
        RM!leaderVars, R!histVars, RM!histVars, R!AppendResp, RM!AppendResp,
        R!CommitUpTo, RM!CommitUpTo, R!Commands, RM!Commands, R!LogStore,
        RM!LogStore, R!Consume, RM!Consume, R!CANDIDATE, RM!CANDIDATE,
        R!IsMajority, RM!IsMajority, R!LEADER, RM!LEADER, R!Heartbeat,
        RM!Heartbeat, R!StepDown, RM!StepDown, R!DropLeaderLocals,
        RM!DropLeaderLocals, R!ForEach, RM!ForEach, R!Candidacy,
        RM!Candidacy, R!POWEROFF, RM!POWEROFF
<1>1. ASSUME NEW m, R!Handle(i, m) PROVE RM!Handle(i, m)
  <2>1. R!FollowerVoteReq(i, m) => RM!FollowerVoteReq(i, m)
    BY DEF R!FollowerVoteReq, RM!FollowerVoteReq, R!FollowerStaleVoteReq,
           RM!FollowerStaleVoteReq, R!FollowerGrantsVote,
           RM!FollowerGrantsVote, R!FollowerRejectsLog, RM!FollowerRejectsLog,
           R!FollowerAlreadyVoted, RM!FollowerAlreadyVoted
  <2>2. R!FollowerAppendReq(i, m) => RM!FollowerAppendReq(i, m)
    BY DEF R!FollowerAppendReq, RM!FollowerAppendReq,
           R!FollowerStaleAppendReq, RM!FollowerStaleAppendReq,
           R!FollowerHeartbeat, RM!FollowerHeartbeat, R!FollowLeader,
           RM!FollowLeader, R!FollowCommit, RM!FollowCommit, R!minimum,
           RM!minimum, R!FollowerRejectsEntries, RM!FollowerRejectsEntries,
           R!PrevMatches, RM!PrevMatches, R!FollowerAppendsEntries,
           RM!FollowerAppendsEntries, R!Present, RM!Present
  <2>3. R!FollowerResp(i, m) => RM!FollowerResp(i, m)
    BY DEF R!FollowerResp, RM!FollowerResp
  <2>4. R!CandidateVoteReq(i, m) => RM!CandidateVoteReq(i, m)
    BY DEF R!CandidateVoteReq, RM!CandidateVoteReq
  <2>5. R!CandidateVoteResp(i, m) => RM!CandidateVoteResp(i, m)
    BY DEF R!CandidateVoteResp, RM!CandidateVoteResp, R!CandidateOutdated,
           RM!CandidateOutdated, R!VotesWith, RM!VotesWith, R!CandidateWins,
           RM!CandidateWins, R!Voted, RM!Voted, R!Leadership, RM!Leadership,
           R!CandidateLoses, RM!CandidateLoses, R!CandidateKeepsWaiting,
           RM!CandidateKeepsWaiting
  <2>6. R!CandidateAppendReq(i, m) => RM!CandidateAppendReq(i, m)
    BY DEF R!CandidateAppendReq, RM!CandidateAppendReq
  <2>7. R!CandidateAppendResp(i, m) => RM!CandidateAppendResp(i, m)
    BY DEF R!CandidateAppendResp, RM!CandidateAppendResp
  <2>8. R!LeaderVoteReq(i, m) => RM!LeaderVoteReq(i, m)
    BY DEF R!LeaderVoteReq, RM!LeaderVoteReq
  <2>9. R!LeaderVoteResp(i, m) => RM!LeaderVoteResp(i, m)
    BY DEF R!LeaderVoteResp, RM!LeaderVoteResp
  <2>10. R!LeaderAppendReq(i, m) => RM!LeaderAppendReq(i, m)
    BY DEF R!LeaderAppendReq, RM!LeaderAppendReq
  <2>11. R!LeaderAppendResp(i, m) => RM!LeaderAppendResp(i, m)
    BY DEF R!LeaderAppendResp, RM!LeaderAppendResp, R!LeaderFailedResp,
           RM!LeaderFailedResp, R!LeaderSuccessResp, RM!LeaderSuccessResp,
           R!NextAfterSuccess, RM!NextAfterSuccess, R!Committable,
           RM!Committable
  <2> QED BY <1>1, <2>1, <2>2, <2>3, <2>4, <2>5, <2>6, <2>7, <2>8, <2>9,
          <2>10, <2>11
       DEF R!Handle, RM!Handle
<1>2. R!FollowerTimeout(i) => RM!FollowerTimeout(i)
  BY DEF R!FollowerTimeout, RM!FollowerTimeout
<1>3. R!CandidateTimeout(i) => RM!CandidateTimeout(i)
  BY DEF R!CandidateTimeout, RM!CandidateTimeout
<1>4. R!LeaderTimeout(i) => RM!LeaderTimeout(i)
  BY DEF R!LeaderTimeout, RM!LeaderTimeout, R!Replication, RM!Replication
<1>5. ASSUME NEW c, R!LeaderAppendEvent(i, c) PROVE RM!LeaderAppendEvent(i, c)
  BY <1>5 DEF R!LeaderAppendEvent, RM!LeaderAppendEvent
<1>6. R!Shutdown(i) => RM!Shutdown(i)
  BY DEF R!Shutdown, RM!Shutdown
<1>7. R!New(i) => RM!New(i)
  BY DEF R!New, RM!New, R!Restartable, RM!Restartable, R!StoredState,
         RM!StoredState
<1> QED BY <1>1, <1>2, <1>3, <1>4, <1>5, <1>6, <1>7

\* What holds of the cluster in every state of the servers on top of it.
RaftInv == RM!TypeOK /\ RM!SoloInv /\ RM!SubmittedInv

LEMMA RaftUnchanged ==
    ASSUME UNCHANGED raftVars
    PROVE  [RM!Next]_(RM!vars)
BY DEF raftVars, RM!vars, RM!stateVars, RM!logVars, RM!commitVars,
       RM!leaderVars, RM!histVars

LEMMA RaftInvKept ==
    ASSUME RaftInv, [RM!Next]_(RM!vars)
    PROVE  RaftInv'
<1> USE RaftAssumptions DEF RaftInv
<1>1. RM!TypeOK'
  BY RM!NextType
<1>2. RM!SoloInv'
  BY <1>1, RM!NextSolo
<1>3. RM!SubmittedInv'
  BY <1>1, RM!NextSubmitted
<1> QED BY <1>1, <1>2, <1>3

LEMMA RaftInvInit == R!Init => RaftInv
<1> USE RaftAssumptions
<1> SUFFICES ASSUME R!Init PROVE RaftInv
  OBVIOUS
<1>1. RM!Init
  BY DEF R!Init, RM!Init, R!ForEach, RM!ForEach, R!FOLLOWER, RM!FOLLOWER
<1> QED BY <1>1, RM!InitType, RM!InitSolo, RM!InitSubmitted DEF RaftInv

\* The cluster's part of each step is a step of the cluster.
LEMMA ClusterStepRuns ==
    ASSUME ClusterStep
    PROVE  RM!RunStep
BY SameActions DEF ClusterStep, RM!RunStep

LEMMA StepOfCluster ==
    ASSUME TypeOK, [Next]_vars
    PROVE  [RM!Next]_(RM!vars)
<1>1. CASE UNCHANGED raftVars
  BY <1>1, RaftUnchanged
<1>2. CASE ClusterStep
  BY <1>2, SameActions DEF ClusterStep, RM!Next
<1>3. ASSUME NEW s \in Server, AcceptAppend(s)
      PROVE  RM!Next
  <2>1. Head(appends[s]) \in Entry
    BY <1>3, HeadTailProperties DEF AcceptAppend, TypeOK
  <2> QED BY <1>3, <2>1, SameActions DEF AcceptAppend, RM!Next
<1>4. ASSUME NEW s \in Server, ShutdownByClient(s) \/ Crash(s) \/ Start(s)
      PROVE  RM!Next
  BY <1>4, SameActions DEF ShutdownByClient, Crash, Stop, Start, RM!Next
<1>5. ASSUME NEW s \in Server, NEW c \in Clients,
             \/ Connect(s, c) \/ Parse(s, c) \/ Reject(s, c)
             \/ TakeChange(s, c) \/ TakeRead(s, c) \/ TakeShutdown(s, c)
      PROVE  UNCHANGED raftVars
  BY <1>5 DEF Connect, Parse, Reject, TakeLine, TakeChange, TakeRead,
              TakeShutdown, Take
<1>6. ASSUME NEW s \in Server,
             \/ HandlerMap(s) \/ HandlerReply(s) \/ RefuseAppend(s)
             \/ TakeCommit(s) \/ BackendMap(s) \/ BackendReply(s)
             \/ BackendClose(s) \/ BeginRestore(s) \/ RestoreEntry(s)
             \/ Serve(s)
      PROVE  UNCHANGED raftVars
  BY <1>6 DEF HandlerMap, HandlerReply, RefuseAppend, TakeCommit, BackendMap,
              BackendReply, BackendClose, BeginRestore, RestoreEntry, Serve
<1>7. UNCHANGED vars => UNCHANGED raftVars
  BY DEF vars
<1> QED BY <1>1, <1>2, <1>3, <1>4, <1>5, <1>6, <1>7 DEF Next

-----------------------------------------------------------------------------
(* Commands and outcomes.                                                  *)

LEMMA CommandParts ==
    ASSUME NEW m \in CommandsAt(Nat)
    PROVE  /\ m.op \in {"write", "cas", "read", "delete"}
           /\ m.file \in Files
           /\ m.struct.content \in Contents
           /\ m.struct.created \in Nat
           /\ m.struct.life \in Lives
           /\ m.op = "write" => m.struct \in File
           /\ m.struct \in FileStruct(Int, Nat)
<1> USE DataAssumption
<1>1. CASE m \in [op : {"write"}, file : Files, struct : FileStruct({1}, Nat)]
  <2>1. m.op = "write" /\ m.file \in Files /\ m.struct \in FileStruct({1}, Nat)
    BY <1>1
  <2> QED BY <2>1 DEF FileStruct, File
<1>2. CASE m \in [op : {"cas"}, file : Files,
                  struct : FileStruct(Versions, Nat)]
  <2>1. /\ m.op = "cas" /\ m.file \in Files
        /\ m.struct \in FileStruct(Versions, Nat)
    BY <1>2
  <2> QED BY <2>1 DEF FileStruct
<1>3. CASE m \in [op : {"read", "delete"}, file : Files, struct : {ZeroStruct}]
  <2>1. m.op \in {"read", "delete"} /\ m.file \in Files /\ m.struct = ZeroStruct
    BY <1>3
  <2> QED BY <2>1 DEF ZeroStruct, FileStruct
<1> QED BY <1>1, <1>2, <1>3 DEF CommandsAt

\* What a command leaves under its file's name, and its answer.
LEMMA OutcomeParts ==
    ASSUME NEW m \in CommandsAt(Nat), NEW fl \in File \cup {NoFile},
           NEW t \in Nat
    PROVE  /\ Outcome(m, fl, t).entry \in File \cup {NoFile}
           /\ Outcome(m, fl, t).answers[1] \in Answer
<1> DEFINE Typed(o) == /\ o.entry \in File \cup {NoFile}
                       /\ o.answers[1] \in Answer
<1> USE DataAssumption
<1>1. Typed(Gone)
  BY DEF Gone, Answer
<1>2. ASSUME fl # NoFile
      PROVE  /\ NextVersion(fl, m.struct) \in File
             /\ Ok(fl.version + 1) \in Answer
  <2>1. fl.version + 1 \in Nat \ {0}
    BY <1>2 DEF File
  <2>2. NextVersion(fl, m.struct) =
          [version |-> fl.version + 1, content |-> m.struct.content,
           created |-> m.struct.created, life |-> m.struct.life]
    <3>1. m.struct \in FileStruct(Int, Nat)
      BY CommandParts
    <3> QED BY <3>1 DEF NextVersion, FileStruct
  <2>3. /\ m.struct.content \in Contents /\ m.struct.created \in Nat
        /\ m.struct.life \in Lives
    BY CommandParts
  <2> QED BY <2>1, <2>2, <2>3 DEF File, Ok, Answer
<1>3. CASE m.op = "write"
  <2>1. Ok(1) \in Answer
    BY DEF Ok, Answer
  <2>2. m.struct \in File
    BY <1>3, CommandParts
  <2>3. Typed(WriteOutcome(m, fl, t))
    BY <1>2, <2>1, <2>2 DEF WriteOutcome
  <2> QED BY <1>3, <2>3 DEF Outcome
<1>4. CASE m.op = "cas"
  <2>1. ASSUME fl # NoFile PROVE ErrVersion(fl.version) \in Answer
    BY <2>1 DEF ErrVersion, Answer, File
  <2>2. Typed(CasOutcome(m, fl, t))
    BY <1>1, <1>2, <2>1 DEF CasOutcome
  <2> QED BY <1>4, <2>2 DEF Outcome
<1>5. CASE m.op = "read"
  <2>1. ASSUME fl # NoFile, ~Expired(fl, fl, t)
        PROVE  [kind |-> "CONTENTS", version |-> fl.version,
                content |-> fl.content, remaining |-> Remaining(fl, t)]
                  \in Answer
    <3>1. Remaining(fl, t) \in Nat
      <4>1. /\ fl.created \in Nat /\ fl.life \in Nat
            /\ ~(fl.life > 0 /\ t - fl.created > fl.life)
        BY <2>1 DEF Expired, File
      <4> QED BY <4>1 DEF Remaining
    <3> QED BY <2>1, <3>1 DEF Answer, File
  <2>2. Typed(ReadOutcome(m, fl, t))
    BY <1>1, <2>1 DEF ReadOutcome
  <2> QED BY <1>5, <2>2 DEF Outcome
<1>6. CASE m.op = "delete"
  <2>1. Typed(DeleteOutcome(m, fl, t))
    BY <1>1 DEF DeleteOutcome, Answer
  <2> QED BY <1>6, <2>1 DEF Outcome
<1> QED BY <1>3, <1>4, <1>5, <1>6, CommandParts

-----------------------------------------------------------------------------
(* Type correctness.                                                       *)

\* A function of the servers, and one of the connections of each, of which
\* one value is replaced.
LEMMA OneServer ==
    ASSUME NEW V, NEW f \in [Server -> V], NEW s \in Server, NEW v \in V,
           NEW g, g = [f EXCEPT ![s] = v]
    PROVE  /\ g \in [Server -> V]
           /\ g[s] = v
           /\ \A x \in Server : x # s => g[x] = f[x]
OBVIOUS

LEMMA OneCell ==
    ASSUME NEW V, NEW f \in [Server -> [Clients -> V]], NEW s \in Server,
           NEW c \in Clients, NEW v \in V,
           NEW g, g = [f EXCEPT ![s][c] = v]
    PROVE  /\ g \in [Server -> [Clients -> V]]
           /\ g[s][c] = v
           /\ \A x \in Server, y \in Clients :
                x # s \/ y # c => g[x][y] = f[x][y]
OBVIOUS

Phase == {"none", "reading", "submitting", "awaiting", "stopping", "left"}

\* A worker that is at work has a client and its command in hand.
Occupied(w) ==
    w.pc \in {"map", "reply", "close", "stuck"} =>
        w.client \in Clients /\ w.command \in CommandsAt(Nat)

InHand ==
    /\ \A s \in Server, c \in Clients : phase[s][c] = "submitting" =>
         command[s][c] \in CommandsAt(Nat) \cup {Shutdown}
    /\ \A s \in Server : Occupied(handler[s]) /\ Occupied(backend[s])

TypeInv == TypeOK /\ InHand /\ RaftInv

LEMMA AtRestType == AtRest \in Worker /\ Occupied(AtRest)
BY DEF AtRest, Worker, Occupied

LEMMA PhaseType ==
    ASSUME NEW w \in Worker,
           NEW p \in {"idle", "map", "reply", "close", "stuck", "done"}
    PROVE  /\ [w EXCEPT !.pc = p] \in Worker
           /\ [w EXCEPT !.pc = p].pc = p
           /\ [w EXCEPT !.pc = p].client = w.client
           /\ [w EXCEPT !.pc = p].command = w.command
BY DEF Worker

LEMMA ExecutingType ==
    ASSUME NEW c \in Clients, NEW m \in CommandsAt(Nat), NEW b \in BOOLEAN
    PROVE  Executing(c, m, b) \in Worker /\ Occupied(Executing(c, m, b))
BY DEF Executing, Worker, Occupied

LEMMA SendingType ==
    ASSUME NEW s, NEW c \in Clients, NEW m \in CommandsAt(Nat),
           NEW a \in Answer \cup {ErrRedirect}
    PROVE  Sending(s, c, m, a) \in Worker /\ Occupied(Sending(s, c, m, a))
BY DEF Sending, Worker, Occupied

LEMMA AfterMapType ==
    ASSUME NEW s, NEW w \in Worker, w.pc = "map", Occupied(w),
           NEW o, o.answers[1] \in Answer
    PROVE  AfterMap(s, w, o) \in Worker /\ Occupied(AfterMap(s, w, o))
<1>1. w.client \in Clients /\ w.command \in CommandsAt(Nat)
  BY DEF Occupied
<1> QED BY <1>1, AtRestType, SendingType DEF AfterMap

\* What work on the map does to it.
LEMMA MapType ==
    ASSUME TypeOK, NEW s \in Server, NEW m \in CommandsAt(Nat), NEW t \in Times
    PROVE  /\ [data EXCEPT ![s][m.file] =
                 Outcome(m, data[s][m.file], t).entry]
                \in [Server -> [Files -> File \cup {NoFile}]]
           /\ Outcome(m, data[s][m.file], t).answers[1] \in Answer
<1>1. m.file \in Files
  BY CommandParts
<1>2. t \in Nat
  BY LineAssumption
<1>3. data[s][m.file] \in File \cup {NoFile}
  BY <1>1 DEF TypeOK
<1> DEFINE o == Outcome(m, data[s][m.file], t)
<1>4. o.entry \in File \cup {NoFile} /\ o.answers[1] \in Answer
  BY <1>2, <1>3, OutcomeParts
<1> HIDE DEF o
<1>5. [data EXCEPT ![s][m.file] = o.entry]
        \in [Server -> [Files -> File \cup {NoFile}]]
  BY <1>1, <1>4 DEF TypeOK
<1> QED BY <1>4, <1>5 DEF o

\* The steps between a client and clientHandler.
LEMMA ClientStepType ==
    ASSUME TypeInv, NEW s \in Server, NEW c \in Clients,
           Connect(s, c) \/ Parse(s, c) \/ Reject(s, c) \/ TakeShutdown(s, c)
    PROVE  TypeOK' /\ InHand'
<1> USE DEF TypeInv
<1>1. UNCHANGED <<raftVars, data, main, restoring, backend, counter, appends,
                  commits>>
  BY DEF Connect, Parse, Reject, TakeLine, TakeShutdown, Take, workVars
<1>2. R!TypeOK'
  BY <1>1 DEF TypeOK, raftVars, R!TypeOK
<1>3. CASE Connect(s, c)
  BY <1>1, <1>2, <1>3
  DEF Connect, TypeOK, InHand, raftVars, workVars
<1>4. CASE Parse(s, c)
  <2>1. CommandsAt({0}) \subseteq CommandsAt(Nat)
    BY DEF CommandsAt, FileStruct
  <2>2. PICK m \in CommandsAt(Nat) \cup {Shutdown} :
          command' = [command EXCEPT ![s][c] = m]
    BY <1>4, <2>1 DEF Parse
  <2> QED BY <1>1, <1>2, <1>4, <2>2, LineAssumption
          DEF Parse, TakeLine, TypeOK, InHand, workVars
<1>5. CASE Reject(s, c)
  <2>1. lines' \in 0..MaxLines
    BY <1>5, LineAssumption DEF Reject, TakeLine, TypeOK
  <2>2. connections' \in [Server -> SUBSET Clients]
    BY <1>5 DEF Reject, TypeOK
  <2>3. \/ UNCHANGED phase
        \/ phase' = [phase EXCEPT ![s][c] = "left"]
    BY <1>5 DEF Reject
  <2>4. UNCHANGED <<command, handler>>
    BY <1>5 DEF Reject, TakeLine, workVars
  <2>5. /\ phase' \in [Server -> [Clients -> Phase]]
        /\ \A x \in Server, y \in Clients :
             phase'[x][y] = "submitting" => phase[x][y] = "submitting"
    <3>1. phase \in [Server -> [Clients -> Phase]]
      BY DEF TypeOK, Phase
    <3> QED BY <2>3, <3>1, OneCell DEF Phase
  <2>6. InHand'
    BY <1>1, <2>4, <2>5 DEF InHand
  <2>7. TypeOK'
    BY <1>1, <1>2, <2>1, <2>2, <2>4, <2>5 DEF TypeOK, Phase
  <2> QED BY <2>6, <2>7
<1>6. CASE TakeShutdown(s, c)
  <2> DEFINE w == [handler[s] EXCEPT !.pc = "done"]
  <2>1. handler' = [handler EXCEPT ![s] = w]
    BY <1>6 DEF TakeShutdown
  <2>2. w \in Worker /\ w.pc = "done"
    <3>1. handler[s] \in Worker
      BY DEF TypeOK
    <3> QED BY <3>1, PhaseType
  <2> HIDE DEF w
  <2>9. Occupied(w)
    BY <2>2 DEF Occupied
  <2>3. /\ handler' \in [Server -> Worker]
        /\ \A x \in Server : Occupied(handler'[x])
    BY <2>1, <2>2, <2>9 DEF TypeOK, InHand
  <2>4. /\ UNCHANGED <<lines, command, connections>>
        /\ phase' = [phase EXCEPT ![s][c] = "stopping"]
    BY <1>6 DEF TakeShutdown, Take
  <2>5. /\ phase' \in [Server -> [Clients -> Phase]]
        /\ \A x \in Server, y \in Clients :
             phase'[x][y] = "submitting" => phase[x][y] = "submitting"
    <3>1. phase \in [Server -> [Clients -> Phase]]
      BY DEF TypeOK, Phase
    <3> QED BY <2>4, <3>1, OneCell DEF Phase
  <2>6. InHand'
    BY <1>1, <2>3, <2>4, <2>5 DEF InHand
  <2>7. TypeOK'
    BY <1>1, <1>2, <2>3, <2>4, <2>5 DEF TypeOK, Phase
  <2> QED BY <2>6, <2>7
<1> QED BY <1>3, <1>4, <1>5, <1>6

\* clientHandler takes a command.
LEMMA TakeType ==
    ASSUME TypeInv, NEW s \in Server, NEW c \in Clients,
           TakeChange(s, c) \/ TakeRead(s, c)
    PROVE  TypeOK' /\ InHand'
<1> USE DEF TypeInv
<1>1. UNCHANGED <<raftVars, data, lines, command, connections, backend, main,
                  restoring, commits>>
  BY DEF TakeChange, TakeRead, Take
<1>2. R!TypeOK'
  BY <1>1 DEF TypeOK, raftVars, R!TypeOK
<1>3. command[s][c] \in CommandsAt(Nat)
  <2>1. command[s][c] \in CommandsAt(Nat) \cup {Shutdown}
    BY DEF TakeChange, TakeRead, Take, InHand
  <2>2. command[s][c].op # "shutdown"
    BY DEF TakeChange, TakeRead
  <2> QED BY <2>1, <2>2 DEF Shutdown
<1>4. /\ phase' \in [Server -> [Clients -> Phase]]
      /\ \A x \in Server, y \in Clients :
           phase'[x][y] = "submitting" => phase[x][y] = "submitting"
  <2>1. phase \in [Server -> [Clients -> Phase]]
    BY DEF TypeOK, Phase
  <2>2. phase' = [phase EXCEPT ![s][c] = "awaiting"]
    BY DEF TakeChange, TakeRead
  <2> QED BY <2>1, <2>2, OneCell DEF Phase
<1>5. /\ counter' \in [Server -> Nat] /\ appends' \in [Server -> Seq(Entry)]
      /\ handler' \in [Server -> Worker]
      /\ \A x \in Server : Occupied(handler'[x])
  <2>1. CASE TakeChange(s, c)
    <3>1. counter' \in [Server -> Nat]
      BY <2>1 DEF TakeChange, TypeOK
    <3> DEFINE e == [server |-> s, client |-> c, id |-> counter'[s],
                     command |-> command[s][c]]
    <3>2. e \in Entry
      BY <1>3, <3>1 DEF Entry
    <3>3. appends' = [appends EXCEPT ![s] = Append(appends[s], e)]
      BY <2>1 DEF TakeChange, TypeOK
    <3> HIDE DEF e
    <3>4. Append(appends[s], e) \in Seq(Entry)
      BY <3>2, AppendProperties DEF TypeOK
    <3>5. appends' \in [Server -> Seq(Entry)]
      BY <3>3, <3>4 DEF TypeOK
    <3>6. UNCHANGED handler
      BY <2>1 DEF TakeChange
    <3> QED BY <3>1, <3>5, <3>6 DEF TypeOK, InHand
  <2>2. CASE TakeRead(s, c)
    <3> DEFINE w == Executing(c, command[s][c], TRUE)
    <3>1. w \in Worker /\ Occupied(w)
      BY <1>3, ExecutingType
    <3>2. handler' = [handler EXCEPT ![s] = w]
      BY <2>2 DEF TakeRead
    <3> HIDE DEF w
    <3>3. handler \in [Server -> Worker]
      BY DEF TypeOK
    <3>4. /\ handler' \in [Server -> Worker]
          /\ \A x \in Server : Occupied(handler'[x])
      BY <3>1, <3>2, <3>3 DEF InHand
    <3>5. UNCHANGED <<counter, appends>>
      BY <2>2 DEF TakeRead
    <3> QED BY <3>4, <3>5 DEF TypeOK
  <2> QED BY <2>1, <2>2
<1>6. InHand'
  BY <1>1, <1>4, <1>5 DEF InHand
<1>7. TypeOK'
  BY <1>1, <1>2, <1>4, <1>5 DEF TypeOK, Phase
<1> QED BY <1>6, <1>7

\* A worker at the map.
LEMMA WorkType ==
    ASSUME TypeInv, NEW s \in Server, HandlerMap(s) \/ BackendMap(s)
    PROVE  TypeOK' /\ InHand'
<1> USE DEF TypeInv
<1>1. UNCHANGED <<raftVars, parserVars, counter, main, restoring, appends,
                  commits>>
  BY DEF HandlerMap, BackendMap
<1>2. R!TypeOK'
  BY <1>1 DEF TypeOK, raftVars, R!TypeOK
<1> DEFINE At(w, W, t) ==
      LET o == Outcome(w.command, data[s][w.command.file], t)
      IN  /\ data' = [data EXCEPT ![s][w.command.file] = o.entry]
          /\ W = AfterMap(s, w, o)
<1>3. ASSUME NEW w \in Worker, NEW W, NEW t \in Times, w.pc = "map",
             Occupied(w), At(w, W, t)
      PROVE  /\ data' \in [Server -> [Files -> File \cup {NoFile}]]
             /\ W \in Worker /\ Occupied(W)
  <2>1. w.command \in CommandsAt(Nat)
    BY <1>3 DEF Occupied
  <2> DEFINE o == Outcome(w.command, data[s][w.command.file], t)
  <2>2. /\ data' \in [Server -> [Files -> File \cup {NoFile}]]
        /\ o.answers[1] \in Answer
    BY <1>3, <2>1, MapType
  <2>3. W = AfterMap(s, w, o)
    BY <1>3
  <2> QED BY <1>3, <2>2, <2>3, AfterMapType
<1>4. handler \in [Server -> Worker] /\ backend \in [Server -> Worker]
  BY DEF TypeOK
<1>5. /\ data' \in [Server -> [Files -> File \cup {NoFile}]]
      /\ handler' \in [Server -> Worker] /\ backend' \in [Server -> Worker]
      /\ \A x \in Server : Occupied(handler'[x]) /\ Occupied(backend'[x])
  <2>1. CASE HandlerMap(s)
    <3>1. PICK t \in Times : At(handler[s], AfterMap(s, handler[s],
             Outcome(handler[s].command, data[s][handler[s].command.file], t)),
             t) /\ handler' = [handler EXCEPT ![s] = AfterMap(s, handler[s],
             Outcome(handler[s].command, data[s][handler[s].command.file], t))]
      BY <2>1, <1>4 DEF HandlerMap
    <3> DEFINE W == AfterMap(s, handler[s],
             Outcome(handler[s].command, data[s][handler[s].command.file], t))
    <3>2. handler' = [handler EXCEPT ![s] = W] /\ At(handler[s], W, t)
      BY <3>1
    <3> HIDE DEF W, At
    <3>3. handler[s].pc = "map" /\ Occupied(handler[s]) /\ UNCHANGED backend
      BY <2>1 DEF HandlerMap, InHand
    <3>4. /\ data' \in [Server -> [Files -> File \cup {NoFile}]]
          /\ W \in Worker /\ Occupied(W)
      BY <1>3, <1>4, <3>2, <3>3
    <3> QED BY <1>4, <3>2, <3>3, <3>4, OneServer DEF InHand
  <2>2. CASE BackendMap(s)
    <3>1. PICK t \in Times : At(backend[s], AfterMap(s, backend[s],
             Outcome(backend[s].command, data[s][backend[s].command.file], t)),
             t) /\ backend' = [backend EXCEPT ![s] = AfterMap(s, backend[s],
             Outcome(backend[s].command, data[s][backend[s].command.file], t))]
      BY <2>2, <1>4 DEF BackendMap
    <3> DEFINE W == AfterMap(s, backend[s],
             Outcome(backend[s].command, data[s][backend[s].command.file], t))
    <3>2. backend' = [backend EXCEPT ![s] = W] /\ At(backend[s], W, t)
      BY <3>1
    <3> HIDE DEF W, At
    <3>3. backend[s].pc = "map" /\ Occupied(backend[s]) /\ UNCHANGED handler
      BY <2>2 DEF BackendMap, InHand
    <3>4. /\ data' \in [Server -> [Files -> File \cup {NoFile}]]
          /\ W \in Worker /\ Occupied(W)
      BY <1>3, <1>4, <3>2, <3>3
    <3> QED BY <1>4, <3>2, <3>3, <3>4, OneServer DEF InHand
  <2> QED BY <2>1, <2>2
<1>6. InHand'
  BY <1>1, <1>5 DEF InHand, parserVars
<1>7. TypeOK'
  BY <1>1, <1>2, <1>5 DEF TypeOK, parserVars
<1> QED BY <1>6, <1>7

\* The numbers 1 to n index a sequence, an empty one if n is negative.
LEMMA Indexed ==
    ASSUME NEW S, NEW n \in Int, NEW f, f = [k \in 1..n |-> f[k]],
           \A k \in 1..n : f[k] \in S
    PROVE  f \in Seq(S) /\ Len(f) = IF n > 0 THEN n ELSE 0
<1>1. CASE n > 0
  <2>1. f \in [1..n -> S] /\ n \in Nat
    BY <1>1
  <2>2. f \in Seq(S)
    BY <2>1, SeqDef
  <2> QED BY <1>1, <2>1, <2>2, LenProperties
<1>2. CASE ~(n > 0)
  <2>1. 1..n = 1..0
    BY <1>2
  <2>2. f \in [1..0 -> S]
    BY <2>1
  <2>3. f \in Seq(S)
    BY <2>2, SeqDef
  <2>4. Len(f) = 0
    <3>1. DOMAIN f = 1..0
      BY <2>2
    <3>2. Len(f) \in Nat /\ DOMAIN f = 1..Len(f)
      BY <2>3, LenProperties
    <3>3. 1 \notin 1..Len(f)
      <4>1. 1 \notin 1..0
        OBVIOUS
      <4> QED BY <3>1, <3>2, <4>1
    <3>4. \A l \in Nat : 1 \notin 1..l => l = 0
      OBVIOUS
    <3> QED BY <3>2, <3>3, <3>4, Zenon
  <2> QED BY <1>2, <2>3, <2>4
<1> QED BY <1>1, <1>2

\* What a step of the cluster pushes on a commit channel are commits.
LEMMA PushedType ==
    ASSUME TypeOK, R!TypeOK', NEW s \in Server
    PROVE  Delivered(s) \in Seq(Commit) /\ Refused(s) \in Seq(Commit)
<1>1. /\ delivered[s] \in Seq(Entry) /\ delivered'[s] \in Seq(Entry)
      /\ log[s] \in Seq(R!LogEntry) /\ commitIndex[s] \in Nat
  BY DEF TypeOK, R!TypeOK
<1>2. /\ Len(delivered[s]) \in Nat /\ Len(delivered'[s]) \in Nat
      /\ Len(log[s]) \in Nat
  BY <1>1, LenProperties
<1>3. Delivered(s) \in Seq(Commit)
  <2> DEFINE n == Len(delivered'[s]) - Len(delivered[s])
  <2>1. n \in Int
    BY <1>2
  <2>2. ASSUME NEW k \in 1..n PROVE Delivered(s)[k] \in Commit
    <3>1. Len(delivered[s]) + k \in 1..Len(delivered'[s])
      BY <1>2, <2>2
    <3>2. delivered'[s][Len(delivered[s]) + k] \in Entry
      BY <1>1, <3>1, ElementOfSeq
    <3> QED BY <3>2 DEF Delivered, Commit
  <2>3. Delivered(s) = [k \in 1..n |-> Delivered(s)[k]]
    BY DEF Delivered
  <2> QED BY <2>1, <2>2, <2>3, Indexed
<1>4. Refused(s) \in Seq(Commit)
  <2> DEFINE n == Len(log[s]) - commitIndex[s]
             f == [k \in 1..n |->
                     [entry |-> log[s][commitIndex[s] + k].cmd, err |-> TRUE]]
  <2>1. n \in Int
    BY <1>1, <1>2
  <2>2. ASSUME NEW k \in 1..n PROVE f[k] \in Commit
    <3>1. commitIndex[s] + k \in 1..Len(log[s])
      BY <1>1, <1>2, <2>2
    <3>2. log[s][commitIndex[s] + k] \in R!LogEntry
      BY <1>1, <3>1, ElementOfSeq
    <3>3. log[s][commitIndex[s] + k].cmd \in Entry
      BY <3>2 DEF R!LogEntry
    <3> QED BY <3>3 DEF Commit
  <2>3. f = [k \in 1..n |-> f[k]]
    OBVIOUS
  <2> HIDE DEF f
  <2>4. f \in Seq(Commit)
    <3> HIDE DEF n
    <3> QED BY <2>1, <2>2, <2>3, Indexed
  <2>5. <<>> \in Seq(Commit)
    OBVIOUS
  <2> QED BY <2>4, <2>5 DEF Refused, f
<1> QED BY <1>3, <1>4

LEMMA ClusterStepType ==
    ASSUME TypeInv, R!TypeOK', ClusterStep
    PROVE  TypeOK' /\ InHand'
<1> USE DEF TypeInv
<1>1. /\ UNCHANGED <<data, parserVars, workVars, appends>>
      /\ commits' = [s \in Server |-> commits[s] \o Delivered(s) \o Refused(s)]
  BY DEF ClusterStep
<1>2. ASSUME NEW s \in Server
      PROVE  commits[s] \o Delivered(s) \o Refused(s) \in Seq(Commit)
  <2>1. /\ Delivered(s) \in Seq(Commit) /\ Refused(s) \in Seq(Commit)
        /\ commits[s] \in Seq(Commit)
    BY PushedType DEF TypeOK
  <2>2. commits[s] \o Delivered(s) \in Seq(Commit)
    BY <2>1, ConcatProperties
  <2> QED BY <2>1, <2>2, ConcatProperties
<1>3. commits' \in [Server -> Seq(Commit)]
  BY <1>1, <1>2
<1>4. TypeOK'
  BY <1>1, <1>3 DEF TypeOK, parserVars, workVars
<1>5. InHand'
  BY <1>1 DEF InHand, parserVars, workVars
<1> QED BY <1>4, <1>5

\* The node takes a command from its channel.
LEMMA AppendType ==
    ASSUME TypeInv, R!TypeOK', NEW s \in Server,
           RefuseAppend(s) \/ AcceptAppend(s)
    PROVE  TypeOK' /\ InHand'
<1> USE DEF TypeInv
<1>1. /\ UNCHANGED <<data, parserVars, workVars>>
      /\ appends[s] # <<>>
      /\ appends' = [appends EXCEPT ![s] = Tail(appends[s])]
  BY DEF RefuseAppend, AcceptAppend
<1>2. /\ appends \in [Server -> Seq(Entry)]
      /\ commits \in [Server -> Seq(Commit)]
  BY DEF TypeOK
<1>3. Head(appends[s]) \in Entry /\ Tail(appends[s]) \in Seq(Entry)
  BY <1>1, <1>2, HeadTailProperties
<1>4. appends' \in [Server -> Seq(Entry)]
  BY <1>1, <1>2, <1>3
<1>5. commits' \in [Server -> Seq(Commit)]
  <2>1. CASE RefuseAppend(s)
    <3> DEFINE m == [entry |-> Head(appends[s]), err |-> TRUE]
    <3>1. m \in Commit
      BY <1>3 DEF Commit
    <3>2. commits' = [commits EXCEPT ![s] = Append(commits[s], m)]
      BY <2>1 DEF RefuseAppend
    <3> HIDE DEF m
    <3>3. Append(commits[s], m) \in Seq(Commit)
      BY <1>2, <3>1, AppendProperties
    <3> QED BY <1>2, <3>2, <3>3
  <2>2. CASE AcceptAppend(s)
    BY <1>2, <2>2 DEF AcceptAppend
  <2> QED BY <2>1, <2>2
<1>6. TypeOK'
  BY <1>1, <1>4, <1>5 DEF TypeOK, parserVars, workVars
<1>7. InHand'
  BY <1>1 DEF InHand, parserVars, workVars
<1> QED BY <1>6, <1>7

\* The backend takes a commit, and closes a redirected connection.
LEMMA BackendType ==
    ASSUME TypeInv, NEW s \in Server, TakeCommit(s) \/ BackendClose(s)
    PROVE  TypeOK' /\ InHand'
<1> USE DEF TypeInv
<1>1. UNCHANGED <<raftVars, data, lines, phase, command, handler, counter,
                  main, restoring, appends>>
  BY DEF TakeCommit, BackendClose, parserVars
<1>2. R!TypeOK'
  BY <1>1 DEF TypeOK, raftVars, R!TypeOK
<1>3. /\ backend \in [Server -> Worker] /\ commits \in [Server -> Seq(Commit)]
      /\ connections \in [Server -> SUBSET Clients]
  BY DEF TypeOK
<1>4. /\ backend' \in [Server -> Worker]
      /\ \A x \in Server : Occupied(backend'[x])
      /\ commits' \in [Server -> Seq(Commit)]
      /\ connections' \in [Server -> SUBSET Clients]
  <2>1. CASE TakeCommit(s)
    <3> DEFINE h == Head(commits[s])
               e == h.entry
               w == IF h.err
                    THEN Sending(s, e.client, e.command, ErrRedirect)
                    ELSE Executing(e.client, e.command, role[s] = "LEADER")
    <3>1. commits[s] # <<>>
      BY <2>1 DEF TakeCommit
    <3>2. h \in Commit /\ Tail(commits[s]) \in Seq(Commit)
      BY <1>3, <3>1, HeadTailProperties
    <3>3. e.client \in Clients /\ e.command \in CommandsAt(Nat)
      BY <3>2 DEF Commit, Entry
    <3>4. w \in Worker /\ Occupied(w)
      BY <3>3, SendingType, ExecutingType
    <3>5. /\ backend' = [backend EXCEPT ![s] = w]
          /\ commits' = [commits EXCEPT ![s] = Tail(commits[s])]
          /\ UNCHANGED connections
      BY <2>1 DEF TakeCommit, parserVars
    <3> HIDE DEF w
    <3> QED BY <1>3, <3>2, <3>4, <3>5, OneServer DEF InHand
  <2>2. CASE BackendClose(s)
    <3>1. /\ backend' = [backend EXCEPT ![s] = AtRest]
          /\ connections' =
               [connections EXCEPT ![s] = connections[s] \ {backend[s].client}]
          /\ UNCHANGED commits
      BY <2>2 DEF BackendClose
    <3>2. connections[s] \ {backend[s].client} \in SUBSET Clients
      BY <1>3
    <3> QED BY <1>3, <3>1, <3>2, OneServer, AtRestType DEF InHand
  <2> QED BY <2>1, <2>2
<1>5. InHand'
  BY <1>1, <1>4 DEF InHand
<1>6. TypeOK'
  BY <1>1, <1>2, <1>4 DEF TypeOK
<1> QED BY <1>5, <1>6

\* A worker's answer is received.
LEMMA ReplyType ==
    ASSUME TypeInv, NEW s \in Server, HandlerReply(s) \/ BackendReply(s)
    PROVE  TypeOK' /\ InHand'
<1> USE DEF TypeInv
<1>1. UNCHANGED <<raftVars, data, lines, connections, counter, main,
                  restoring, appends, commits>>
  BY DEF HandlerReply, BackendReply, Receive
<1>2. R!TypeOK'
  BY <1>1 DEF TypeOK, raftVars, R!TypeOK
<1>3. /\ phase \in [Server -> [Clients -> Phase]]
      /\ command \in [Server ->
           [Clients -> CommandsAt(Nat) \cup {Shutdown, NoCommand}]]
      /\ handler \in [Server -> Worker] /\ backend \in [Server -> Worker]
  BY DEF TypeOK, Phase
<1>4. PICK c \in Clients : Receive(s, c)
  <2>1. CASE HandlerReply(s)
    <3>1. handler[s].client \in Clients
      BY <2>1 DEF HandlerReply, InHand, Occupied
    <3> QED BY <2>1, <3>1 DEF HandlerReply
  <2>2. CASE BackendReply(s)
    <3>1. backend[s].client \in Clients
      BY <2>2 DEF BackendReply, InHand, Occupied
    <3> QED BY <2>2, <3>1 DEF BackendReply
  <2> QED BY <2>1, <2>2
<1>5. /\ phase' = [phase EXCEPT ![s][c] = "reading"]
      /\ command' = [command EXCEPT ![s][c] = NoCommand]
  BY <1>4 DEF Receive
<1>6. /\ phase' \in [Server -> [Clients -> Phase]]
      /\ phase'[s][c] = "reading"
      /\ \A x \in Server, y \in Clients :
           x # s \/ y # c => phase'[x][y] = phase[x][y]
  BY <1>3, <1>5, OneCell DEF Phase
<1>7. /\ command' \in [Server ->
           [Clients -> CommandsAt(Nat) \cup {Shutdown, NoCommand}]]
      /\ \A x \in Server, y \in Clients :
           x # s \/ y # c => command'[x][y] = command[x][y]
  BY <1>3, <1>5, OneCell
<1>8. /\ handler' \in [Server -> Worker] /\ backend' \in [Server -> Worker]
      /\ \A x \in Server : Occupied(handler'[x]) /\ Occupied(backend'[x])
  <2>1. CASE HandlerReply(s)
    <3>1. /\ handler' = [handler EXCEPT ![s] = AtRest]
          /\ UNCHANGED backend
      BY <2>1 DEF HandlerReply
    <3> QED BY <1>3, <3>1, OneServer, AtRestType DEF InHand
  <2>2. CASE BackendReply(s)
    <3> DEFINE w == IF backend[s].answer = ErrRedirect
                    THEN [backend[s] EXCEPT !.pc = "close"] ELSE AtRest
    <3>1. /\ backend' = [backend EXCEPT ![s] = w]
          /\ UNCHANGED handler
      BY <2>2 DEF BackendReply
    <3>2. backend[s].pc = "reply"
      BY <2>2 DEF BackendReply
    <3>3. [backend[s] EXCEPT !.pc = "close"] \in Worker
      BY <1>3, PhaseType
    <3>4. Occupied([backend[s] EXCEPT !.pc = "close"])
      <4>1. /\ [backend[s] EXCEPT !.pc = "close"].client = backend[s].client
            /\ [backend[s] EXCEPT !.pc = "close"].command = backend[s].command
        BY <1>3, PhaseType
      <4> QED BY <3>2, <4>1 DEF InHand, Occupied
    <3>5. w \in Worker /\ Occupied(w)
      BY <3>3, <3>4, AtRestType
    <3> HIDE DEF w
    <3> QED BY <1>3, <3>1, <3>5, OneServer DEF InHand
  <2> QED BY <2>1, <2>2
<1>9. InHand'
  <2>1. ASSUME NEW x \in Server, NEW y \in Clients, phase'[x][y] = "submitting"
        PROVE  command'[x][y] \in CommandsAt(Nat) \cup {Shutdown}
    <3>1. x # s \/ y # c
      BY <1>6, <2>1
    <3> QED BY <1>6, <1>7, <2>1, <3>1 DEF InHand
  <2> QED BY <1>8, <2>1 DEF InHand
<1>10. TypeOK'
  BY <1>1, <1>2, <1>6, <1>7, <1>8 DEF TypeOK, Phase
<1> QED BY <1>9, <1>10

\* A server goes down.
LEMMA StopType ==
    ASSUME TypeInv, R!TypeOK', NEW s \in Server, ShutdownByClient(s) \/ Crash(s)
    PROVE  TypeOK' /\ InHand'
<1> USE DEF TypeInv
<1>1. Stop(s)
  BY DEF ShutdownByClient, Crash
<1>2. UNCHANGED <<lines, counter>>
  BY <1>1 DEF Stop
<1>3. /\ [f \in Files |-> NoFile] \in [Files -> File \cup {NoFile}]
      /\ [c \in Clients |-> "none"] \in [Clients -> Phase]
      /\ [c \in Clients |-> NoCommand] \in
           [Clients -> CommandsAt(Nat) \cup {Shutdown, NoCommand}]
  BY DEF Phase
<1>4. data' \in [Server -> [Files -> File \cup {NoFile}]]
  BY <1>1, <1>3 DEF Stop, TypeOK
<1>5. /\ phase' \in [Server -> [Clients -> Phase]]
      /\ \A x \in Server, y \in Clients : phase'[x][y] = "submitting" =>
           x # s /\ phase[x][y] = "submitting"
  <2>1. phase \in [Server -> [Clients -> Phase]]
    BY DEF TypeOK, Phase
  <2>2. phase' = [phase EXCEPT ![s] = [c \in Clients |-> "none"]]
    BY <1>1 DEF Stop
  <2> QED BY <1>3, <2>1, <2>2
<1>6. /\ command' \in
           [Server -> [Clients -> CommandsAt(Nat) \cup {Shutdown, NoCommand}]]
      /\ \A x \in Server : x # s => command'[x] = command[x]
  <2>1. command \in
          [Server -> [Clients -> CommandsAt(Nat) \cup {Shutdown, NoCommand}]]
    BY DEF TypeOK
  <2>2. command' = [command EXCEPT ![s] = [c \in Clients |-> NoCommand]]
    BY <1>1 DEF Stop
  <2> QED BY <1>3, <2>1, <2>2, OneServer
<1>7. /\ connections' \in [Server -> SUBSET Clients]
      /\ main' \in [Server ->
           {"serving", "stopped", "starting", "restoring", "stuck"}]
  BY <1>1 DEF Stop, TypeOK
<1>8. /\ restoring' \in [Server -> Seq(CommandsAt(Nat))]
      /\ appends' \in [Server -> Seq(Entry)]
      /\ commits' \in [Server -> Seq(Commit)]
  <2>1. /\ <<>> \in Seq(CommandsAt(Nat)) /\ <<>> \in Seq(Entry)
        /\ <<>> \in Seq(Commit)
    OBVIOUS
  <2>2. /\ restoring' = [restoring EXCEPT ![s] = <<>>]
        /\ appends' = [appends EXCEPT ![s] = <<>>]
        /\ commits' = [commits EXCEPT ![s] = <<>>]
    BY <1>1 DEF Stop
  <2> QED BY <2>1, <2>2, OneServer DEF TypeOK
<1>9. /\ handler' \in [Server -> Worker] /\ backend' \in [Server -> Worker]
      /\ \A x \in Server : Occupied(handler'[x]) /\ Occupied(backend'[x])
  <2>1. /\ handler' = [handler EXCEPT ![s] = AtRest]
        /\ backend' = [backend EXCEPT ![s] = AtRest]
    BY <1>1 DEF Stop
  <2>2. handler \in [Server -> Worker] /\ backend \in [Server -> Worker]
    BY DEF TypeOK
  <2> QED BY <2>1, <2>2, OneServer, AtRestType DEF InHand
<1>10. InHand'
  BY <1>5, <1>6, <1>9 DEF InHand
<1>11. TypeOK'
  BY <1>2, <1>4, <1>5, <1>6, <1>7, <1>8, <1>9 DEF TypeOK, Phase
<1> QED BY <1>10, <1>11

\* A server comes back.
LEMMA StartType ==
    ASSUME TypeInv, R!TypeOK', NEW s \in Server,
           Start(s) \/ BeginRestore(s) \/ RestoreEntry(s) \/ Serve(s)
    PROVE  TypeOK' /\ InHand'
<1> USE DEF TypeInv
<1>1. UNCHANGED <<parserVars, handler, backend, counter, appends, commits>>
  BY DEF Start, BeginRestore, RestoreEntry, Serve
<1> DEFINE Main == {"serving", "stopped", "starting", "restoring", "stuck"}
<1>2. /\ main \in [Server -> Main]
      /\ data \in [Server -> [Files -> File \cup {NoFile}]]
      /\ restoring \in [Server -> Seq(CommandsAt(Nat))]
  BY DEF TypeOK
<1>3. /\ main' \in [Server -> Main]
      /\ data' \in [Server -> [Files -> File \cup {NoFile}]]
      /\ restoring' \in [Server -> Seq(CommandsAt(Nat))]
  <2>1. CASE Start(s)
    <3>1. /\ main' = [main EXCEPT ![s] = "starting"]
          /\ UNCHANGED <<data, restoring>>
      BY <2>1 DEF Start
    <3> QED BY <1>2, <3>1, OneServer
  <2>2. CASE BeginRestore(s)
    <3> DEFINE q == [k \in 1..Len(log[s]) |-> log[s][k].cmd.command]
    <3>1. log[s] \in Seq(R!LogEntry)
      BY DEF TypeOK, R!TypeOK
    <3>2. Len(log[s]) \in Int
      BY <3>1, LenProperties
    <3>3. ASSUME NEW k \in 1..Len(log[s]) PROVE q[k] \in CommandsAt(Nat)
      <4>1. log[s][k] \in R!LogEntry
        BY <3>1, <3>3, ElementOfSeq
      <4> QED BY <3>3, <4>1 DEF R!LogEntry, Entry
    <3>4. q = [k \in 1..Len(log[s]) |-> q[k]]
      OBVIOUS
    <3>5. /\ main' = [main EXCEPT ![s] = "restoring"]
          /\ restoring' = [restoring EXCEPT ![s] = q]
          /\ UNCHANGED data
      BY <2>2 DEF BeginRestore
    <3> HIDE DEF q
    <3>6. q \in Seq(CommandsAt(Nat))
      BY <3>2, <3>3, <3>4, Indexed
    <3> QED BY <1>2, <3>5, <3>6, OneServer
  <2>3. CASE RestoreEntry(s)
    <3> DEFINE m == Head(restoring[s])
    <3>1. m \in CommandsAt(Nat) /\ Tail(restoring[s]) \in Seq(CommandsAt(Nat))
      BY <1>2, <2>3, HeadTailProperties DEF RestoreEntry
    <3>2. /\ restoring' = [restoring EXCEPT ![s] = Tail(restoring[s])]
          /\ \E t \in Times :
               data' = [data EXCEPT ![s][m.file] =
                          Outcome(m, data[s][m.file], t).entry]
          /\ \/ UNCHANGED main
             \/ main' = [main EXCEPT ![s] = "stuck"]
      BY <1>2, <2>3 DEF RestoreEntry
    <3>3. data' \in [Server -> [Files -> File \cup {NoFile}]]
      BY <3>1, <3>2, MapType
    <3>4. restoring' \in [Server -> Seq(CommandsAt(Nat))]
      BY <1>2, <3>1, <3>2
    <3>5. main' \in [Server -> Main]
      BY <1>2, <3>2
    <3> QED BY <3>3, <3>4, <3>5
  <2>4. CASE Serve(s)
    <3>1. /\ main' = [main EXCEPT ![s] = "serving"]
          /\ UNCHANGED <<data, restoring>>
      BY <2>4 DEF Serve
    <3> QED BY <1>2, <3>1, OneServer
  <2> QED BY <2>1, <2>2, <2>3, <2>4
<1>4. InHand'
  BY <1>1 DEF InHand, parserVars
<1>5. TypeOK'
  BY <1>1, <1>3 DEF TypeOK, parserVars
<1> QED BY <1>4, <1>5

LEMMA NextTypeInv ==
    ASSUME TypeInv, [Next]_vars
    PROVE  TypeInv'
<1> USE DEF TypeInv
<1>1. RaftInv'
  BY StepOfCluster, RaftInvKept
<1>2. R!TypeOK'
  <2>1. RM!TypeOK'
    BY <1>1 DEF RaftInv
  <2>2. (R!TypeOK <=> RM!TypeOK)'
    BY SameTypes, PTL
  <2> QED BY <2>1, <2>2
<1>3. CASE Next
  <2>1. ASSUME NEW s \in Server, NEW c \in Clients,
               \/ Connect(s, c) \/ Parse(s, c) \/ Reject(s, c)
               \/ TakeChange(s, c) \/ TakeRead(s, c) \/ TakeShutdown(s, c)
        PROVE  TypeOK' /\ InHand'
    BY <2>1, ClientStepType, TakeType
  <2>2. ASSUME NEW s \in Server,
               \/ HandlerMap(s) \/ HandlerReply(s) \/ TakeCommit(s)
               \/ BackendMap(s) \/ BackendReply(s) \/ BackendClose(s)
        PROVE  TypeOK' /\ InHand'
    BY <2>2, WorkType, BackendType, ReplyType
  <2>3. ASSUME NEW s \in Server,
               \/ RefuseAppend(s) \/ AcceptAppend(s)
               \/ ShutdownByClient(s) \/ Crash(s) \/ Start(s)
               \/ BeginRestore(s) \/ RestoreEntry(s) \/ Serve(s)
        PROVE  TypeOK' /\ InHand'
    BY <1>2, <2>3, AppendType, StopType, StartType
  <2>4. ClusterStep => TypeOK' /\ InHand'
    BY <1>2, ClusterStepType
  <2> QED BY <1>1, <1>3, <2>1, <2>2, <2>3, <2>4 DEF Next
<1>4. CASE UNCHANGED vars
  <2>1. TypeOK'
    BY <1>2, <1>4 DEF TypeOK, vars, parserVars, workVars
  <2>2. InHand'
    BY <1>4 DEF InHand, vars, parserVars, workVars
  <2> QED BY <1>1, <2>1, <2>2
<1> QED BY <1>3, <1>4

LEMMA InitTypeInv == Init => TypeInv
<1> SUFFICES ASSUME Init PROVE TypeInv
  OBVIOUS
<1>1. RaftInv
  BY RaftInvInit DEF Init
<1>2. R!TypeOK
  BY <1>1, SameTypes DEF RaftInv
<1>3. /\ <<>> \in Seq(CommandsAt(Nat)) /\ <<>> \in Seq(Entry)
      /\ <<>> \in Seq(Commit)
  OBVIOUS
<1>4. TypeOK
  BY <1>2, <1>3, AtRestType, LineAssumption DEF TypeOK, Init
<1>5. InHand
  BY AtRestType DEF InHand, Init
<1> QED BY <1>1, <1>4, <1>5 DEF TypeInv

\* Every variable of the servers and of the cluster holds what its Go variable,
\* channel or goroutine can, through refusals, crashes and restarts.
THEOREM FileServerType == Spec => []TypeOK
<1>1. Init => TypeInv
  BY InitTypeInv
<1>2. TypeInv /\ [Next]_vars => TypeInv'
  BY NextTypeInv
<1>3. TypeInv => TypeOK
  BY DEF TypeInv
<1> QED BY <1>1, <1>2, <1>3, PTL DEF Spec

\* The nodes below the servers run as those of module Raft, so what is proved
\* of a cluster holds of this one: what the servers do with it (server.go:388,
\* 507, by Append and ClientCommitChannel) adds no step of a node.
THEOREM ServersRunRaft == Spec => RM!Spec
<1>1. Init => RM!Init
  BY DEF Init, R!Init, RM!Init, R!ForEach, RM!ForEach, R!FOLLOWER, RM!FOLLOWER
<1>2. TypeInv /\ [Next]_vars => [RM!Next]_(RM!vars)
  BY StepOfCluster DEF TypeInv
<1>3. Init => TypeInv
  BY InitTypeInv
<1>4. TypeInv /\ [Next]_vars => TypeInv'
  BY NextTypeInv
<1> QED BY <1>1, <1>2, <1>3, <1>4, PTL DEF Spec, RM!Spec

-----------------------------------------------------------------------------
(* What a step of the cluster leaves on the commit channels.               *)

LEMMA ConcatParts ==
    ASSUME NEW S, NEW a \in Seq(S), NEW b \in Seq(S), NEW c \in Seq(S)
    PROVE  /\ a \o b \o c \in Seq(S)
           /\ Len(a) \in Nat /\ Len(b) \in Nat /\ Len(c) \in Nat
           /\ Len(a \o b \o c) = Len(a) + Len(b) + Len(c)
           /\ \A k \in 1..Len(a) : (a \o b \o c)[k] = a[k]
           /\ \A k \in 1..Len(b) : (a \o b \o c)[Len(a) + k] = b[k]
           /\ \A k \in 1..Len(c) : (a \o b \o c)[Len(a) + Len(b) + k] = c[k]
<1>1. Len(a) \in Nat /\ Len(b) \in Nat /\ Len(c) \in Nat
  BY LenProperties
<1> DEFINE d == a \o b
<1>2. /\ d \in Seq(S) /\ Len(d) = Len(a) + Len(b)
      /\ \A k \in 1..Len(a) + Len(b) :
           d[k] = IF k <= Len(a) THEN a[k] ELSE b[k - Len(a)]
  BY ConcatProperties
<1> HIDE DEF d
<1>3. /\ d \o c \in Seq(S) /\ Len(d \o c) = Len(d) + Len(c)
      /\ \A k \in 1..Len(d) + Len(c) :
           (d \o c)[k] = IF k <= Len(d) THEN d[k] ELSE c[k - Len(d)]
  <2>1. d \in Seq(S)
    BY <1>2
  <2> QED BY <2>1, ConcatProperties
<1>4. ASSUME NEW k \in 1..Len(a) PROVE (d \o c)[k] = a[k]
  BY <1>1, <1>2, <1>3
<1>5. ASSUME NEW k \in 1..Len(b) PROVE (d \o c)[Len(a) + k] = b[k]
  <2>1. /\ Len(a) + k \in 1..Len(d) + Len(c)
        /\ Len(a) + k \in 1..Len(a) + Len(b)
        /\ Len(a) + k <= Len(d) /\ ~(Len(a) + k <= Len(a))
        /\ Len(a) + k - Len(a) = k
    BY <1>1, <1>2
  <2> QED BY <1>2, <1>3, <2>1
<1>6. ASSUME NEW k \in 1..Len(c) PROVE (d \o c)[Len(a) + Len(b) + k] = c[k]
  <2>1. /\ Len(a) + Len(b) + k \in 1..Len(d) + Len(c)
        /\ ~(Len(a) + Len(b) + k <= Len(d))
        /\ Len(a) + Len(b) + k - Len(d) = k
    BY <1>1, <1>2
  <2> QED BY <1>3, <2>1
<1>7. Len(d \o c) = Len(a) + Len(b) + Len(c)
  BY <1>1, <1>2, <1>3
<1> QED BY <1>1, <1>3, <1>4, <1>5, <1>6, <1>7 DEF d

\* How many commands node s delivers in a step, and how many it refuses.
Pushed(s) == Len(delivered'[s]) - Len(delivered[s])

StepsDown(s) == role[s] = "LEADER" /\ role'[s] = "FOLLOWER"

LEMMA CommitsAfter ==
    ASSUME TypeInv, TypeInv', ClusterStep, NEW s \in Server
    PROVE  /\ Pushed(s) \in Nat /\ Len(Refused(s)) \in Nat
           /\ Len(commits[s]) \in Nat
           /\ Len(commits'[s]) =
                Len(commits[s]) + Pushed(s) + Len(Refused(s))
           /\ \A k \in 1..Len(commits[s]) : commits'[s][k] = commits[s][k]
           /\ \A k \in 1..Pushed(s) :
                commits'[s][Len(commits[s]) + k] =
                  [entry |-> delivered'[s][Len(delivered[s]) + k],
                   err |-> FALSE]
           /\ \A k \in 1..Len(Refused(s)) :
                /\ commits'[s][Len(commits[s]) + Pushed(s) + k] =
                     [entry |-> log[s][commitIndex[s] + k].cmd, err |-> TRUE]
                /\ StepsDown(s)
                /\ commitIndex[s] + k \in commitIndex[s] + 1..Len(log[s])
<1> DEFINE a == commits[s]
           b == Delivered(s)
           c == Refused(s)
<1>1. TypeOK /\ TypeOK' /\ RM!TypeOK /\ RM!TypeOK' /\ RM!SubmittedInv
      /\ R!TypeOK'
  BY DEF TypeInv, RaftInv, TypeOK
<1>2. a \in Seq(Commit) /\ b \in Seq(Commit) /\ c \in Seq(Commit)
  BY <1>1, PushedType DEF TypeOK
<1>3. commits'[s] = a \o b \o c
  BY DEF ClusterStep
<1>4. /\ Len(delivered[s]) \in Nat /\ Len(delivered'[s]) \in Nat
      /\ Len(delivered[s]) <= Len(delivered'[s])
  <2>1. delivered[s] \in Seq(Entry) /\ delivered'[s] \in Seq(Entry)
    BY <1>1 DEF RM!TypeOK
  <2>2. RM!Begins(delivered[s], delivered'[s])
    BY <1>1, ClusterStepRuns, RaftAssumptions, RM!RunPushes
  <2> QED BY <2>1, <2>2, LenProperties DEF RM!Begins
<1>5. Pushed(s) \in Nat
  BY <1>4 DEF Pushed
<1>6. /\ Len(b) = Pushed(s)
      /\ \A k \in 1..Pushed(s) :
           b[k] = [entry |-> delivered'[s][Len(delivered[s]) + k],
                   err |-> FALSE]
  <2>1. b = [k \in 1..Pushed(s) |->
               [entry |-> delivered'[s][Len(delivered[s]) + k],
                err |-> FALSE]]
    BY DEF Delivered, Pushed
  <2>2. DOMAIN b = 1..Len(b) /\ Len(b) \in Nat
    BY <1>2, LenProperties
  <2>3. DOMAIN b = 1..Pushed(s)
    BY <2>1
  <2>4. \A m, n \in Nat : 1..m = 1..n => m = n
    <3>1. \A m, n \in Nat : m < n => n \in 1..n /\ n \notin 1..m
      OBVIOUS
    <3> QED BY <3>1
  <2>5. Len(b) = Pushed(s)
    <3> HIDE DEF b
    <3> QED BY <1>5, <2>2, <2>3, <2>4
  <2> QED BY <2>1, <2>5
<1>7. ASSUME NEW k \in 1..Len(c)
      PROVE  /\ c[k] = [entry |-> log[s][commitIndex[s] + k].cmd, err |-> TRUE]
             /\ StepsDown(s)
             /\ commitIndex[s] + k \in commitIndex[s] + 1..Len(log[s])
  <2>1. DOMAIN c = 1..Len(c)
    BY <1>2, LenProperties
  <2>2. k \in DOMAIN c
    BY <2>1
  <2>3. StepsDown(s)
    <3>1. ASSUME ~StepsDown(s) PROVE FALSE
      <4>1. c = <<>>
        BY <3>1 DEF Refused, StepsDown
      <4>2. Len(c) = 0
        BY <4>1
      <4> HIDE DEF c
      <4> QED BY <4>2
    <3> QED BY <3>1
  <2>4. c = [h \in 1..(Len(log[s]) - commitIndex[s]) |->
               [entry |-> log[s][commitIndex[s] + h].cmd, err |-> TRUE]]
    BY <2>3 DEF Refused, StepsDown
  <2>5. k \in 1..(Len(log[s]) - commitIndex[s])
    BY <2>2, <2>4
  <2>6. /\ log[s] \in Seq(R!LogEntry) /\ commitIndex[s] \in Nat
    BY <1>1 DEF TypeOK, R!TypeOK
  <2>7. Len(log[s]) \in Nat
    BY <2>6, LenProperties
  <2>8. commitIndex[s] + k \in commitIndex[s] + 1..Len(log[s])
    BY <2>5, <2>6, <2>7
  <2> QED BY <2>3, <2>4, <2>5, <2>8
<1> HIDE DEF a, b, c
<1>8. /\ Len(a) \in Nat /\ Len(b) \in Nat /\ Len(c) \in Nat
      /\ Len(a \o b \o c) = Len(a) + Len(b) + Len(c)
      /\ \A k \in 1..Len(a) : (a \o b \o c)[k] = a[k]
      /\ \A k \in 1..Len(b) : (a \o b \o c)[Len(a) + k] = b[k]
      /\ \A k \in 1..Len(c) : (a \o b \o c)[Len(a) + Len(b) + k] = c[k]
  BY <1>2, ConcatParts
<1> QED BY <1>3, <1>5, <1>6, <1>7, <1>8 DEF a, c

\* The refusals of a server are told from the commands that it delivers.
LEMMA CommitAt ==
    ASSUME TypeInv, TypeInv', ClusterStep, NEW s \in Server,
           NEW k \in 1..Len(commits'[s])
    PROVE  \/ k \in 1..Len(commits[s]) /\ commits'[s][k] = commits[s][k]
           \/ \E h \in 1..Pushed(s) :
                /\ k = Len(commits[s]) + h
                /\ commits'[s][k] =
                     [entry |-> delivered'[s][Len(delivered[s]) + h],
                      err |-> FALSE]
           \/ \E h \in 1..Len(Refused(s)) :
                /\ k = Len(commits[s]) + Pushed(s) + h
                /\ commits'[s][k] =
                     [entry |-> log[s][commitIndex[s] + h].cmd, err |-> TRUE]
                /\ StepsDown(s)
                /\ commitIndex[s] + h \in commitIndex[s] + 1..Len(log[s])
<1> DEFINE n == Len(commits[s])
           p == Pushed(s)
           r == Len(Refused(s))
<1>1. n \in Nat /\ p \in Nat /\ r \in Nat /\ Len(commits'[s]) = n + p + r
  BY CommitsAfter
<1>2. \/ k \in 1..n
      \/ k - n \in 1..p /\ k = n + (k - n)
      \/ k - n - p \in 1..r /\ k = n + p + (k - n - p)
  <2> HIDE DEF n, p, r
  <2> QED BY <1>1
<1>3. CASE k \in 1..n
  BY <1>3, CommitsAfter
<1>4. CASE k - n \in 1..p /\ k = n + (k - n)
  <2> DEFINE h == k - n
  <2>1. h \in 1..p /\ k = n + h
    BY <1>4
  <2> HIDE DEF h
  <2> QED BY <2>1, CommitsAfter
<1>5. CASE k - n - p \in 1..r /\ k = n + p + (k - n - p)
  <2> DEFINE h == k - n - p
  <2>1. h \in 1..r /\ k = n + p + h
    BY <1>5
  <2> HIDE DEF h
  <2> QED BY <2>1, CommitsAfter
<1> QED BY <1>2, <1>3, <1>4, <1>5

-----------------------------------------------------------------------------
(* What is executed comes from the log.                                    *)

FromLog ==
    /\ \A s \in Server : \A k \in 1..Len(commits[s]) :
         ~commits[s][k].err => commits[s][k].entry \in submitted
    /\ \A s \in Server : backend[s].pc = "map" =>
         \E e \in submitted : e.command = backend[s].command

\* What a worker finds out at the map, and its step there.
OutcomeAt(s, m, t) == Outcome(m, data[s][m.file], t)

LEMMA MapSteps ==
    ASSUME NEW s
    PROVE  /\ HandlerMap(s) => \E t \in Times :
                /\ data' = [data EXCEPT ![s][handler[s].command.file] =
                              OutcomeAt(s, handler[s].command, t).entry]
                /\ handler' = [handler EXCEPT ![s] = AfterMap(s, handler[s],
                                 OutcomeAt(s, handler[s].command, t))]
           /\ BackendMap(s) => \E t \in Times :
                /\ data' = [data EXCEPT ![s][backend[s].command.file] =
                              OutcomeAt(s, backend[s].command, t).entry]
                /\ backend' = [backend EXCEPT ![s] = AfterMap(s, backend[s],
                                 OutcomeAt(s, backend[s].command, t))]
BY DEF HandlerMap, BackendMap, OutcomeAt

\* AtRest, Sending and what follows an answer are not at the map.
LEMMA NotAtMap ==
    /\ AtRest.pc # "map"
    /\ \A s, c, m, a : Sending(s, c, m, a).pc # "map"
    /\ \A s, w, o : AfterMap(s, w, o).pc # "map"
BY DEF AtRest, Sending, AfterMap

\* A commit taken leaves the later ones, each one place earlier.
LEMMA TailParts ==
    ASSUME NEW S, NEW q \in Seq(S), q # <<>>
    PROVE  /\ Head(q) = q[1] /\ 1 \in 1..Len(q)
           /\ Tail(q) \in Seq(S) /\ Len(Tail(q)) = Len(q) - 1
           /\ Len(q) \in Nat \ {0}
           /\ \A k \in 1..Len(Tail(q)) :
                Tail(q)[k] = q[k + 1] /\ k + 1 \in 1..Len(q)
<1>1. /\ Head(q) \in S /\ Tail(q) \in Seq(S)
      /\ Len(Tail(q)) = Len(q) - 1
      /\ \A k \in 1..Len(Tail(q)) : Tail(q)[k] = q[k + 1]
  BY HeadTailProperties
<1>2. Len(q) \in Nat /\ Len(q) # 0
  BY LenProperties, EmptySeq
<1>3. Head(q) = q[1]
  BY <1>2
<1> QED BY <1>1, <1>2, <1>3

LEMMA NextFromLog ==
    ASSUME TypeInv, TypeInv', FromLog, [Next]_vars
    PROVE  FromLog'
<1>1. TypeOK /\ backend \in [Server -> Worker]
      /\ commits \in [Server -> Seq(Commit)]
  BY DEF TypeInv, TypeOK
<1>2. CASE UNCHANGED <<submitted, commits, backend>>
  BY <1>2 DEF FromLog
<1>3. ASSUME NEW s \in Server, NEW c \in Clients,
             \/ Connect(s, c) \/ Parse(s, c) \/ Reject(s, c)
             \/ TakeChange(s, c) \/ TakeRead(s, c) \/ TakeShutdown(s, c)
      PROVE  UNCHANGED <<submitted, commits, backend>>
  BY <1>3 DEF Connect, Parse, Reject, TakeLine, TakeChange, TakeRead,
              TakeShutdown, Take, raftVars, workVars
<1>4. ASSUME NEW s \in Server,
             \/ HandlerMap(s) \/ HandlerReply(s) \/ Start(s)
             \/ BeginRestore(s) \/ RestoreEntry(s) \/ Serve(s)
      PROVE  UNCHANGED <<submitted, commits, backend>>
  <2>1. Start(s) => UNCHANGED submitted
    BY DEF Start, R!New, R!histVars
  <2> QED BY <1>4, <2>1
          DEF HandlerMap, HandlerReply, Start, BeginRestore, RestoreEntry,
              Serve, raftVars
<1>5. ASSUME NEW s \in Server,
             BackendMap(s) \/ BackendReply(s) \/ BackendClose(s)
      PROVE  FromLog'
  <2>1. UNCHANGED <<submitted, commits>>
    BY <1>5 DEF BackendMap, BackendReply, BackendClose, raftVars
  <2>2. \E w : backend' = [backend EXCEPT ![s] = w] /\ w.pc # "map"
    <3>1. CASE BackendMap(s)
      <4>1. PICK t \in Times : backend' = [backend EXCEPT ![s] =
              AfterMap(s, backend[s], OutcomeAt(s, backend[s].command, t))]
        BY <3>1, MapSteps
      <4> QED BY <4>1, NotAtMap
    <3>2. CASE BackendReply(s)
      <4>1. [backend[s] EXCEPT !.pc = "close"].pc = "close"
        BY <1>1, PhaseType
      <4> QED BY <3>2, <4>1, NotAtMap DEF BackendReply
    <3>3. CASE BackendClose(s)
      BY <3>3, NotAtMap DEF BackendClose
    <3> QED BY <1>5, <3>1, <3>2, <3>3
  <2> QED BY <1>1, <2>1, <2>2 DEF FromLog
<1>6. ASSUME NEW s \in Server, TakeCommit(s) PROVE FromLog'
  <2>1. /\ commits[s] \in Seq(Commit) /\ commits[s] # <<>>
        /\ commits' = [commits EXCEPT ![s] = Tail(commits[s])]
        /\ UNCHANGED submitted
    BY <1>1, <1>6 DEF TakeCommit, raftVars
  <2>2. /\ Head(commits[s]) = commits[s][1] /\ 1 \in 1..Len(commits[s])
        /\ \A k \in 1..Len(Tail(commits[s])) :
             /\ Tail(commits[s])[k] = commits[s][k + 1]
             /\ k + 1 \in 1..Len(commits[s])
    BY <2>1, TailParts
  <2>3. ASSUME NEW x \in Server, NEW k \in 1..Len(commits'[x]),
               ~commits'[x][k].err
        PROVE  commits'[x][k].entry \in submitted
    BY <1>1, <2>1, <2>2, <2>3 DEF FromLog
  <2>4. ASSUME NEW x \in Server, backend'[x].pc = "map"
        PROVE  \E e \in submitted : e.command = backend'[x].command
    <3>1. CASE x = s
      <4> DEFINE h == Head(commits[s])
      <4>1. ~h.err /\ backend'[s].command = h.entry.command
        BY <1>1, <1>6, <2>4, <3>1, NotAtMap DEF TakeCommit, Executing
      <4>2. h.entry \in submitted
        BY <2>2, <4>1 DEF FromLog
      <4> QED BY <3>1, <4>1, <4>2
    <3>2. CASE x # s
      BY <1>1, <1>6, <2>4, <3>2 DEF TakeCommit, FromLog
    <3> QED BY <3>1, <3>2
  <2> QED BY <2>1, <2>3, <2>4 DEF FromLog
<1>7. ASSUME NEW s \in Server, RefuseAppend(s) \/ AcceptAppend(s)
      PROVE  FromLog'
  <2>1. UNCHANGED backend /\ submitted \subseteq submitted'
    BY <1>7 DEF RefuseAppend, AcceptAppend, workVars, raftVars,
                R!LeaderAppendEvent
  <2>2. CASE UNCHANGED commits
    BY <2>1, <2>2 DEF FromLog
  <2>3. CASE RefuseAppend(s)
    <3> DEFINE m == [entry |-> Head(appends[s]), err |-> TRUE]
    <3>1. m \in Commit
      <4>1. Head(appends[s]) \in Entry
        BY <1>1, <2>3, HeadTailProperties DEF RefuseAppend, TypeOK
      <4> QED BY <4>1 DEF Commit
    <3>2. m.err
      OBVIOUS
    <3>3. commits' = [commits EXCEPT ![s] = Append(commits[s], m)]
      BY <2>3 DEF RefuseAppend
    <3> HIDE DEF m
    <3>4. /\ Len(Append(commits[s], m)) = Len(commits[s]) + 1
          /\ \A k \in 1..Len(commits[s]) :
               Append(commits[s], m)[k] = commits[s][k]
          /\ Append(commits[s], m)[Len(commits[s]) + 1] = m
          /\ Len(commits[s]) \in Nat
      BY <1>1, <3>1, AppendProperties, LenProperties
    <3>5. ASSUME NEW x \in Server, NEW k \in 1..Len(commits'[x]),
                 ~commits'[x][k].err
          PROVE  k \in 1..Len(commits[x]) /\ commits'[x][k] = commits[x][k]
      BY <1>1, <3>2, <3>3, <3>4, <3>5
    <3> QED BY <2>1, <3>5 DEF FromLog
  <2>4. CASE AcceptAppend(s)
    BY <2>2, <2>4 DEF AcceptAppend
  <2> QED BY <1>7, <2>3, <2>4
<1>8. ASSUME NEW s \in Server, ShutdownByClient(s) \/ Crash(s)
      PROVE  FromLog'
  <2>1. /\ UNCHANGED submitted
        /\ backend' = [backend EXCEPT ![s] = AtRest]
        /\ commits' = [commits EXCEPT ![s] = <<>>]
    BY <1>8 DEF ShutdownByClient, Crash, Stop, R!Shutdown
  <2>2. Len(<<>>) = 0
    OBVIOUS
  <2> QED BY <1>1, <2>1, <2>2, NotAtMap DEF FromLog
<1>9. CASE ClusterStep
  <2>1. UNCHANGED <<submitted, backend>>
    <3>1. RM!TypeOK /\ RM!TypeOK' /\ RM!SubmittedInv
      BY DEF TypeInv, RaftInv
    <3> QED BY <1>9, <3>1, ClusterStepRuns, RaftAssumptions, RM!RunPushes
            DEF ClusterStep, workVars
  <2>2. ASSUME NEW s \in Server, NEW h \in 1..Pushed(s)
        PROVE  delivered'[s][Len(delivered[s]) + h] \in submitted'
    <3>1. /\ delivered'[s] \in Seq(submitted') /\ delivered[s] \in Seq(Entry)
      BY DEF TypeInv, RaftInv, RM!SubmittedInv, RM!TypeOK
    <3>2. Len(delivered'[s]) \in Nat /\ Len(delivered[s]) \in Nat
      BY <3>1, LenProperties
    <3>3. Len(delivered[s]) + h \in 1..Len(delivered'[s])
      BY <3>2 DEF Pushed
    <3> QED BY <3>1, <3>3, ElementOfSeq
  <2>3. ASSUME NEW s \in Server, NEW k \in 1..Len(commits'[s]),
               ~commits'[s][k].err
        PROVE  commits'[s][k].entry \in submitted'
    <3>1. CASE k \in 1..Len(commits[s]) /\ commits'[s][k] = commits[s][k]
      BY <2>1, <2>3, <3>1 DEF FromLog
    <3>2. CASE \E h \in 1..Pushed(s) :
                 commits'[s][k] =
                   [entry |-> delivered'[s][Len(delivered[s]) + h],
                    err |-> FALSE]
      BY <2>2, <3>2
    <3>3. CASE \E h \in 1..Len(Refused(s)) :
                 commits'[s][k] =
                   [entry |-> log[s][commitIndex[s] + h].cmd, err |-> TRUE]
      BY <2>3, <3>3
    <3> QED BY <1>9, <3>1, <3>2, <3>3, CommitAt
  <2> QED BY <2>1, <2>3 DEF FromLog
<1> QED BY <1>2, <1>3, <1>4, <1>5, <1>6, <1>7, <1>8, <1>9
        DEF Next, vars, raftVars, workVars

-----------------------------------------------------------------------------
(* Whoever sends an answer has someone waiting for it.                     *)

(* A command that a client of server s gave is in one place until it is    *)
(* answered: with the handler, on its way to the node, in the log of the   *)
(* leader, on the way back or with the backend.  A follower executes what  *)
(* it delivers for nobody.                                                 *)
Kinds == {"handler", "append", "log", "commit", "backend"}

Holds(s, a, k) ==
    \/ a = "handler" /\ k = 0 /\ handler[s].pc \in {"map", "reply", "stuck"}
    \/ a = "append" /\ k \in 1..Len(appends[s])
    \/ /\ a = "log" /\ role[s] = "LEADER"
       /\ k \in commitIndex[s] + 1..Len(log[s])
    \/ /\ a = "commit" /\ k \in 1..Len(commits[s])
       /\ commits[s][k].err \/ role[s] = "LEADER"
    \/ /\ a = "backend" /\ k = 0
       /\ \/ backend[s].pc \in {"reply", "stuck"}
          \/ backend[s].pc = "map" /\ backend[s].sendReply

Item(s, a, k) ==
    CASE a = "handler" -> handler[s]
      [] a = "append"  -> appends[s][k]
      [] a = "log"     -> log[s][k].cmd
      [] a = "commit"  -> commits[s][k].entry
      [] a = "backend" -> backend[s]

Waiting(s) ==
    \A a \in Kinds, k \in Nat : Holds(s, a, k) =>
        /\ phase[s][Item(s, a, k).client] = "awaiting"
        /\ command[s][Item(s, a, k).client] = Item(s, a, k).command

Alone(s) ==
    \A a, b \in Kinds, k, l \in Nat :
        /\ Holds(s, a, k) /\ Holds(s, b, l)
        /\ Item(s, a, k).client = Item(s, b, l).client
        => a = b /\ k = l

SteadyInv ==
    Steady =>
      /\ elected = {} =>
           \A s \in Server : \A k \in 1..Len(commits[s]) : commits[s][k].err
      /\ \A s \in Server : Waiting(s) /\ Alone(s)

LEMMA ItemOf ==
    ASSUME NEW s, NEW k
    PROVE  /\ Item(s, "handler", k) = handler[s]
           /\ Item(s, "append", k) = appends[s][k]
           /\ Item(s, "log", k) = log[s][k].cmd
           /\ Item(s, "commit", k) = commits[s][k].entry
           /\ Item(s, "backend", k) = backend[s]
           /\ Item(s, "handler", k)' = handler'[s]
           /\ Item(s, "append", k)' = appends'[s][k]
           /\ Item(s, "log", k)' = log'[s][k].cmd
           /\ Item(s, "commit", k)' = commits'[s][k].entry
           /\ Item(s, "backend", k)' = backend'[s]
BY DEF Item

\* A step moves the command in place k of a to place N[a][k] of K[a][k], read
\* backwards; nobody whose command is moved is told anything.
Moves(s, K, N) ==
    /\ \A a \in Kinds, k \in Nat : Holds(s, a, k)' =>
         /\ K[a][k] \in Kinds /\ N[a][k] \in Nat
         /\ Holds(s, K[a][k], N[a][k])
         /\ Item(s, a, k)'.client = Item(s, K[a][k], N[a][k]).client
         /\ Item(s, a, k)'.command = Item(s, K[a][k], N[a][k]).command
         /\ phase'[s][Item(s, a, k)'.client] = phase[s][Item(s, a, k)'.client]
         /\ command'[s][Item(s, a, k)'.client] =
              command[s][Item(s, a, k)'.client]
    /\ \A a, b \in Kinds, k, l \in Nat :
         /\ Holds(s, a, k)' /\ Holds(s, b, l)'
         /\ K[a][k] = K[b][l] /\ N[a][k] = N[b][l]
         => a = b /\ k = l

LEMMA Moved ==
    ASSUME NEW s, Waiting(s), Alone(s), NEW K, NEW N, Moves(s, K, N)
    PROVE  Waiting(s)' /\ Alone(s)'
<1>1. Waiting(s)'
  BY DEF Waiting, Moves
<1>2. Alone(s)'
  <2>1. ASSUME NEW a \in Kinds, NEW b \in Kinds, NEW k \in Nat, NEW l \in Nat,
               Holds(s, a, k)', Holds(s, b, l)',
               Item(s, a, k)'.client = Item(s, b, l)'.client
        PROVE  a = b /\ k = l
    <3>1. K[a][k] = K[b][l] /\ N[a][k] = N[b][l]
      BY <2>1 DEF Alone, Moves
    <3> QED BY <2>1, <3>1 DEF Moves
  <2> QED BY <2>1 DEF Alone
<1> QED BY <1>1, <1>2

\* A step moves nothing, and may take commands away.
LEMMA Stays ==
    ASSUME NEW s, Waiting(s), Alone(s),
           \A a \in Kinds, k \in Nat : Holds(s, a, k)' =>
             /\ Holds(s, a, k)
             /\ Item(s, a, k)'.client = Item(s, a, k).client
             /\ Item(s, a, k)'.command = Item(s, a, k).command
             /\ phase'[s][Item(s, a, k)'.client] =
                  phase[s][Item(s, a, k)'.client]
             /\ command'[s][Item(s, a, k)'.client] =
                  command[s][Item(s, a, k)'.client]
    PROVE  Waiting(s)' /\ Alone(s)'
<1>1. Waiting(s)'
  BY DEF Waiting
<1>2. Alone(s)'
  BY DEF Alone
<1> QED BY <1>1, <1>2

\* A step puts the command of client c, for which no answer was awaited, in
\* place j of d.
LEMMA Arrives ==
    ASSUME NEW s, Waiting(s), Alone(s), NEW c, NEW d, NEW j,
           phase[s][c] # "awaiting", phase'[s][c] = "awaiting",
           UNCHANGED command,
           \A a \in Kinds, k \in Nat : Holds(s, a, k)' =>
             \/ /\ a = d /\ k = j
                /\ Item(s, a, k)'.client = c
                /\ Item(s, a, k)'.command = command[s][c]
             \/ /\ Holds(s, a, k)
                /\ Item(s, a, k)'.client = Item(s, a, k).client
                /\ Item(s, a, k)'.command = Item(s, a, k).command
                /\ Item(s, a, k)'.client # c =>
                     phase'[s][Item(s, a, k)'.client] =
                       phase[s][Item(s, a, k)'.client]
    PROVE  Waiting(s)' /\ Alone(s)'
<1>1. ASSUME NEW a \in Kinds, NEW k \in Nat, Holds(s, a, k)'
      PROVE  \/ /\ a = d /\ k = j
                /\ Item(s, a, k)'.client = c
                /\ Item(s, a, k)'.command = command[s][c]
             \/ /\ Holds(s, a, k)
                /\ Item(s, a, k)'.client = Item(s, a, k).client
                /\ Item(s, a, k)'.command = Item(s, a, k).command
                /\ Item(s, a, k)'.client # c
                /\ phase'[s][Item(s, a, k)'.client] =
                     phase[s][Item(s, a, k)'.client]
  BY <1>1 DEF Waiting
<1>2. Waiting(s)'
  BY <1>1 DEF Waiting
<1>3. Alone(s)'
  <2>1. ASSUME NEW a \in Kinds, NEW b \in Kinds, NEW k \in Nat, NEW l \in Nat,
               Holds(s, a, k)', Holds(s, b, l)',
               Item(s, a, k)'.client = Item(s, b, l)'.client
        PROVE  a = b /\ k = l
    BY <1>1, <2>1 DEF Alone
  <2> QED BY <2>1 DEF Alone
<1> QED BY <1>2, <1>3

\* Nothing happens at a server.
LEMMA Elsewhere ==
    ASSUME NEW s, Waiting(s), Alone(s),
           UNCHANGED <<handler[s], backend[s], appends[s], log[s], role[s],
                       commitIndex[s], commits[s], phase[s], command[s]>>
    PROVE  Waiting(s)' /\ Alone(s)'
<1>1. ASSUME NEW a \in Kinds, NEW k \in Nat
      PROVE  /\ Holds(s, a, k)' = Holds(s, a, k)
             /\ Item(s, a, k)' = Item(s, a, k)
  BY DEF Holds, Item, Kinds
<1> QED BY <1>1, Stays

\* Who went down is counted, and who is down did.
LEMMA NoFailure ==
    ASSUME TypeInv, TypeInv', [Next]_vars, powerOffs' = 0
    PROVE  /\ powerOffs = 0
           /\ \A s \in Server : ~ShutdownByClient(s) /\ ~Crash(s) /\ ~Start(s)
<1>1. /\ RM!TypeOK /\ RM!TypeOK' /\ RM!SoloInv /\ RM!SubmittedInv
      /\ powerOffs \in Nat
  BY DEF TypeInv, RaftInv, RM!TypeOK
<1>2. ASSUME NEW s \in Server, ShutdownByClient(s) \/ Crash(s) PROVE FALSE
  <2>1. powerOffs' = powerOffs + 1
    BY <1>2 DEF ShutdownByClient, Crash, Stop, R!Shutdown
  <2> QED BY <1>1, <2>1
<1>3. ASSUME NEW s \in Server, Start(s) PROVE FALSE
  <2>1. role[s] = "POWEROFF" /\ UNCHANGED powerOffs
    BY <1>3 DEF Start, R!New, R!POWEROFF, R!histVars
  <2> QED BY <1>1, <2>1 DEF RM!SoloInv, RM!ElectedInv, RM!POWEROFF
<1>4. CASE ClusterStep
  <2>1. UNCHANGED powerOffs
    BY <1>1, <1>4, ClusterStepRuns, RaftAssumptions, RM!RunPushes
  <2> QED BY <1>2, <1>3, <2>1
<1>5. ASSUME NEW s \in Server, AcceptAppend(s) PROVE UNCHANGED powerOffs
  BY <1>5 DEF AcceptAppend, R!LeaderAppendEvent
<1>6. ASSUME NEW s \in Server, NEW c \in Clients,
             \/ Connect(s, c) \/ Parse(s, c) \/ Reject(s, c)
             \/ TakeChange(s, c) \/ TakeRead(s, c) \/ TakeShutdown(s, c)
      PROVE  UNCHANGED powerOffs
  BY <1>6 DEF Connect, Parse, Reject, TakeLine, TakeChange, TakeRead,
              TakeShutdown, Take, raftVars
<1>7. ASSUME NEW s \in Server,
             \/ HandlerMap(s) \/ HandlerReply(s) \/ RefuseAppend(s)
             \/ TakeCommit(s) \/ BackendMap(s) \/ BackendReply(s)
             \/ BackendClose(s) \/ BeginRestore(s) \/ RestoreEntry(s)
             \/ Serve(s)
      PROVE  UNCHANGED powerOffs
  BY <1>7 DEF HandlerMap, HandlerReply, RefuseAppend, TakeCommit, BackendMap,
              BackendReply, BackendClose, BeginRestore, RestoreEntry, Serve,
              raftVars
<1>8. UNCHANGED vars => UNCHANGED powerOffs
  BY DEF vars, raftVars
<1> QED BY <1>2, <1>3, <1>4, <1>5, <1>6, <1>7, <1>8 DEF Next

\* What was steady after a step was steady before, and no server went down or
\* came back.
LEMMA SteadyBefore ==
    ASSUME TypeInv, TypeInv', [Next]_vars, Steady'
    PROVE  /\ Steady
           /\ \A s \in Server : ~ShutdownByClient(s) /\ ~Crash(s) /\ ~Start(s)
<1>1. /\ RM!TypeOK /\ RM!TypeOK' /\ RM!SoloInv /\ RM!SubmittedInv
      /\ RM!OneLeader' /\ powerOffs' = 0
  <2>1. RM!OneLeader'
    BY SameCardinality DEF Steady, RM!OneLeader
  <2> QED BY <2>1 DEF TypeInv, RaftInv, Steady
<1>2. /\ powerOffs = 0
      /\ \A s \in Server : ~ShutdownByClient(s) /\ ~Crash(s) /\ ~Start(s)
  BY <1>1, NoFailure
<1>3. ASSUME UNCHANGED elected, submitted \subseteq submitted' PROVE Steady
  BY <1>2, <1>3 DEF Steady
<1>4. CASE ClusterStep
  <2>1. UNCHANGED <<submitted, powerOffs>>
    BY <1>1, <1>4, ClusterStepRuns, RaftAssumptions, RM!RunPushes
  <2>2. RM!OneLeader
    BY <1>1, <1>4, <2>1, ClusterStepRuns, RaftAssumptions, RM!RunOneLeader
  <2>3. Steady
    BY <2>1, <2>2, SameCardinality DEF Steady, RM!OneLeader
  <2> QED BY <1>2, <2>3
<1>5. ASSUME NEW s \in Server, AcceptAppend(s)
      PROVE  UNCHANGED elected /\ submitted \subseteq submitted'
  BY <1>5 DEF AcceptAppend, R!LeaderAppendEvent
<1>6. ASSUME NEW s \in Server, NEW c \in Clients,
             \/ Connect(s, c) \/ Parse(s, c) \/ Reject(s, c)
             \/ TakeChange(s, c) \/ TakeRead(s, c) \/ TakeShutdown(s, c)
      PROVE  UNCHANGED raftVars
  BY <1>6 DEF Connect, Parse, Reject, TakeLine, TakeChange, TakeRead,
              TakeShutdown, Take
<1>7. ASSUME NEW s \in Server,
             \/ HandlerMap(s) \/ HandlerReply(s) \/ RefuseAppend(s)
             \/ TakeCommit(s) \/ BackendMap(s) \/ BackendReply(s)
             \/ BackendClose(s) \/ BeginRestore(s) \/ RestoreEntry(s)
             \/ Serve(s)
      PROVE  UNCHANGED raftVars
  BY <1>7 DEF HandlerMap, HandlerReply, RefuseAppend, TakeCommit, BackendMap,
              BackendReply, BackendClose, BeginRestore, RestoreEntry, Serve
<1>8. UNCHANGED vars => UNCHANGED raftVars
  BY DEF vars
<1>9. UNCHANGED raftVars => UNCHANGED elected /\ submitted \subseteq submitted'
  BY DEF raftVars
<1> QED BY <1>2, <1>3, <1>4, <1>5, <1>6, <1>7, <1>8, <1>9 DEF Next

LEMMA HeldClient ==
    ASSUME TypeInv, NEW x \in Server, NEW a \in Kinds, NEW k \in Nat,
           Holds(x, a, k)
    PROVE  Item(x, a, k).client \in Clients
<1>1. CASE a = "handler"
  BY <1>1, ItemOf DEF Holds, TypeInv, InHand, Occupied
<1>2. CASE a = "append"
  <2>1. appends[x] \in Seq(Entry) /\ k \in 1..Len(appends[x])
    BY <1>2 DEF Holds, TypeInv, TypeOK
  <2>2. appends[x][k] \in Entry
    BY <2>1, ElementOfSeq
  <2> QED BY <1>2, <2>2, ItemOf DEF Entry
<1>3. CASE a = "log"
  <2>1. /\ log[x] \in Seq(R!LogEntry) /\ commitIndex[x] \in Nat
        /\ k \in commitIndex[x] + 1..Len(log[x])
    BY <1>3 DEF Holds, TypeInv, TypeOK, R!TypeOK
  <2>2. k \in 1..Len(log[x])
    BY <2>1, LenProperties
  <2>3. log[x][k] \in R!LogEntry
    BY <2>1, <2>2, ElementOfSeq
  <2> QED BY <1>3, <2>3, ItemOf DEF Entry, R!LogEntry
<1>4. CASE a = "commit"
  <2>1. commits[x] \in Seq(Commit) /\ k \in 1..Len(commits[x])
    BY <1>4 DEF Holds, TypeInv, TypeOK
  <2>2. commits[x][k] \in Commit
    BY <2>1, ElementOfSeq
  <2> QED BY <1>4, <2>2, ItemOf DEF Entry, Commit
<1>5. CASE a = "backend"
  BY <1>5, ItemOf DEF Holds, TypeInv, InHand, Occupied
<1> QED BY <1>1, <1>2, <1>3, <1>4, <1>5 DEF Kinds

\* Connections that nobody waits at may do what they like.
LEMMA ClientStepWaiting ==
    ASSUME TypeInv, NEW s \in Server, NEW c \in Clients,
           \A x \in Server : Waiting(x) /\ Alone(x),
           Connect(s, c) \/ Parse(s, c) \/ Reject(s, c) \/ TakeShutdown(s, c)
    PROVE  \A x \in Server : Waiting(x)' /\ Alone(x)'
<1>1. /\ phase \in [Server -> [Clients -> Phase]]
      /\ handler \in [Server -> Worker]
      /\ command \in [Server ->
           [Clients -> CommandsAt(Nat) \cup {Shutdown, NoCommand}]]
  BY DEF TypeInv, TypeOK, Phase
<1>2. UNCHANGED <<backend, appends, log, role, commitIndex, commits>>
  BY DEF Connect, Parse, Reject, TakeLine, TakeShutdown, Take, raftVars,
         workVars
<1>3. phase[s][c] # "awaiting"
  BY DEF Connect, Parse, Reject, TakeLine, TakeShutdown, Take
<1>4. \A x \in Server, y \in Clients : x # s \/ y # c =>
        phase'[x][y] = phase[x][y] /\ command'[x][y] = command[x][y]
  <2>1. /\ \/ UNCHANGED phase
           \/ \E p \in Phase : phase' = [phase EXCEPT ![s][c] = p]
        /\ \/ UNCHANGED command
           \/ \E m : command' = [command EXCEPT ![s][c] = m]
    BY DEF Connect, Parse, Reject, TakeLine, TakeShutdown, Take, Phase
  <2>2. ASSUME NEW m, command' = [command EXCEPT ![s][c] = m],
               NEW x \in Server, NEW y \in Clients, x # s \/ y # c
        PROVE  command'[x][y] = command[x][y]
    BY <1>1, <2>2
  <2>3. ASSUME NEW p \in Phase, phase' = [phase EXCEPT ![s][c] = p],
               NEW x \in Server, NEW y \in Clients, x # s \/ y # c
        PROVE  phase'[x][y] = phase[x][y]
    BY <1>1, <2>3
  <2> QED BY <2>1, <2>2, <2>3
<1>5. ASSUME NEW x \in Server
      PROVE  \/ handler'[x] = handler[x]
             \/ handler'[x].pc = "done"
  <2>1. CASE TakeShutdown(s, c)
    <3>1. [handler[s] EXCEPT !.pc = "done"].pc = "done"
      BY <1>1, PhaseType
    <3>2. handler' = [handler EXCEPT ![s] = [handler[s] EXCEPT !.pc = "done"]]
      BY <2>1 DEF TakeShutdown
    <3> QED BY <1>1, <3>1, <3>2
  <2>2. CASE ~TakeShutdown(s, c)
    BY <2>2 DEF Connect, Parse, Reject, TakeLine, workVars
  <2> QED BY <2>1, <2>2
<1> SUFFICES ASSUME NEW x \in Server PROVE Waiting(x)' /\ Alone(x)'
  OBVIOUS
<1>6. ASSUME NEW a \in Kinds, NEW k \in Nat, Holds(x, a, k)'
      PROVE  Holds(x, a, k) /\ Item(x, a, k)' = Item(x, a, k)
  BY <1>2, <1>5, <1>6 DEF Holds, Item, Kinds
<1>7. ASSUME NEW a \in Kinds, NEW k \in Nat, Holds(x, a, k)'
      PROVE  /\ phase'[x][Item(x, a, k)'.client] =
                  phase[x][Item(x, a, k)'.client]
             /\ command'[x][Item(x, a, k)'.client] =
                  command[x][Item(x, a, k)'.client]
  <2>1. Item(x, a, k).client \in Clients
    BY <1>6, <1>7, HeldClient
  <2>2. phase[x][Item(x, a, k).client] = "awaiting"
    BY <1>6, <1>7 DEF Waiting
  <2>3. x # s \/ Item(x, a, k).client # c
    BY <1>3, <2>2
  <2> QED BY <1>4, <1>6, <1>7, <2>1, <2>3
<1> QED BY <1>6, <1>7, Stays

\* The handler takes a command, and works on the map for it.
LEMMA HandlerWaiting ==
    ASSUME TypeInv, NEW s \in Server,
           \A x \in Server : Waiting(x) /\ Alone(x),
           \/ HandlerMap(s) \/ HandlerReply(s)
           \/ \E c \in Clients : TakeChange(s, c) \/ TakeRead(s, c)
    PROVE  \A x \in Server : Waiting(x)' /\ Alone(x)'
<1>1. /\ phase \in [Server -> [Clients -> Phase]]
      /\ handler \in [Server -> Worker]
      /\ appends \in [Server -> Seq(Entry)]
      /\ command \in [Server ->
           [Clients -> CommandsAt(Nat) \cup {Shutdown, NoCommand}]]
  BY DEF TypeInv, TypeOK, Phase
<1>2. UNCHANGED <<backend, log, role, commitIndex, commits>>
  BY DEF HandlerMap, HandlerReply, TakeChange, TakeRead, Take, raftVars
<1>3. CASE HandlerMap(s)
  <2>1. UNCHANGED <<appends, phase, command>>
    BY <1>3 DEF HandlerMap, parserVars
  <2>2. PICK o : handler' = [handler EXCEPT ![s] = AfterMap(s, handler[s], o)]
    BY <1>3, MapSteps
  <2>3. handler[s].pc = "map" /\ Holds(s, "handler", 0)
    BY <1>3 DEF HandlerMap, Holds
  <2> DEFINE w == AfterMap(s, handler[s], o)
  <2>4. \/ w.pc = "idle"
        \/ w.client = handler[s].client /\ w.command = handler[s].command
    BY DEF AfterMap, Sending, AtRest
  <2> HIDE DEF w
  <2>5. ASSUME NEW x \in Server, NEW a \in Kinds, NEW k \in Nat,
               Holds(x, a, k)'
        PROVE  /\ Holds(x, a, k)
               /\ Item(x, a, k)'.client = Item(x, a, k).client
               /\ Item(x, a, k)'.command = Item(x, a, k).command
    <3>1. CASE a = "handler" /\ x = s
      <4>1. handler'[s] = w /\ k = 0 /\ w.pc # "idle"
        BY <1>1, <2>2, <2>5, <3>1 DEF Holds, w
      <4> QED BY <2>3, <2>4, <3>1, <4>1, ItemOf
    <3>2. CASE ~(a = "handler" /\ x = s)
      <4>1. x # s => handler'[x] = handler[x]
        BY <1>1, <2>2
      <4> QED BY <1>2, <2>1, <2>5, <3>2, <4>1 DEF Holds, Item, Kinds
    <3> QED BY <3>1, <3>2
  <2> QED BY <2>1, <2>5, Stays
<1>4. CASE HandlerReply(s)
  <2> DEFINE c == handler[s].client
  <2>1. /\ UNCHANGED appends /\ handler' = [handler EXCEPT ![s] = AtRest]
        /\ phase' = [phase EXCEPT ![s][c] = "reading"]
        /\ command' = [command EXCEPT ![s][c] = NoCommand]
        /\ handler[s].pc = "reply"
    BY <1>4 DEF HandlerReply, Receive
  <2>2. c \in Clients /\ Holds(s, "handler", 0) /\ AtRest.pc = "idle"
    BY <2>1 DEF TypeInv, InHand, Occupied, Holds, AtRest
  <2>3. ASSUME NEW x \in Server, NEW y \in Clients, x # s \/ y # c
        PROVE  phase'[x][y] = phase[x][y] /\ command'[x][y] = command[x][y]
    BY <1>1, <2>1, <2>2, <2>3, OneCell DEF Phase
  <2>4. ASSUME NEW x \in Server, NEW a \in Kinds, NEW k \in Nat,
               Holds(x, a, k)'
        PROVE  /\ Holds(x, a, k) /\ Item(x, a, k)' = Item(x, a, k)
               /\ x # s \/ a # "handler"
    <3>1. handler'[x] = IF x = s THEN AtRest ELSE handler[x]
      BY <1>1, <2>1
    <3> QED BY <1>2, <2>1, <2>2, <2>4, <3>1 DEF Holds, Item, Kinds
  <2>5. ASSUME NEW x \in Server, NEW a \in Kinds, NEW k \in Nat,
               Holds(x, a, k)'
        PROVE  Item(x, a, k).client \in Clients /\
               (x # s \/ Item(x, a, k).client # c)
    <3>1. Item(x, a, k).client \in Clients
      BY <2>4, <2>5, HeldClient
    <3>2. Item(s, "handler", 0).client = c
      BY ItemOf
    <3>3. "handler" \in Kinds
      BY DEF Kinds
    <3> QED BY <2>2, <2>4, <2>5, <3>1, <3>2, <3>3 DEF Alone
  <2> QED BY <2>3, <2>4, <2>5, Stays
<1>5. ASSUME NEW c \in Clients, TakeChange(s, c) \/ TakeRead(s, c)
      PROVE  \A x \in Server : Waiting(x)' /\ Alone(x)'
  <2>1. /\ UNCHANGED command /\ phase[s][c] = "submitting"
        /\ phase' = [phase EXCEPT ![s][c] = "awaiting"]
    BY <1>5 DEF TakeChange, TakeRead, Take
  <2>2. /\ phase'[s][c] = "awaiting"
        /\ \A x \in Server, y \in Clients :
             x # s \/ y # c => phase'[x][y] = phase[x][y]
    BY <1>1, <2>1, OneCell DEF Phase
  <2>3. /\ \A x \in Server : x # s =>
             /\ handler'[x] = handler[x] /\ appends'[x] = appends[x]
             /\ phase'[x] = phase[x]
    BY <1>1, <1>5, <2>1 DEF TakeChange, TakeRead
  <2>4. ASSUME NEW x \in Server, x # s PROVE Waiting(x)' /\ Alone(x)'
    BY <1>2, <2>1, <2>3, <2>4, Elsewhere
  <2>5. ASSUME TakeChange(s, c), NEW a \in Kinds, NEW k \in Nat,
               Holds(s, a, k)'
        PROVE  \/ /\ a = "append" /\ k = Len(appends[s]) + 1
                  /\ Item(s, a, k)'.client = c
                  /\ Item(s, a, k)'.command = command[s][c]
               \/ Holds(s, a, k) /\ Item(s, a, k)' = Item(s, a, k)
    <3> DEFINE e == [server |-> s, client |-> c, id |-> counter'[s],
                     command |-> command[s][c]]
    <3>1. appends'[s] = Append(appends[s], e) /\ UNCHANGED handler
      BY <1>1, <2>5 DEF TakeChange
    <3>2. e.client = c /\ e.command = command[s][c]
      OBVIOUS
    <3> HIDE DEF e
    <3>3. /\ Len(appends'[s]) = Len(appends[s]) + 1 /\ Len(appends[s]) \in Nat
          /\ appends'[s][Len(appends[s]) + 1] = e
          /\ \A h \in 1..Len(appends[s]) : appends'[s][h] = appends[s][h]
      <4> DEFINE q == appends[s]
      <4>1. Len(q) \in Nat /\ q \in Seq(Entry)
        BY <1>1, LenProperties
      <4> HIDE DEF q
      <4>2. /\ Len(Append(q, e)) = Len(q) + 1
            /\ Append(q, e)[Len(q) + 1] = e
            /\ \A h \in 1..Len(q) : Append(q, e)[h] = q[h]
        BY <4>1
      <4> QED BY <3>1, <4>1, <4>2 DEF q
    <3>4. CASE a = "append"
      <4>1. k \in 1..Len(appends'[s])
        BY <2>5, <3>4 DEF Holds
      <4>2. CASE k = Len(appends[s]) + 1
        BY <3>2, <3>3, <3>4, <4>2, ItemOf
      <4>3. CASE k \in 1..Len(appends[s])
        BY <3>3, <3>4, <4>3, ItemOf DEF Holds
      <4> QED BY <3>3, <4>1, <4>2, <4>3
    <3>5. CASE a # "append"
      BY <1>2, <2>5, <3>1, <3>5 DEF Holds, Item, Kinds
    <3> QED BY <3>4, <3>5
  <2>6. ASSUME TakeRead(s, c), NEW a \in Kinds, NEW k \in Nat,
               Holds(s, a, k)'
        PROVE  \/ /\ a = "handler" /\ k = 0
                  /\ Item(s, a, k)'.client = c
                  /\ Item(s, a, k)'.command = command[s][c]
               \/ Holds(s, a, k) /\ Item(s, a, k)' = Item(s, a, k)
    <3>1. /\ handler'[s] = Executing(c, command[s][c], TRUE)
          /\ UNCHANGED appends
      BY <1>1, <2>6 DEF TakeRead
    <3>2. CASE a = "handler"
      <4>1. k = 0 /\ Item(s, a, k)' = handler'[s]
        BY <2>6, <3>2, ItemOf DEF Holds
      <4> QED BY <3>1, <3>2, <4>1 DEF Executing
    <3>3. CASE a # "handler"
      BY <1>2, <2>6, <3>1, <3>3 DEF Holds, Item, Kinds
    <3> QED BY <3>2, <3>3
  <2>7. ASSUME NEW a \in Kinds, NEW k \in Nat, Holds(s, a, k)
        PROVE  Item(s, a, k).client # c =>
                 phase'[s][Item(s, a, k).client] =
                   phase[s][Item(s, a, k).client]
    BY <2>2, <2>7, HeldClient
  <2>8. Waiting(s)' /\ Alone(s)'
    <3>1. phase[s][c] # "awaiting" /\ phase'[s][c] = "awaiting"
      BY <2>1, <2>2
    <3>2. CASE TakeChange(s, c)
      <4> DEFINE j == Len(appends[s]) + 1
      <4>1. ASSUME NEW a \in Kinds, NEW k \in Nat, Holds(s, a, k)'
            PROVE  \/ /\ a = "append" /\ k = j
                      /\ Item(s, a, k)'.client = c
                      /\ Item(s, a, k)'.command = command[s][c]
                   \/ /\ Holds(s, a, k)
                      /\ Item(s, a, k)'.client = Item(s, a, k).client
                      /\ Item(s, a, k)'.command = Item(s, a, k).command
                      /\ Item(s, a, k)'.client # c =>
                           phase'[s][Item(s, a, k)'.client] =
                             phase[s][Item(s, a, k)'.client]
        BY <2>5, <2>7, <3>2, <4>1
      <4> HIDE DEF j
      <4> QED BY <2>1, <3>1, <4>1, Arrives
    <3>3. CASE TakeRead(s, c)
      BY <2>1, <2>6, <2>7, <3>1, <3>3, Arrives
    <3> QED BY <1>5, <3>2, <3>3
  <2> QED BY <2>4, <2>8
<1> QED BY <1>3, <1>4, <1>5

\* The backend works on the map, answers and closes.
LEMMA BackendWaiting ==
    ASSUME TypeInv, FromLog, Steady, NEW s \in Server,
           \A x \in Server : Waiting(x) /\ Alone(x),
           BackendMap(s) \/ BackendReply(s) \/ BackendClose(s)
    PROVE  \A x \in Server : Waiting(x)' /\ Alone(x)'
<1>1. /\ phase \in [Server -> [Clients -> Phase]]
      /\ backend \in [Server -> Worker]
      /\ command \in [Server ->
           [Clients -> CommandsAt(Nat) \cup {Shutdown, NoCommand}]]
  BY DEF TypeInv, TypeOK, Phase
<1>2. UNCHANGED <<handler, appends, log, role, commitIndex, commits>>
  BY DEF BackendMap, BackendReply, BackendClose, raftVars
<1>3. CASE BackendMap(s)
  <2>1. UNCHANGED <<phase, command>> /\ backend[s].pc = "map"
    BY <1>3 DEF BackendMap, parserVars
  <2>2. PICK o : backend' = [backend EXCEPT ![s] = AfterMap(s, backend[s], o)]
    BY <1>3, MapSteps
  <2>3. backend[s].command.op # "cas"
    BY <2>1 DEF FromLog, Steady
  <2> DEFINE w == AfterMap(s, backend[s], o)
  <2>4. \/ w.pc = "idle"
        \/ /\ w.client = backend[s].client /\ w.command = backend[s].command
           /\ Holds(s, "backend", 0)
    BY <2>1, <2>3 DEF AfterMap, Sending, AtRest, Answers, Holds
  <2> HIDE DEF w
  <2>5. ASSUME NEW x \in Server, NEW a \in Kinds, NEW k \in Nat,
               Holds(x, a, k)'
        PROVE  /\ Holds(x, a, k)
               /\ Item(x, a, k)'.client = Item(x, a, k).client
               /\ Item(x, a, k)'.command = Item(x, a, k).command
    <3>1. CASE a = "backend" /\ x = s
      <4>1. backend'[s] = w /\ k = 0 /\ w.pc # "idle"
        BY <1>1, <2>2, <2>5, <3>1 DEF Holds, w
      <4> QED BY <2>4, <3>1, <4>1, ItemOf
    <3>2. CASE ~(a = "backend" /\ x = s)
      <4>1. x # s => backend'[x] = backend[x]
        BY <1>1, <2>2
      <4> QED BY <1>2, <2>5, <3>2, <4>1 DEF Holds, Item, Kinds
    <3> QED BY <3>1, <3>2
  <2> QED BY <2>1, <2>5, Stays
<1>4. CASE BackendReply(s)
  <2> DEFINE c == backend[s].client
             w == IF backend[s].answer = ErrRedirect
                  THEN [backend[s] EXCEPT !.pc = "close"] ELSE AtRest
  <2>1. /\ backend' = [backend EXCEPT ![s] = w]
        /\ phase' = [phase EXCEPT ![s][c] = "reading"]
        /\ command' = [command EXCEPT ![s][c] = NoCommand]
        /\ backend[s].pc = "reply"
    BY <1>4 DEF BackendReply, Receive
  <2>2. w.pc \in {"idle", "close"}
    <3>1. [backend[s] EXCEPT !.pc = "close"].pc = "close"
      BY <1>1, PhaseType
    <3> QED BY <3>1 DEF AtRest
  <2>3. c \in Clients /\ Holds(s, "backend", 0)
    BY <2>1 DEF TypeInv, InHand, Occupied, Holds
  <2> HIDE DEF w
  <2>4. ASSUME NEW x \in Server, NEW y \in Clients, x # s \/ y # c
        PROVE  phase'[x][y] = phase[x][y] /\ command'[x][y] = command[x][y]
    BY <1>1, <2>1, <2>3, <2>4, OneCell DEF Phase
  <2>5. ASSUME NEW x \in Server, NEW a \in Kinds, NEW k \in Nat,
               Holds(x, a, k)'
        PROVE  /\ Holds(x, a, k) /\ Item(x, a, k)' = Item(x, a, k)
               /\ x # s \/ a # "backend"
    <3>1. backend'[x] = IF x = s THEN w ELSE backend[x]
      BY <1>1, <2>1
    <3> QED BY <1>2, <2>1, <2>2, <2>5, <3>1 DEF Holds, Item, Kinds
  <2>6. ASSUME NEW x \in Server, NEW a \in Kinds, NEW k \in Nat,
               Holds(x, a, k)'
        PROVE  Item(x, a, k).client \in Clients /\
               (x # s \/ Item(x, a, k).client # c)
    <3>1. Item(x, a, k).client \in Clients
      BY <2>5, <2>6, HeldClient
    <3>2. Item(s, "backend", 0).client = c
      BY ItemOf
    <3>3. "backend" \in Kinds
      BY DEF Kinds
    <3> QED BY <2>3, <2>5, <2>6, <3>1, <3>2, <3>3 DEF Alone
  <2> QED BY <2>4, <2>5, <2>6, Stays
<1>5. CASE BackendClose(s)
  <2>1. /\ UNCHANGED <<phase, command>>
        /\ backend' = [backend EXCEPT ![s] = AtRest]
        /\ AtRest.pc = "idle"
    BY <1>5 DEF BackendClose, AtRest
  <2>2. ASSUME NEW x \in Server, NEW a \in Kinds, NEW k \in Nat,
               Holds(x, a, k)'
        PROVE  Holds(x, a, k) /\ Item(x, a, k)' = Item(x, a, k)
    <3>1. backend'[x] = IF x = s THEN AtRest ELSE backend[x]
      BY <1>1, <2>1
    <3> QED BY <1>2, <2>1, <2>2, <3>1 DEF Holds, Item, Kinds
  <2> QED BY <2>1, <2>2, Stays
<1> QED BY <1>3, <1>4, <1>5

\* The backend takes a commit: a refusal, a leader's or a follower's.
LEMMA TakeCommitWaiting ==
    ASSUME TypeInv, NEW s \in Server,
           \A x \in Server : Waiting(x) /\ Alone(x), TakeCommit(s)
    PROVE  \A x \in Server : Waiting(x)' /\ Alone(x)'
<1>1. /\ backend \in [Server -> Worker]
      /\ commits \in [Server -> Seq(Commit)]
  BY DEF TypeInv, TypeOK
<1>2. UNCHANGED <<handler, appends, log, role, commitIndex, phase, command>>
  BY DEF TakeCommit, raftVars, parserVars
<1> DEFINE h == commits[s][1]
           w == IF h.err
                THEN Sending(s, h.entry.client, h.entry.command, ErrRedirect)
                ELSE Executing(h.entry.client, h.entry.command,
                               role[s] = "LEADER")
<1>3. commits[s] \in Seq(Commit) /\ commits[s] # <<>>
  BY <1>1 DEF TakeCommit
<1>4. /\ Head(commits[s]) = commits[s][1] /\ 1 \in 1..Len(commits[s])
      /\ \A k \in 1..Len(Tail(commits[s])) :
           /\ Tail(commits[s])[k] = commits[s][k + 1]
           /\ k + 1 \in 1..Len(commits[s])
  BY <1>3, TailParts
<1>5. /\ backend' = [backend EXCEPT ![s] = w]
      /\ commits' = [commits EXCEPT ![s] = Tail(commits[s])]
      /\ backend[s].pc = "idle"
  BY <1>4 DEF TakeCommit
<1>6. /\ w.client = h.entry.client /\ w.command = h.entry.command
      /\ ~h.err => w.pc = "map" /\ w.sendReply = (role[s] = "LEADER")
  BY DEF Sending, Executing
<1> HIDE DEF w
<1>7. ASSUME NEW x \in Server, x # s PROVE Waiting(x)' /\ Alone(x)'
  <2>1. backend'[x] = backend[x] /\ commits'[x] = commits[x]
    BY <1>1, <1>5, <1>7
  <2> QED BY <1>2, <2>1, Elsewhere
<1> DEFINE K == [a \in Kinds |-> [k \in Nat |->
                  IF a = "backend" THEN "commit" ELSE a]]
           N == [a \in Kinds |-> [k \in Nat |->
                  IF a = "backend" THEN 1
                  ELSE IF a = "commit" THEN k + 1 ELSE k]]
<1>8. ASSUME NEW a \in Kinds, NEW k \in Nat, Holds(s, a, k)'
      PROVE  /\ K[a][k] \in Kinds /\ N[a][k] \in Nat
             /\ Holds(s, K[a][k], N[a][k])
             /\ Item(s, a, k)'.client = Item(s, K[a][k], N[a][k]).client
             /\ Item(s, a, k)'.command = Item(s, K[a][k], N[a][k]).command
  <2>1. CASE a = "backend"
    <3>1. backend'[s] = w /\ K[a][k] = "commit" /\ N[a][k] = 1
      BY <1>1, <1>5, <2>1
    <3>2. Holds(s, "commit", 1)
      BY <1>4, <1>6, <1>8, <2>1, <3>1 DEF Holds
    <3> HIDE DEF K, N
    <3> QED BY <1>6, <2>1, <3>1, <3>2, ItemOf DEF Kinds
  <2>2. CASE a = "commit"
    <3>1. /\ k \in 1..Len(Tail(commits[s]))
          /\ commits'[s][k] = commits[s][k + 1]
          /\ commits'[s][k].err \/ role[s] = "LEADER"
      BY <1>1, <1>2, <1>4, <1>5, <1>8, <2>2 DEF Holds
    <3>2. K[a][k] = "commit" /\ N[a][k] = k + 1
      BY <2>2
    <3>3. Holds(s, "commit", k + 1)
      BY <1>4, <3>1 DEF Holds
    <3> HIDE DEF K, N
    <3> QED BY <2>2, <3>1, <3>2, <3>3, ItemOf DEF Kinds
  <2>3. CASE a \notin {"backend", "commit"}
    <3>1. K[a][k] = a /\ N[a][k] = k
      BY <2>3
    <3> HIDE DEF K, N
    <3> QED BY <1>2, <1>8, <2>3, <3>1 DEF Holds, Item, Kinds
  <2> QED BY <2>1, <2>2, <2>3
<1>9. ASSUME NEW a \in Kinds, NEW b \in Kinds, NEW k \in Nat, NEW l \in Nat,
             Holds(s, a, k)', Holds(s, b, l)',
             K[a][k] = K[b][l], N[a][k] = N[b][l]
      PROVE  a = b /\ k = l
  <2>1. /\ a = "backend" => k = 0
        /\ b = "backend" => l = 0
        /\ a = "commit" => k >= 1
        /\ b = "commit" => l >= 1
    BY <1>9 DEF Holds
  <2> QED BY <1>9, <2>1 DEF Kinds
<1> HIDE DEF K, N
<1>10. Waiting(s)' /\ Alone(s)'
  <2>1. Moves(s, K, N)
    BY <1>2, <1>8, <1>9 DEF Moves
  <2> QED BY <2>1, Moved
<1> QED BY <1>7, <1>10

\* The node takes a command: it stands in another place, or it is refused.
LEMMA AppendTakenWaiting ==
    ASSUME TypeInv, NEW s \in Server, Waiting(s), Alone(s),
           NEW d \in {"log", "commit"}, NEW j \in Nat,
           appends[s] # <<>>, appends'[s] = Tail(appends[s]),
           UNCHANGED <<phase, command>>,
           \A a \in Kinds, k \in Nat : Holds(s, a, k)' /\ a # "append" =>
             \/ a = d /\ k = j /\ Item(s, a, k)' = Head(appends[s])
             \/ /\ Holds(s, a, k) /\ Item(s, a, k)' = Item(s, a, k)
                /\ ~(a = d /\ k = j)
    PROVE  Waiting(s)' /\ Alone(s)'
<1>1. appends[s] \in Seq(Entry)
  BY DEF TypeInv, TypeOK
<1>2. /\ Head(appends[s]) = appends[s][1] /\ 1 \in 1..Len(appends[s])
      /\ \A k \in 1..Len(Tail(appends[s])) :
           /\ Tail(appends[s])[k] = appends[s][k + 1]
           /\ k + 1 \in 1..Len(appends[s])
  BY <1>1, TailParts
<1> DEFINE K == [a \in Kinds |-> [k \in Nat |->
                  IF a = d /\ k = j THEN "append" ELSE a]]
           N == [a \in Kinds |-> [k \in Nat |->
                  IF a = d /\ k = j THEN 1
                  ELSE IF a = "append" THEN k + 1 ELSE k]]
<1>3. ASSUME NEW a \in Kinds, NEW k \in Nat, Holds(s, a, k)'
      PROVE  /\ K[a][k] \in Kinds /\ N[a][k] \in Nat
             /\ Holds(s, K[a][k], N[a][k])
             /\ Item(s, a, k)' = Item(s, K[a][k], N[a][k])
  <2>1. CASE a = "append"
    <3>1. K[a][k] = "append" /\ N[a][k] = k + 1
      BY <2>1
    <3>2. /\ k \in 1..Len(Tail(appends[s]))
          /\ appends'[s][k] = appends[s][k + 1]
      BY <1>2, <1>3, <2>1 DEF Holds
    <3>3. Holds(s, "append", k + 1)
      BY <1>2, <3>2 DEF Holds
    <3> HIDE DEF K, N
    <3>4. Item(s, a, k)' = Item(s, "append", k + 1)
      <4>1. Item(s, "append", k)' = appends'[s][k]
        BY ItemOf
      <4>2. Item(s, "append", k + 1) = appends[s][k + 1]
        BY ItemOf
      <4>3. Item(s, a, k)' = Item(s, "append", k)'
        BY <2>1 DEF Item
      <4> QED BY <3>2, <4>1, <4>2, <4>3
    <3> QED BY <3>1, <3>3, <3>4 DEF Kinds
  <2>2. CASE a = d /\ k = j
    <3>1. K[a][k] = "append" /\ N[a][k] = 1
      BY <2>2
    <3>2. Holds(s, "append", 1)
      BY <1>2 DEF Holds
    <3>3. Item(s, a, k)' = Head(appends[s])
      <4>1. d # "append"
        OBVIOUS
      <4> QED BY <1>3, <2>2, <4>1
    <3>4. Item(s, "append", 1) = Head(appends[s])
      BY <1>2, ItemOf
    <3> HIDE DEF K, N
    <3> QED BY <3>1, <3>2, <3>3, <3>4 DEF Kinds
  <2>3. CASE a # "append" /\ ~(a = d /\ k = j)
    <3>1. K[a][k] = a /\ N[a][k] = k
      BY <2>3
    <3> HIDE DEF K, N
    <3> QED BY <1>3, <2>3, <3>1
  <2> QED BY <2>1, <2>2, <2>3
<1>4. ASSUME NEW a \in Kinds, NEW b \in Kinds, NEW k \in Nat, NEW l \in Nat,
             Holds(s, a, k)', Holds(s, b, l)',
             K[a][k] = K[b][l], N[a][k] = N[b][l]
      PROVE  a = b /\ k = l
  <2>1. (a = "append" => k >= 1) /\ (b = "append" => l >= 1)
    BY <1>4 DEF Holds
  <2> QED BY <1>4, <2>1
<1> HIDE DEF K, N
<1>5. Moves(s, K, N)
  BY <1>3, <1>4 DEF Moves
<1> QED BY <1>5, Moved

LEMMA NodeWaiting ==
    ASSUME TypeInv, NEW s \in Server,
           \A x \in Server : Waiting(x) /\ Alone(x),
           RefuseAppend(s) \/ AcceptAppend(s)
    PROVE  \A x \in Server : Waiting(x)' /\ Alone(x)'
<1>1. /\ appends \in [Server -> Seq(Entry)]
      /\ commits \in [Server -> Seq(Commit)]
      /\ log \in [Server -> Seq(R!LogEntry)]
      /\ log[s] \in Seq(R!LogEntry) /\ commits[s] \in Seq(Commit)
  BY DEF TypeInv, TypeOK, R!TypeOK
<1>2. /\ UNCHANGED <<handler, backend, role, commitIndex, phase, command>>
      /\ appends[s] # <<>>
      /\ appends' = [appends EXCEPT ![s] = Tail(appends[s])]
  BY DEF RefuseAppend, AcceptAppend, R!LeaderAppendEvent, raftVars,
         R!commitVars, parserVars, workVars
<1>3. appends'[s] = Tail(appends[s])
  BY <1>1, <1>2
<1>4. ASSUME NEW S, NEW q \in Seq(S), NEW e
      PROVE  /\ Len(q) \in Nat
             /\ Len(Append(q, e)) = Len(q) + 1
             /\ Append(q, e)[Len(q) + 1] = e
             /\ \A h \in 1..Len(q) : Append(q, e)[h] = q[h]
  <2>1. Len(q) \in Nat
    BY LenProperties
  <2> QED BY <2>1
<1>5. ASSUME NEW x \in Server, x # s PROVE Waiting(x)' /\ Alone(x)'
  <2>1. /\ appends'[x] = appends[x] /\ log'[x] = log[x]
        /\ commits'[x] = commits[x]
    BY <1>1, <1>2, <1>5
    DEF RefuseAppend, AcceptAppend, R!LeaderAppendEvent, raftVars
  <2> QED BY <1>2, <2>1, Elsewhere
<1>6. CASE RefuseAppend(s)
  <2> DEFINE e == [entry |-> Head(appends[s]), err |-> TRUE]
             j == Len(commits[s]) + 1
  <2>1. UNCHANGED log /\ commits'[s] = Append(commits[s], e)
    BY <1>1, <1>6 DEF RefuseAppend, raftVars
  <2>2. e.entry = Head(appends[s])
    OBVIOUS
  <2> HIDE DEF e
  <2>3. /\ Len(commits[s]) \in Nat /\ j \in Nat
        /\ Len(commits'[s]) = j /\ commits'[s][j] = e
        /\ \A h \in 1..Len(commits[s]) : commits'[s][h] = commits[s][h]
    BY <1>1, <1>4, <2>1
  <2>4. ASSUME NEW a \in Kinds, NEW k \in Nat, Holds(s, a, k)', a # "append"
        PROVE  \/ a = "commit" /\ k = j /\ Item(s, a, k)' = Head(appends[s])
               \/ /\ Holds(s, a, k) /\ Item(s, a, k)' = Item(s, a, k)
                  /\ ~(a = "commit" /\ k = j)
    <3>1. CASE a = "commit"
      <4>1. /\ k \in 1..Len(commits'[s])
            /\ commits'[s][k].err \/ role[s] = "LEADER"
        BY <1>2, <2>4, <3>1 DEF Holds
      <4>2. CASE k = j
        BY <2>2, <2>3, <3>1, <4>2, ItemOf
      <4>3. CASE k \in 1..Len(commits[s])
        BY <2>3, <3>1, <4>1, <4>3, ItemOf DEF Holds
      <4> QED BY <2>3, <4>1, <4>2, <4>3
    <3>2. CASE a # "commit"
      BY <1>2, <2>1, <2>4, <3>2 DEF Holds, Item, Kinds
    <3> QED BY <3>1, <3>2
  <2> HIDE DEF j
  <2>5. Waiting(s)' /\ Alone(s)'
    BY <1>2, <1>3, <2>3, <2>4, AppendTakenWaiting
  <2> QED BY <1>5, <2>5
<1>7. CASE AcceptAppend(s)
  <2> DEFINE e == [term |-> term[s], cmd |-> Head(appends[s])]
             j == Len(log[s]) + 1
  <2>1. /\ UNCHANGED commits /\ log'[s] = Append(log[s], e)
    BY <1>1, <1>7 DEF AcceptAppend, R!LeaderAppendEvent
  <2>2. e.cmd = Head(appends[s])
    OBVIOUS
  <2> HIDE DEF e
  <2>3. /\ Len(log[s]) \in Nat /\ j \in Nat
        /\ Len(log'[s]) = j /\ log'[s][j] = e
        /\ \A h \in 1..Len(log[s]) : log'[s][h] = log[s][h]
    BY <1>1, <1>4, <2>1
  <2>4. ASSUME NEW a \in Kinds, NEW k \in Nat, Holds(s, a, k)', a # "append"
        PROVE  \/ a = "log" /\ k = j /\ Item(s, a, k)' = Head(appends[s])
               \/ /\ Holds(s, a, k) /\ Item(s, a, k)' = Item(s, a, k)
                  /\ ~(a = "log" /\ k = j)
    <3>1. CASE a = "log"
      <4>1. /\ k \in commitIndex[s] + 1..Len(log'[s]) /\ role[s] = "LEADER"
            /\ commitIndex[s] \in Nat
        BY <1>2, <2>4, <3>1 DEF Holds, TypeInv, TypeOK, R!TypeOK
      <4>2. CASE k = j
        BY <2>2, <2>3, <3>1, <4>2, ItemOf
      <4>3. CASE k # j
        <5>1. /\ k \in 1..Len(log[s])
              /\ k \in commitIndex[s] + 1..Len(log[s])
          BY <2>3, <4>1, <4>3
        <5> QED BY <2>3, <3>1, <4>1, <4>3, <5>1, ItemOf DEF Holds
      <4> QED BY <4>2, <4>3
    <3>2. CASE a # "log"
      BY <1>2, <2>1, <2>4, <3>2 DEF Holds, Item, Kinds
    <3> QED BY <3>1, <3>2
  <2> HIDE DEF j
  <2>5. Waiting(s)' /\ Alone(s)'
    BY <1>2, <1>3, <2>3, <2>4, AppendTakenWaiting
  <2> QED BY <1>5, <2>5
<1> QED BY <1>6, <1>7

\* Before the first election there is nothing to execute, and then a node
\* delivers what stands at the beginning of its log.
DeliveredInv ==
    /\ elected = {} => \A s \in Server : delivered[s] = <<>>
    /\ \A s \in Server : RM!DeliversLog(s)

LEMMA SteadyDelivered == TypeInv /\ Steady => DeliveredInv
<1> SUFFICES ASSUME TypeInv, Steady PROVE DeliveredInv
  OBVIOUS
<1>1. RM!OneLeader /\ RM!TypeOK /\ RM!SoloInv
  BY SameCardinality DEF Steady, RM!OneLeader, TypeInv, RaftInv
<1>2. elected = {} => \A s \in Server : delivered[s] = <<>>
  BY <1>1, RaftAssumptions, RM!BeforeElection
<1>3. \A s \in Server : RM!DeliversLog(s)
  BY <1>1 DEF RM!SoloInv
<1> QED BY <1>2, <1>3 DEF DeliveredInv

\* The cluster runs: a leader's entries are committed, or refused as it steps
\* down; a node that is elected has none and delivered none.
LEMMA ClusterWaiting ==
    ASSUME TypeInv, TypeInv', SteadyInv, Steady, Steady', ClusterStep
    PROVE  SteadyInv'
<1>0. DeliveredInv'
  BY SteadyDelivered, PTL
<1>1. /\ RM!TypeOK /\ RM!TypeOK' /\ RM!SoloInv /\ RM!SubmittedInv
      /\ RM!OneLeader'
  BY SameCardinality DEF Steady, RM!OneLeader, TypeInv, RaftInv
<1>2. UNCHANGED powerOffs
  BY <1>1, ClusterStepRuns, RaftAssumptions, RM!RunPushes
<1>3. /\ elected \subseteq elected'
      /\ \A j \in Server : role[j] = "LEADER" => log'[j] = log[j]
      /\ \A j \in Server : role[j] # "LEADER" /\ role'[j] = "LEADER" =>
           elected = {} /\ log'[j] = <<>> /\ log[j] = <<>>
  BY <1>1, <1>2, ClusterStepRuns, RaftAssumptions, RM!RunOneLeader
  DEF RM!LEADER
<1>4. UNCHANGED <<handler, backend, appends, phase, command>>
  BY DEF ClusterStep, workVars, parserVars
<1>5. ASSUME elected' = {}, NEW s \in Server, NEW k \in 1..Len(commits'[s])
      PROVE  commits'[s][k].err
  <2>1. delivered'[s] = <<>>
    BY <1>0, <1>5 DEF DeliveredInv
  <2>2. Len(delivered'[s]) = 0
    BY <2>1
  <2>3. Len(delivered[s]) \in Nat /\ Pushed(s) \in Nat
    BY <1>1, CommitsAfter, LenProperties DEF RM!TypeOK
  <2>4. 1..Pushed(s) = {}
    BY <2>2, <2>3 DEF Pushed
  <2>5. CASE k \in 1..Len(commits[s]) /\ commits'[s][k] = commits[s][k]
    <3>1. elected = {}
      BY <1>3, <1>5
    <3> QED BY <2>5, <3>1 DEF SteadyInv
  <2>6. CASE \E h \in 1..Len(Refused(s)) :
               commits'[s][k] =
                 [entry |-> log[s][commitIndex[s] + h].cmd, err |-> TRUE]
    BY <2>6
  <2> QED BY <2>4, <2>5, <2>6, CommitAt
<1>6. ASSUME NEW s \in Server PROVE Waiting(s)' /\ Alone(s)'
  <2> DEFINE n == Len(commits[s])
             p == Pushed(s)
             i == commitIndex[s]
  <2>1. /\ Waiting(s) /\ Alone(s)
        /\ n \in Nat /\ p \in Nat /\ i \in Nat /\ Len(log[s]) \in Nat
    <3>1. Waiting(s) /\ Alone(s)
      BY DEF SteadyInv
    <3>2. i \in Nat /\ log[s] \in Seq(RM!LogEntry)
      BY <1>1 DEF RM!TypeOK
    <3> QED BY <3>1, <3>2, CommitsAfter, LenProperties
  <2>2. CASE role[s] = "LEADER"
    <3> DEFINE Index(k) == IF role'[s] = "LEADER" THEN i + (k - n)
                           ELSE i + (k - n - p)
               K == [a \in Kinds |-> [k \in Nat |->
                      IF a = "commit" /\ k > n THEN "log" ELSE a]]
               N == [a \in Kinds |-> [k \in Nat |->
                      IF a = "commit" /\ k > n THEN Index(k) ELSE k]]
    <3>1. log'[s] = log[s]
      BY <1>3, <2>2
    <3>2. role'[s] = "LEADER" =>
            /\ i + p = commitIndex'[s] /\ commitIndex'[s] <= Len(log[s])
            /\ \A h \in 1..p :
                 /\ i + h \in i + 1..commitIndex'[s]
                 /\ delivered'[s][Len(delivered[s]) + h] = log[s][i + h].cmd
      <4>1. RM!DeliversLog(s) /\ RM!DeliversLog(s)'
        BY <1>0, SteadyDelivered DEF DeliveredInv
      <4>2. /\ Len(delivered[s]) = i /\ Len(delivered'[s]) = commitIndex'[s]
            /\ commitIndex'[s] <= Len(log[s])
            /\ \A h \in 1..commitIndex'[s] :
                 delivered'[s][h] = log[s][h].cmd
            /\ commitIndex'[s] \in Nat
        BY <1>1, <3>1, <4>1 DEF RM!DeliversLog, RM!TypeOK
      <4>3. i + p = commitIndex'[s]
        BY <2>1, <4>2 DEF Pushed
      <4>4. ASSUME NEW h \in 1..p
            PROVE  i + h \in i + 1..commitIndex'[s] /\
                   i + h \in 1..commitIndex'[s]
        <5> HIDE DEF i, p
        <5> QED BY <2>1, <4>2, <4>3
      <4> QED BY <4>2, <4>3, <4>4
    <3>3. ASSUME NEW a \in Kinds, NEW k \in Nat, Holds(s, a, k)'
          PROVE  /\ K[a][k] \in Kinds /\ N[a][k] \in Nat
                 /\ Holds(s, K[a][k], N[a][k])
                 /\ Item(s, a, k)' = Item(s, K[a][k], N[a][k])
      <4>1. CASE a = "commit" /\ k <= n
        <5>1. K[a][k] = a /\ N[a][k] = k
          BY <2>1, <4>1
        <5>2. k \in 1..n /\ k \in 1..Len(commits'[s])
          BY <2>1, <3>3, <4>1 DEF Holds
        <5>3. commits'[s][k] = commits[s][k]
          BY <5>2, CommitsAfter
        <5> HIDE DEF K, N
        <5> QED BY <2>2, <4>1, <5>1, <5>2, <5>3, ItemOf DEF Holds
      <4>2. CASE a = "commit" /\ k > n
        <5> DEFINE l == Index(k)
        <5>1. K[a][k] = "log" /\ N[a][k] = l
          BY <4>2
        <5>2. /\ k \in 1..Len(commits'[s])
              /\ commits'[s][k].err \/ role'[s] = "LEADER"
          BY <3>3, <4>2 DEF Holds
        <5>3. /\ l \in i + 1..Len(log[s])
              /\ commits'[s][k].entry = log[s][l].cmd
          <6>1. CASE k \in 1..Len(commits[s])
            BY <2>1, <4>2, <6>1
          <6>2. ASSUME NEW h \in 1..p, k = n + h,
                       commits'[s][k] =
                         [entry |-> delivered'[s][Len(delivered[s]) + h],
                          err |-> FALSE]
                PROVE  /\ l \in i + 1..Len(log[s])
                       /\ commits'[s][k].entry = log[s][l].cmd
            <7>1. role'[s] = "LEADER"
              BY <5>2, <6>2
            <7>2. l = i + h
              BY <2>1, <6>2, <7>1
            <7>3. /\ i + h \in i + 1..commitIndex'[s]
                  /\ commitIndex'[s] <= Len(log[s])
                  /\ delivered'[s][Len(delivered[s]) + h] = log[s][i + h].cmd
                  /\ commitIndex'[s] \in Nat
              BY <1>1, <3>2, <6>2, <7>1 DEF RM!TypeOK
            <7>4. i + h \in i + 1..Len(log[s])
              <8> HIDE DEF i
              <8> QED BY <2>1, <7>3
            <7> QED BY <6>2, <7>2, <7>3, <7>4
          <6>3. ASSUME NEW h \in 1..Len(Refused(s)), k = n + p + h,
                       commits'[s][k] =
                         [entry |-> log[s][i + h].cmd, err |-> TRUE],
                       StepsDown(s), i + h \in i + 1..Len(log[s])
                PROVE  /\ l \in i + 1..Len(log[s])
                       /\ commits'[s][k].entry = log[s][l].cmd
            <7>1. role'[s] # "LEADER"
              BY <6>3 DEF StepsDown
            <7>2. l = i + h
              <8>1. Len(Refused(s)) \in Nat
                BY CommitsAfter
              <8> QED BY <2>1, <6>3, <7>1, <8>1
            <7> QED BY <6>3, <7>2
          <6> HIDE DEF l, n, p, i
          <6> QED BY <5>2, <6>1, <6>2, <6>3, CommitAt DEF n, p, i
        <5>4. Holds(s, "log", l)
          BY <2>2, <5>3 DEF Holds
        <5>5. Item(s, a, k)' = Item(s, "log", l)
          BY <4>2, <5>3, ItemOf
        <5>6. l \in Nat
          <6> HIDE DEF l, i
          <6> QED BY <2>1, <5>3
        <5> HIDE DEF K, N, l
        <5> QED BY <5>1, <5>4, <5>5, <5>6 DEF Kinds
      <4>3. CASE a # "commit"
        <5>1. K[a][k] = a /\ N[a][k] = k
          BY <4>3
        <5>2. CASE a = "log"
          <6>1. /\ role'[s] = "LEADER" /\ k \in commitIndex'[s] + 1..Len(log[s])
            BY <3>1, <3>3, <5>2 DEF Holds
          <6>2. k \in i + 1..Len(log[s])
            <7> HIDE DEF i, p
            <7> QED BY <2>1, <3>2, <6>1
          <6> HIDE DEF K, N
          <6> QED BY <2>2, <3>1, <5>1, <5>2, <6>2, ItemOf DEF Holds
        <5>3. CASE a # "log"
          <6> HIDE DEF K, N
          <6> QED BY <1>4, <3>3, <4>3, <5>1, <5>3 DEF Holds, Item, Kinds
        <5> QED BY <5>2, <5>3
      <4> QED BY <2>1, <4>1, <4>2, <4>3
    <3>4. ASSUME NEW a \in Kinds, NEW b \in Kinds, NEW k \in Nat, NEW l \in Nat,
                 Holds(s, a, k)', Holds(s, b, l)',
                 K[a][k] = K[b][l], N[a][k] = N[b][l]
          PROVE  a = b /\ k = l
      <4>1. ASSUME NEW m \in Nat, Holds(s, "log", m)',
                   NEW j \in Nat, Holds(s, "commit", j)', j > n
            PROVE  m # Index(j)
        <5>1. role'[s] = "LEADER" /\ m > commitIndex'[s]
          <6>1. commitIndex'[s] \in Nat
            BY <1>1 DEF RM!TypeOK
          <6> QED BY <4>1, <6>1 DEF Holds
        <5>2. j \in 1..Len(commits'[s])
          BY <4>1 DEF Holds
        <5>3. Len(commits'[s]) = n + p
          <6>1. Len(Refused(s)) = 0
            <7>1. Len(Refused(s)) \in Nat
              BY CommitsAfter
            <7>2. \A h \in 1..Len(Refused(s)) : StepsDown(s)
              BY CommitsAfter
            <7>3. ~StepsDown(s)
              BY <5>1 DEF StepsDown
            <7>4. 1 \notin 1..Len(Refused(s))
              BY <7>2, <7>3
            <7> QED BY <7>1, <7>4
          <6> QED BY <2>1, <6>1, CommitsAfter
        <5>4. Index(j) <= commitIndex'[s]
          <6>1. i + p = commitIndex'[s]
            BY <3>2, <5>1
          <6> HIDE DEF i, n, p
          <6> QED BY <2>1, <4>1, <5>1, <5>2, <5>3, <6>1
        <5>5. commitIndex'[s] \in Nat /\ Index(j) \in Int
          <6>1. commitIndex'[s] \in Nat
            BY <1>1 DEF RM!TypeOK
          <6> HIDE DEF i, n, p
          <6> QED BY <2>1, <6>1
        <5> HIDE DEF Index
        <5> QED BY <5>1, <5>4, <5>5
      <4>2. \A m, j \in Nat : Index(m) = Index(j) => m = j
        <5> HIDE DEF i, n, p
        <5> QED BY <2>1
      <4> HIDE DEF Index
      <4>3. CASE a = "commit" /\ k > n
        <5>1. K[a][k] = "log" /\ N[a][k] = Index(k)
          BY <4>3
        <5>2. CASE b = "commit" /\ l > n
          <6>1. N[b][l] = Index(l)
            BY <5>2
          <6> HIDE DEF N, K
          <6> QED BY <3>4, <4>2, <4>3, <5>1, <5>2, <6>1
        <5>3. CASE ~(b = "commit" /\ l > n)
          <6>1. K[b][l] = b /\ N[b][l] = l
            BY <5>3
          <6> HIDE DEF N, K
          <6> QED BY <3>4, <4>1, <4>3, <5>1, <6>1
        <5> QED BY <5>2, <5>3
      <4>4. CASE ~(a = "commit" /\ k > n)
        <5>1. K[a][k] = a /\ N[a][k] = k
          BY <4>4
        <5>2. CASE b = "commit" /\ l > n
          <6>1. K[b][l] = "log" /\ N[b][l] = Index(l)
            BY <5>2
          <6> HIDE DEF N, K
          <6> QED BY <3>4, <4>1, <5>1, <5>2, <6>1
        <5>3. CASE ~(b = "commit" /\ l > n)
          <6>1. K[b][l] = b /\ N[b][l] = l
            BY <5>3
          <6> HIDE DEF N, K
          <6> QED BY <3>4, <5>1, <6>1
        <5> QED BY <5>2, <5>3
      <4> QED BY <4>3, <4>4
    <3> HIDE DEF K, N
    <3>5. Moves(s, K, N)
      BY <1>4, <3>3, <3>4 DEF Moves
    <3> QED BY <2>1, <3>5, Moved
  <2>3. CASE role[s] # "LEADER"
    <3>1. Len(Refused(s)) = 0
      BY <2>3 DEF Refused
    <3>2. CASE role'[s] = "LEADER"
      <4>1. elected = {} /\ Len(log'[s]) = 0
        BY <1>3, <2>3, <3>2
      <4>2. p = 0
        <5>1. RM!DeliversLog(s)'
          BY <1>0 DEF DeliveredInv
        <5>2. Len(delivered[s]) \in Nat /\ Len(delivered'[s]) \in Nat
          <6>1. delivered[s] \in Seq(Entry) /\ delivered'[s] \in Seq(Entry)
            BY <1>1 DEF RM!TypeOK
          <6> QED BY <6>1, LenProperties
        <5>3. Len(delivered'[s]) <= 0
          BY <4>1, <5>1, <5>2 DEF RM!DeliversLog
        <5> QED BY <2>1, <5>2, <5>3 DEF Pushed
      <4>3. Len(commits'[s]) = n
        BY <2>1, <3>1, <4>2, CommitsAfter
      <4>4. ASSUME NEW a \in Kinds, NEW k \in Nat, Holds(s, a, k)'
            PROVE  Holds(s, a, k) /\ Item(s, a, k)' = Item(s, a, k)
        <5>1. CASE a = "commit"
          <6>1. k \in 1..n
            BY <4>3, <4>4, <5>1 DEF Holds
          <6>2. commits'[s][k] = commits[s][k]
            BY <6>1, CommitsAfter
          <6>3. commits[s][k].err
            BY <4>1, <6>1 DEF SteadyInv
          <6> QED BY <5>1, <6>1, <6>2, <6>3, ItemOf DEF Holds
        <5>2. CASE a = "log"
          <6>1. k \in commitIndex'[s] + 1..0 /\ commitIndex'[s] \in Nat
            BY <1>1, <4>1, <4>4, <5>2 DEF Holds, RM!TypeOK
          <6> QED BY <6>1
        <5>3. CASE a \notin {"commit", "log"}
          BY <1>4, <4>4, <5>3 DEF Holds, Item, Kinds
        <5> QED BY <5>1, <5>2, <5>3
      <4> QED BY <1>4, <2>1, <4>4, Stays
    <3>3. CASE role'[s] # "LEADER"
      <4>1. ASSUME NEW a \in Kinds, NEW k \in Nat, Holds(s, a, k)'
            PROVE  Holds(s, a, k) /\ Item(s, a, k)' = Item(s, a, k)
        <5>1. CASE a = "commit"
          <6>1. k \in 1..Len(commits'[s]) /\ commits'[s][k].err
            BY <3>3, <4>1, <5>1 DEF Holds
          <6>2. ~\E h \in 1..Len(Refused(s)) : StepsDown(s)
            BY <2>3 DEF StepsDown
          <6>3. k \in 1..Len(commits[s]) /\ commits'[s][k] = commits[s][k]
            <7>1. ASSUME NEW h \in 1..Pushed(s),
                         commits'[s][k] =
                           [entry |-> delivered'[s][Len(delivered[s]) + h],
                            err |-> FALSE]
                  PROVE  FALSE
              BY <6>1, <7>1
            <7> QED BY <6>1, <6>2, <7>1, CommitAt
          <6> QED BY <5>1, <6>1, <6>3, ItemOf DEF Holds
        <5>2. CASE a # "commit"
          BY <1>4, <3>3, <4>1, <5>2 DEF Holds, Item, Kinds
        <5> QED BY <5>1, <5>2
      <4> QED BY <1>4, <2>1, <4>1, Stays
    <3> QED BY <3>2, <3>3
  <2> QED BY <2>2, <2>3
<1> QED BY <1>5, <1>6 DEF SteadyInv

LEMMA NextSteady ==
    ASSUME TypeInv, TypeInv', FromLog, SteadyInv, [Next]_vars
    PROVE  SteadyInv'
<1> SUFFICES ASSUME Steady' PROVE SteadyInv'
  BY DEF SteadyInv
<1> DEFINE Refusals == elected = {} =>
      \A s \in Server : \A k \in 1..Len(commits[s]) : commits[s][k].err
<1>1. /\ Steady /\ Refusals /\ \A s \in Server : Waiting(s) /\ Alone(s)
      /\ \A s \in Server : ~ShutdownByClient(s) /\ ~Crash(s) /\ ~Start(s)
      /\ commits \in [Server -> Seq(Commit)]
      /\ appends \in [Server -> Seq(Entry)]
  BY SteadyBefore DEF SteadyInv, TypeInv, TypeOK
<1>2. CASE ClusterStep
  BY <1>1, <1>2, ClusterWaiting
<1>3. ASSUME NEW s \in Server, NEW c \in Clients,
             \/ Connect(s, c) \/ Parse(s, c) \/ Reject(s, c)
             \/ TakeChange(s, c) \/ TakeRead(s, c) \/ TakeShutdown(s, c)
      PROVE  SteadyInv'
  <2>1. UNCHANGED <<commits, elected>>
    BY <1>3 DEF Connect, Parse, Reject, TakeLine, TakeChange, TakeRead,
                TakeShutdown, Take, raftVars
  <2>2. \A x \in Server : Waiting(x)' /\ Alone(x)'
    BY <1>1, <1>3, ClientStepWaiting, HandlerWaiting
  <2> QED BY <1>1, <2>1, <2>2 DEF SteadyInv
<1>4. ASSUME NEW s \in Server,
             \/ HandlerMap(s) \/ HandlerReply(s)
             \/ BackendMap(s) \/ BackendReply(s) \/ BackendClose(s)
      PROVE  SteadyInv'
  <2>1. UNCHANGED <<commits, elected>>
    BY <1>4 DEF HandlerMap, HandlerReply, BackendMap, BackendReply,
                BackendClose, raftVars
  <2>2. \A x \in Server : Waiting(x)' /\ Alone(x)'
    BY <1>1, <1>4, HandlerWaiting, BackendWaiting
  <2> QED BY <1>1, <2>1, <2>2 DEF SteadyInv
<1>5. ASSUME NEW s \in Server, RefuseAppend(s) \/ AcceptAppend(s)
      PROVE  SteadyInv'
  <2>1. UNCHANGED elected
    BY <1>5 DEF RefuseAppend, AcceptAppend, R!LeaderAppendEvent, raftVars
  <2>2. \A x \in Server : Waiting(x)' /\ Alone(x)'
    BY <1>1, <1>5, NodeWaiting
  <2>3. Refusals'
    <3>1. CASE RefuseAppend(s)
      <4> DEFINE e == [entry |-> Head(appends[s]), err |-> TRUE]
                 q == commits[s]
      <4>1. e.err
        OBVIOUS
      <4>2. commits' = [commits EXCEPT ![s] = Append(q, e)]
        BY <3>1 DEF RefuseAppend
      <4>3. Len(q) \in Nat /\ q \in Seq(Commit)
        BY <1>1, LenProperties
      <4> HIDE DEF e, q
      <4>4. /\ Len(Append(q, e)) = Len(q) + 1
            /\ Append(q, e)[Len(q) + 1] = e
            /\ \A h \in 1..Len(q) : Append(q, e)[h] = q[h]
        BY <4>3
      <4>5. ASSUME NEW x \in Server, NEW k \in 1..Len(commits'[x]),
                   elected' = {}
            PROVE  commits'[x][k].err
        <5>1. CASE x = s
          <6>1. commits'[x] = Append(q, e)
            BY <1>1, <4>2, <5>1
          <6>2. \/ k = Len(q) + 1
                \/ k \in 1..Len(q) /\ Append(q, e)[k] = q[k]
            BY <4>3, <4>4, <4>5, <6>1
          <6>3. k \in 1..Len(q) => q[k].err
            BY <1>1, <2>1, <4>5 DEF q
          <6> QED BY <4>1, <4>4, <6>1, <6>2, <6>3
        <5>2. CASE x # s
          BY <1>1, <2>1, <4>2, <4>5, <5>2
        <5> QED BY <5>1, <5>2
      <4> QED BY <4>5
    <3>2. CASE AcceptAppend(s)
      BY <1>1, <2>1, <3>2 DEF AcceptAppend
    <3> QED BY <1>5, <3>1, <3>2
  <2> QED BY <2>2, <2>3 DEF SteadyInv
<1>6. ASSUME NEW s \in Server, TakeCommit(s) PROVE SteadyInv'
  <2>1. /\ UNCHANGED elected
        /\ commits[s] \in Seq(Commit) /\ commits[s] # <<>>
        /\ commits' = [commits EXCEPT ![s] = Tail(commits[s])]
    BY <1>1, <1>6 DEF TakeCommit, raftVars
  <2>2. \A k \in 1..Len(Tail(commits[s])) :
          /\ Tail(commits[s])[k] = commits[s][k + 1]
          /\ k + 1 \in 1..Len(commits[s])
    BY <2>1, TailParts
  <2>3. Refusals'
    BY <1>1, <2>1, <2>2
  <2>4. \A x \in Server : Waiting(x)' /\ Alone(x)'
    BY <1>1, <1>6, TakeCommitWaiting
  <2> QED BY <2>3, <2>4 DEF SteadyInv
<1>7. CASE UNCHANGED <<handler, backend, appends, log, role, commitIndex,
                       commits, phase, command, elected>>
  <2>1. ASSUME NEW x \in Server PROVE Waiting(x)' /\ Alone(x)'
    BY <1>1, <1>7, Elsewhere
  <2> QED BY <1>1, <1>7, <2>1 DEF SteadyInv
<1>8. ASSUME NEW s \in Server,
             BeginRestore(s) \/ RestoreEntry(s) \/ Serve(s)
      PROVE  SteadyInv'
  BY <1>7, <1>8 DEF BeginRestore, RestoreEntry, Serve, raftVars, parserVars
<1>9. CASE UNCHANGED vars
  BY <1>7, <1>9 DEF vars, raftVars, parserVars, workVars
<1> QED BY <1>1, <1>2, <1>3, <1>4, <1>5, <1>6, <1>8, <1>9 DEF Next

LEMMA InitSteady == Init => FromLog /\ SteadyInv
<1> SUFFICES ASSUME Init PROVE FromLog /\ SteadyInv
  OBVIOUS
<1>1. \A s \in Server : /\ commits[s] = <<>> /\ appends[s] = <<>>
                        /\ handler[s].pc = "idle" /\ backend[s].pc = "idle"
                        /\ role[s] = "FOLLOWER"
  BY DEF Init, R!Init, R!ForEach, R!FOLLOWER, AtRest
<1>2. Len(<<>>) = 0
  OBVIOUS
<1>3. FromLog
  BY <1>1, <1>2 DEF FromLog
<1>4. \A s \in Server, a \in Kinds, k \in Nat : ~Holds(s, a, k)
  BY <1>1, <1>2 DEF Holds
<1>5. SteadyInv
  BY <1>1, <1>2, <1>4 DEF SteadyInv, Waiting, Alone
<1> QED BY <1>3, <1>5

LEMMA SteadyAnswers == SteadyInv => AnswersAwaited
<1> SUFFICES ASSUME SteadyInv, Steady, NEW s \in Server,
                    NEW w \in {handler[s], backend[s]},
                    w.pc \in {"reply", "stuck"}
             PROVE  /\ phase[s][w.client] = "awaiting"
                    /\ command[s][w.client] = w.command
  BY DEF AnswersAwaited
<1>1. \E a \in {"handler", "backend"} : Holds(s, a, 0) /\ Item(s, a, 0) = w
  BY ItemOf DEF Holds
<1> QED BY <1>1 DEF SteadyInv, Waiting, Kinds

\* Whoever sends an answer, the handler or the backend, has its connection's
\* goroutine waiting for it, and it is the answer to the command that this one
\* gave: as long as no server went down, one election was won at most and no
\* cas is in the log (server.go:388, 507).
THEOREM AnswersReachTheirClients == Spec => []AnswersAwaited
<1> DEFINE Inv == TypeInv /\ FromLog /\ SteadyInv
<1>1. Init => Inv
  BY InitTypeInv, InitSteady
<1>2. Inv /\ [Next]_vars => Inv'
  <2> SUFFICES ASSUME TypeInv, FromLog, SteadyInv, [Next]_vars PROVE Inv'
    OBVIOUS
  <2>1. TypeInv'
    BY NextTypeInv
  <2>2. FromLog'
    BY <2>1, NextFromLog
  <2>3. SteadyInv'
    BY <2>1, NextSteady
  <2> QED BY <2>1, <2>2, <2>3
<1>3. Inv => AnswersAwaited
  BY SteadyAnswers
<1> QED BY <1>1, <1>2, <1>3, PTL DEF Spec

-----------------------------------------------------------------------------
(* How many of the commits of a channel are no refusals.                   *)

Accepted(q, k) == Cardinality(AcceptedFrom(q, k))

LEMMA AcceptedFinite ==
    ASSUME NEW q \in Seq(Commit), NEW j \in Nat, NEW k \in Nat, j <= k
    PROVE  /\ IsFiniteSet(AcceptedFrom(q, k))
           /\ Accepted(q, k) \in Nat
           /\ Accepted(q, k) <= Accepted(q, j)
<1>1. Len(q) \in Nat
  BY LenProperties
<1>2. IsFiniteSet(j..Len(q))
  BY <1>1, FS_Interval
<1>3. AcceptedFrom(q, j) \in SUBSET (j..Len(q))
  BY DEF AcceptedFrom
<1>4. IsFiniteSet(AcceptedFrom(q, j))
  BY <1>2, <1>3, FS_Subset
<1>5. AcceptedFrom(q, k) \in SUBSET AcceptedFrom(q, j)
  BY <1>1 DEF AcceptedFrom
<1>6. /\ IsFiniteSet(AcceptedFrom(q, k))
      /\ Cardinality(AcceptedFrom(q, k)) <= Cardinality(AcceptedFrom(q, j))
  BY <1>4, <1>5, FS_Subset
<1> QED BY <1>6, FS_CardinalityType DEF Accepted

\* The commit at position k counts unless it is a refusal.
LEMMA AcceptedHere ==
    ASSUME NEW q \in Seq(Commit), NEW k \in 1..Len(q)
    PROVE  /\ Accepted(q, k) =
                IF q[k].err THEN Accepted(q, k + 1) ELSE Accepted(q, k + 1) + 1
           /\ ~q[k].err => Accepted(q, k) \in 1..Accepted(q, 1)
<1> DEFINE A == AcceptedFrom(q, k)
           B == AcceptedFrom(q, k + 1)
<1>1. Len(q) \in Nat /\ k \in Nat /\ k + 1 \in Nat /\ 1 <= k
  BY LenProperties
<1>2. /\ IsFiniteSet(B) /\ Cardinality(B) \in Nat
      /\ Cardinality(A) <= Cardinality(AcceptedFrom(q, 1))
      /\ Cardinality(AcceptedFrom(q, 1)) \in Nat
  BY <1>1, AcceptedFinite DEF Accepted
<1>3. k..Len(q) = {k} \cup ((k + 1)..Len(q)) /\ k \notin (k + 1)..Len(q)
  BY <1>1
<1>4. CASE q[k].err
  <2>1. A = B
    BY <1>3, <1>4 DEF AcceptedFrom
  <2> QED BY <1>4, <2>1 DEF Accepted
<1>5. CASE ~q[k].err
  <2>1. A = B \cup {k} /\ k \notin B
    BY <1>3, <1>5 DEF AcceptedFrom
  <2> HIDE DEF A, B
  <2>2. Cardinality(A) = Cardinality(B) + 1
    BY <1>2, <2>1, FS_AddElement
  <2>3. Cardinality(A) \in 1..Cardinality(AcceptedFrom(q, 1))
    BY <1>2, <2>2
  <2> QED BY <1>5, <2>2, <2>3 DEF A, B, Accepted
<1> QED BY <1>4, <1>5

LEMMA AcceptedTail ==
    ASSUME NEW q \in Seq(Commit), q # <<>>, NEW k \in 1..Len(q)
    PROVE  Accepted(Tail(q), k) = Accepted(q, k + 1)
<1> DEFINE t == Tail(q)
           A == AcceptedFrom(t, k)
           B == AcceptedFrom(q, k + 1)
           f == [h \in A |-> h + 1]
<1>1. /\ t \in Seq(Commit) /\ Len(t) = Len(q) - 1 /\ Len(q) \in Nat \ {0}
      /\ \A h \in 1..Len(t) : t[h] = q[h + 1]
  BY TailParts
<1> HIDE DEF t
<1>2. IsFiniteSet(A)
  BY <1>1, AcceptedFinite
<1>3. A \subseteq k..Len(t) /\ B \subseteq (k + 1)..Len(q)
  BY DEF AcceptedFrom
<1>4. \A h \in k..Len(t) : t[h] = q[h + 1] /\ h + 1 \in (k + 1)..Len(q)
  BY <1>1
<1>5. \A h \in (k + 1)..Len(q) : h - 1 \in k..Len(t) /\ h - 1 + 1 = h
  BY <1>1
<1>6. \A h \in A : h + 1 \in B
  BY <1>4 DEF AcceptedFrom
<1>7. \A h \in B : h - 1 \in A /\ h - 1 + 1 = h
  BY <1>4, <1>5 DEF AcceptedFrom
<1>8. \A h, l \in A : h + 1 = l + 1 => h = l
  BY <1>1, <1>3
<1> HIDE DEF A, B
<1>9. f \in Injection(A, B)
  BY <1>6, <1>8 DEF Injection, IsInjective
<1>10. f \in Surjection(A, B)
  BY <1>6, <1>7 DEF Surjection
<1>11. ExistsBijection(A, B)
  BY <1>9, <1>10 DEF ExistsBijection, Bijection
<1>12. Cardinality(B) = Cardinality(A)
  BY <1>2, <1>11, FS_Bijection
<1> QED BY <1>12 DEF Accepted, A, B, t

\* A refusal that is appended does not count.
LEMMA AcceptedRefusal ==
    ASSUME NEW q \in Seq(Commit), NEW e \in Commit, e.err,
           NEW k \in 1..Len(q) + 1
    PROVE  Accepted(Append(q, e), k) = Accepted(q, k)
<1> DEFINE a == Append(q, e)
<1>1. /\ Len(q) \in Nat /\ Len(a) = Len(q) + 1 /\ a[Len(q) + 1] = e
      /\ \A h \in 1..Len(q) : a[h] = q[h]
  BY AppendProperties, LenProperties
<1> HIDE DEF a
<1>2. \A h \in k..Len(a) :
        \/ h \in k..Len(q) /\ a[h] = q[h]
        \/ h = Len(q) + 1
  BY <1>1
<1>3. \A h \in k..Len(q) : h \in k..Len(a) /\ a[h] = q[h]
  BY <1>1
<1>4. AcceptedFrom(a, k) = AcceptedFrom(q, k)
  BY <1>1, <1>2, <1>3 DEF AcceptedFrom
<1> QED BY <1>4 DEF Accepted, a

\* What a node pushes counts, and what it then refuses does not.
LEMMA AcceptedAfter ==
    ASSUME TypeInv, TypeInv', ClusterStep, NEW s \in Server
    PROVE  /\ \A k \in 1..Len(commits[s]) + 1 :
                Accepted(commits'[s], k) = Accepted(commits[s], k) + Pushed(s)
           /\ \A h \in 1..Pushed(s) :
                Accepted(commits'[s], Len(commits[s]) + h) = Pushed(s) - h + 1
<1> DEFINE q == commits[s]
           a == commits'[s]
           n == Len(commits[s])
           p == Pushed(s)
           r == Len(Refused(s))
<1>1. /\ n \in Nat /\ p \in Nat /\ r \in Nat /\ Len(a) = n + p + r
      /\ \A k \in 1..n : a[k] = q[k]
      /\ \A k \in 1..p : ~a[n + k].err
      /\ \A k \in 1..r : a[n + p + k].err
  <2>1. /\ n \in Nat /\ p \in Nat /\ r \in Nat /\ Len(a) = n + p + r
        /\ \A k \in 1..n : a[k] = q[k]
    BY CommitsAfter
  <2>2. ASSUME NEW k \in 1..p PROVE ~a[n + k].err
    <3>1. a[n + k] = [entry |-> delivered'[s][Len(delivered[s]) + k],
                      err |-> FALSE]
      BY CommitsAfter
    <3> HIDE DEF a, n
    <3> QED BY <3>1
  <2>3. ASSUME NEW k \in 1..r PROVE a[n + p + k].err
    <3>1. a[n + p + k] = [entry |-> log[s][commitIndex[s] + k].cmd,
                          err |-> TRUE]
      BY CommitsAfter
    <3> HIDE DEF a, n, p
    <3> QED BY <3>1
  <2> QED BY <2>1, <2>2, <2>3
<1>2. q \in Seq(Commit)
  BY DEF TypeInv, TypeOK
<1>3. Len(q) = n
  OBVIOUS
<1> HIDE DEF q, a, n, p, r
<1>4. \A h \in (n + 1)..(n + p) : ~a[h].err
  <2>1. \A h \in (n + 1)..(n + p) : h - n \in 1..p /\ n + (h - n) = h
    BY <1>1
  <2> QED BY <1>1, <2>1
<1>5. \A h \in (n + p + 1)..(n + p + r) : a[h].err
  <2>1. \A h \in (n + p + 1)..(n + p + r) :
          h - n - p \in 1..r /\ n + p + (h - n - p) = h
    BY <1>1
  <2> QED BY <1>1, <2>1
<1>6. ASSUME NEW k \in 1..n + 1
      PROVE  Accepted(a, k) = Accepted(q, k) + p
  <2>1. k..Len(a) = (k..n) \cup ((n + 1)..(n + p))
                           \cup ((n + p + 1)..(n + p + r))
    BY <1>1
  <2>2. \A h \in k..n : h \in 1..n
    BY <1>1
  <2>3. AcceptedFrom(a, k) = AcceptedFrom(q, k) \cup ((n + 1)..(n + p))
    BY <1>1, <1>3, <1>4, <1>5, <2>1, <2>2 DEF AcceptedFrom
  <2>4. AcceptedFrom(q, k) \cap ((n + 1)..(n + p)) = {}
    BY <1>1, <1>3 DEF AcceptedFrom
  <2>5. IsFiniteSet(AcceptedFrom(q, k)) /\ Cardinality(AcceptedFrom(q, k)) \in Nat
    BY <1>1, <1>2, AcceptedFinite DEF Accepted
  <2>6. /\ IsFiniteSet((n + 1)..(n + p))
        /\ Cardinality((n + 1)..(n + p)) = p
    <3>1. n + 1 \in Int /\ n + p \in Int
      BY <1>1
    <3>2. /\ IsFiniteSet((n + 1)..(n + p))
          /\ Cardinality((n + 1)..(n + p)) =
               IF n + 1 > n + p THEN 0 ELSE (n + p) - (n + 1) + 1
      BY <3>1, FS_Interval
    <3> QED BY <1>1, <3>2
  <2>7. Cardinality(AcceptedFrom(a, k)) =
          Cardinality(AcceptedFrom(q, k)) + p - 0
    <3> DEFINE U == AcceptedFrom(q, k)
               V == (n + 1)..(n + p)
    <3>1. IsFiniteSet(U) /\ IsFiniteSet(V) /\ U \cap V = {}
      BY <2>4, <2>5, <2>6
    <3>2. Cardinality(V) = p /\ AcceptedFrom(a, k) = U \cup V
      BY <2>3, <2>6
    <3> HIDE DEF U, V
    <3>3. Cardinality(U \cup V) =
            Cardinality(U) + Cardinality(V) - Cardinality(U \cap V)
      BY <3>1, FS_Union
    <3>4. Cardinality(U \cap V) = 0
      BY <3>1, FS_EmptySet
    <3>5. Cardinality(AcceptedFrom(a, k)) = Cardinality(U) + p - 0
      BY <3>2, <3>3, <3>4
    <3> QED BY <3>5 DEF U
  <2> QED BY <1>1, <2>5, <2>7 DEF Accepted
<1>7. ASSUME NEW h \in 1..p
      PROVE  Accepted(a, n + h) = p - h + 1
  <2>1. (n + h)..Len(a) = ((n + h)..(n + p)) \cup ((n + p + 1)..(n + p + r))
    BY <1>1
  <2>2. (n + h)..(n + p) \subseteq (n + 1)..(n + p)
    BY <1>1
  <2>3. AcceptedFrom(a, n + h) = (n + h)..(n + p)
    BY <1>4, <1>5, <2>1, <2>2 DEF AcceptedFrom
  <2>4. n + h \in Int /\ n + p \in Int
    BY <1>1
  <2>5. Cardinality((n + h)..(n + p)) =
          IF n + h > n + p THEN 0 ELSE (n + p) - (n + h) + 1
    BY <2>4, FS_Interval
  <2> QED BY <1>1, <2>3, <2>5 DEF Accepted
<1> QED BY <1>6, <1>7 DEF q, a, n, p

-----------------------------------------------------------------------------
(* What is on its way to the map of a server is what its node delivered    *)
(* last, in that order, as long as no server went down.                    *)

ReadsOnly(s) == handler[s].pc = "map" => handler[s].command.op = "read"

InPlace(s) ==
    /\ Executed(s) \in Nat
    /\ \A k \in 1..Len(commits[s]) : ~commits[s][k].err =>
         commits[s][k].entry =
           delivered[s][Len(delivered[s]) - Accepted(commits[s], k) + 1]
    /\ backend[s].pc = "map" =>
         backend[s].command = delivered[s][Executed(s) + 1].command

PositionInv ==
    powerOffs = 0 =>
        \A s \in Server : main[s] = "serving" /\ ReadsOnly(s) /\ InPlace(s)

\* Nothing is pushed on the channel of a server and nothing taken from it.
LEMMA InPlaceStays ==
    ASSUME NEW x \in Server, InPlace(x),
           delivered'[x] = delivered[x], commits'[x] = commits[x],
           \/ backend'[x] = backend[x]
           \/ backend[x].pc # "map" /\ backend'[x].pc # "map"
    PROVE  InPlace(x)' /\ Executed(x)' = Executed(x)
<1>1. Executed(x)' = Executed(x)
  BY DEF Executed
<1>2. InPlace(x)'
  BY <1>1 DEF InPlace, Accepted
<1> QED BY <1>1, <1>2

\* The place of a commit is one of the node's pushes.
LEMMA PlaceOf ==
    ASSUME TypeInv, NEW s \in Server, InPlace(s)
    PROVE  /\ delivered[s] \in Seq(Entry) /\ Len(delivered[s]) \in Nat
           /\ commits[s] \in Seq(Commit)
           /\ Accepted(commits[s], 1) \in Nat
           /\ Executed(s) = Len(delivered[s]) - Accepted(commits[s], 1)
                              - (IF backend[s].pc = "map" THEN 1 ELSE 0)
           /\ Executed(s) \in Nat
           /\ Executed(s) <= Len(delivered[s])
           /\ \A k \in 1..Len(commits[s]) : ~commits[s][k].err =>
                /\ Accepted(commits[s], k) \in 1..Len(delivered[s])
                /\ Len(delivered[s]) - Accepted(commits[s], k) + 1
                     \in 1..Len(delivered[s])
<1>1. delivered[s] \in Seq(Entry) /\ commits[s] \in Seq(Commit)
  BY DEF TypeInv, TypeOK, RaftInv, RM!TypeOK
<1>2. Len(delivered[s]) \in Nat /\ Accepted(commits[s], 1) \in Nat
  BY <1>1, LenProperties, AcceptedFinite
<1>3. /\ Executed(s) = Len(delivered[s]) - Accepted(commits[s], 1)
                         - (IF backend[s].pc = "map" THEN 1 ELSE 0)
      /\ Executed(s) \in Nat
  BY DEF Executed, Accepted, InPlace
<1>4. Accepted(commits[s], 1) <= Len(delivered[s])
  BY <1>2, <1>3
<1>5. ASSUME NEW k \in 1..Len(commits[s]), ~commits[s][k].err
      PROVE  /\ Accepted(commits[s], k) \in 1..Len(delivered[s])
             /\ Len(delivered[s]) - Accepted(commits[s], k) + 1
                  \in 1..Len(delivered[s])
  <2>1. Accepted(commits[s], k) \in 1..Accepted(commits[s], 1)
    BY <1>1, <1>5, AcceptedHere
  <2> QED BY <1>2, <1>4, <2>1
<1>6. Executed(s) <= Len(delivered[s])
  BY <1>2, <1>3
<1> QED BY <1>1, <1>2, <1>3, <1>5, <1>6

LEMMA ClusterInPlace ==
    ASSUME TypeInv, TypeInv', ClusterStep, NEW s \in Server, InPlace(s)
    PROVE  /\ InPlace(s)' /\ Executed(s)' = Executed(s)
           /\ RM!Begins(delivered[s], delivered'[s])
<1> DEFINE d == delivered[s]
           e == delivered'[s]
           q == commits[s]
           a == commits'[s]
           n == Len(commits[s])
           p == Pushed(s)
<1>1. /\ Len(d) \in Nat /\ p \in Nat /\ n \in Nat /\ Len(e) \in Nat
      /\ Len(e) = Len(d) + p
  <2>1. p \in Nat /\ n \in Nat
    BY CommitsAfter
  <2>2. Len(d) \in Nat
    BY PlaceOf
  <2>3. Len(e) \in Nat
    <3>1. e \in Seq(Entry)
      BY DEF TypeInv, RaftInv, RM!TypeOK
    <3> QED BY <3>1, LenProperties
  <2> QED BY <2>1, <2>2, <2>3 DEF Pushed
<1>2. RM!Begins(d, e)
  BY ClusterStepRuns, RaftAssumptions, RM!RunPushes DEF TypeInv, RaftInv
<1>3. \A k \in 1..Len(d) : e[k] = d[k]
  BY <1>2 DEF RM!Begins
<1>4. backend' = backend
  BY DEF ClusterStep, workVars
<1>5. Executed(s)' = Executed(s)
  <2>1. 1 \in 1..n + 1
    BY <1>1
  <2>2. Accepted(a, 1) = Accepted(q, 1) + p /\ Accepted(q, 1) \in Nat
    BY <2>1, AcceptedAfter, PlaceOf
  <2>3. Executed(s)' = Len(e) - Accepted(a, 1)
                         - (IF backend[s].pc = "map" THEN 1 ELSE 0)
    BY <1>4 DEF Executed, Accepted
  <2>4. Executed(s) = Len(d) - Accepted(q, 1)
                        - (IF backend[s].pc = "map" THEN 1 ELSE 0)
    BY DEF Executed, Accepted
  <2> HIDE DEF d, e, q, a, n, p
  <2> QED BY <1>1, <2>2, <2>3, <2>4
<1>6. ASSUME NEW k \in 1..Len(a), ~a[k].err
      PROVE  a[k].entry = e[Len(e) - Accepted(a, k) + 1]
  <2>1. CASE k \in 1..n /\ a[k] = q[k]
    <3>1. /\ q[k].entry = d[Len(d) - Accepted(q, k) + 1]
          /\ Accepted(q, k) \in 1..Len(d)
          /\ Len(d) - Accepted(q, k) + 1 \in 1..Len(d)
      BY <1>6, <2>1, PlaceOf DEF InPlace
    <3>2. k \in 1..n + 1
      BY <1>1, <2>1
    <3>3. Accepted(a, k) = Accepted(q, k) + p
      BY <3>2, AcceptedAfter
    <3> HIDE DEF d, e, q, a, n, p
    <3>4. Len(e) - Accepted(a, k) + 1 = Len(d) - Accepted(q, k) + 1
      BY <1>1, <3>1, <3>3
    <3> QED BY <1>3, <2>1, <3>1, <3>4
  <2>2. ASSUME NEW h \in 1..p, k = n + h,
               a[k] = [entry |-> e[Len(d) + h], err |-> FALSE]
        PROVE  a[k].entry = e[Len(e) - Accepted(a, k) + 1]
    <3>1. Accepted(a, n + h) = p - h + 1
      BY AcceptedAfter
    <3> HIDE DEF d, e, q, a, n, p
    <3>2. Len(e) - Accepted(a, k) + 1 = Len(d) + h
      BY <1>1, <2>2, <3>1
    <3> QED BY <2>2, <3>2
  <2>3. ASSUME NEW h, a[k] = [entry |-> log[s][commitIndex[s] + h].cmd,
                              err |-> TRUE]
        PROVE  FALSE
    <3> HIDE DEF a
    <3> QED BY <1>6, <2>3
  <2>4. \/ k \in 1..n /\ a[k] = q[k]
        \/ \E h \in 1..p :
             k = n + h /\ a[k] = [entry |-> e[Len(d) + h], err |-> FALSE]
        \/ \E h : a[k] = [entry |-> log[s][commitIndex[s] + h].cmd,
                          err |-> TRUE]
    BY CommitAt
  <2> HIDE DEF d, e, q, a, n, p
  <2> QED BY <2>1, <2>2, <2>3, <2>4
<1>7. backend[s].pc = "map" => backend[s].command = e[Executed(s) + 1].command
  <2> SUFFICES ASSUME backend[s].pc = "map"
               PROVE  backend[s].command = e[Executed(s) + 1].command
    OBVIOUS
  <2>1. backend[s].command = d[Executed(s) + 1].command
    BY DEF InPlace
  <2>2. Executed(s) + 1 \in 1..Len(d)
    <3>1. /\ Executed(s) = Len(d) - Accepted(q, 1) - 1
          /\ Accepted(q, 1) \in Nat /\ Executed(s) \in Nat
      BY PlaceOf
    <3> HIDE DEF d, q
    <3> QED BY <1>1, <3>1
  <2> QED BY <1>3, <2>1, <2>2
<1>8. Executed(s) \in Nat
  BY DEF InPlace
<1>9. InPlace(s)'
  BY <1>4, <1>5, <1>6, <1>7, <1>8 DEF InPlace
<1> QED BY <1>2, <1>5, <1>9

\* A commit is taken: what is not refused goes to the map, and is executed
\* only there.
LEMMA TakeCommitInPlace ==
    ASSUME TypeInv, TypeInv', NEW s \in Server, TakeCommit(s), InPlace(s)
    PROVE  InPlace(s)' /\ Executed(s)' = Executed(s)
<1> DEFINE d == delivered[s]
           q == commits[s]
           t == Tail(commits[s])
<1>1. /\ q \in Seq(Commit) /\ q # <<>>
      /\ commits'[s] = t /\ delivered'[s] = d
      /\ backend[s].pc = "idle"
  BY DEF TakeCommit, TypeInv, TypeOK, raftVars
<1>2. /\ Len(q) \in Nat \ {0} /\ Len(t) = Len(q) - 1 /\ 1 \in 1..Len(q)
      /\ Head(q) = q[1]
      /\ \A k \in 1..Len(t) : t[k] = q[k + 1] /\ k + 1 \in 1..Len(q)
  BY <1>1, TailParts
<1>3. \A k \in 1..Len(q) : Accepted(t, k) = Accepted(q, k + 1)
  BY <1>1, AcceptedTail
<1>4. backend'[s] = IF q[1].err
                    THEN Sending(s, q[1].entry.client, q[1].entry.command,
                                 ErrRedirect)
                    ELSE Executing(q[1].entry.client, q[1].entry.command,
                                   role[s] = "LEADER")
  BY <1>2 DEF TakeCommit, TypeInv, TypeOK
<1>5. /\ Accepted(t, 1) = Accepted(q, 2) /\ Accepted(t, 1) \in Nat
      /\ Accepted(q, 1) = IF q[1].err THEN Accepted(q, 2)
                                      ELSE Accepted(q, 2) + 1
  <2>1. /\ Accepted(q, 1) = IF q[1].err THEN Accepted(q, 1 + 1)
                                        ELSE Accepted(q, 1 + 1) + 1
        /\ Accepted(t, 1) = Accepted(q, 1 + 1)
    BY <1>1, <1>2, <1>3, AcceptedHere
  <2>2. 1 + 1 = 2 /\ 1 \in Nat /\ 2 \in Nat /\ 1 <= 2
    OBVIOUS
  <2>3. Accepted(q, 2) \in Nat
    BY <1>1, <2>2, AcceptedFinite
  <2> QED BY <2>1, <2>2, <2>3
<1>6. /\ Len(d) \in Nat /\ Executed(s) \in Nat
      /\ Executed(s) = Len(d) - Accepted(q, 1)
  <2>1. /\ Len(d) \in Nat /\ Accepted(q, 1) \in Nat /\ Executed(s) \in Nat
        /\ Executed(s) = Len(d) - Accepted(q, 1)
                           - (IF backend[s].pc = "map" THEN 1 ELSE 0)
    BY PlaceOf
  <2> HIDE DEF d, q
  <2> QED BY <1>1, <2>1
<1>7. Executed(s)' = Len(d) - Accepted(t, 1)
                       - (IF backend'[s].pc = "map" THEN 1 ELSE 0)
  BY <1>1 DEF Executed, Accepted
<1>8. IF q[1].err THEN backend'[s].pc # "map"
      ELSE /\ backend'[s].pc = "map"
           /\ backend'[s].command = q[1].entry.command
  BY <1>4, NotAtMap DEF Executing
<1>9. ~q[1].err => q[1].entry = d[Len(d) - Accepted(q, 1) + 1]
  BY <1>2 DEF InPlace
<1> HIDE DEF d, q, t
<1>10. Executed(s)' = Executed(s)
  <2>1. CASE q[1].err
    BY <1>5, <1>6, <1>7, <1>8, <2>1
  <2>2. CASE ~q[1].err
    <3>1. Accepted(q, 1) = Accepted(t, 1) + 1
      BY <1>5, <2>2
    <3>2. Executed(s)' = Len(d) - Accepted(t, 1) - 1
      BY <1>7, <1>8, <2>2
    <3> QED BY <1>5, <1>6, <3>1, <3>2
  <2> QED BY <2>1, <2>2
<1>11. ASSUME NEW k \in 1..Len(t), ~t[k].err
       PROVE  t[k].entry = d[Len(d) - Accepted(t, k) + 1]
  <2>1. t[k] = q[k + 1] /\ k + 1 \in 1..Len(q) /\ k \in 1..Len(q)
    BY <1>2
  <2>2. q[k + 1].entry = d[Len(d) - Accepted(q, k + 1) + 1]
    BY <1>11, <2>1 DEF InPlace, d, q
  <2> QED BY <1>3, <2>1, <2>2
<1>12. backend'[s].pc = "map" => backend'[s].command = d[Executed(s) + 1].command
  BY <1>6, <1>8, <1>9
<1>13. InPlace(s)'
  BY <1>1, <1>6, <1>10, <1>11, <1>12 DEF InPlace
<1> QED BY <1>10, <1>13

LEMMA RefuseInPlace ==
    ASSUME TypeInv, NEW s \in Server, RefuseAppend(s), InPlace(s)
    PROVE  InPlace(s)' /\ Executed(s)' = Executed(s)
<1> DEFINE d == delivered[s]
           q == commits[s]
           e == [entry |-> Head(appends[s]), err |-> TRUE]
           a == Append(commits[s], e)
<1>1. /\ q \in Seq(Commit) /\ commits'[s] = a /\ delivered'[s] = d
      /\ backend' = backend
  BY DEF RefuseAppend, TypeInv, TypeOK, raftVars, workVars
<1>2. e \in Commit /\ e.err
  <2>1. appends[s] \in Seq(Entry) /\ appends[s] # <<>>
    BY DEF RefuseAppend, TypeInv, TypeOK
  <2>2. Head(appends[s]) \in Entry
    BY <2>1, HeadTailProperties
  <2> QED BY <2>2 DEF Commit
<1> HIDE DEF e
<1>3. /\ Len(q) \in Nat /\ Len(a) = Len(q) + 1 /\ a[Len(q) + 1] = e
      /\ \A h \in 1..Len(q) : a[h] = q[h]
  BY <1>1, <1>2, AppendProperties, LenProperties
<1>4. \A k \in 1..Len(q) + 1 : Accepted(a, k) = Accepted(q, k)
  BY <1>1, <1>2, AcceptedRefusal
<1> HIDE DEF a
<1>5. Executed(s)' = Executed(s)
  <2>1. Accepted(a, 1) = Accepted(q, 1)
    BY <1>3, <1>4
  <2> QED BY <1>1, <2>1 DEF Executed, Accepted
<1>6. ASSUME NEW k \in 1..Len(a), ~a[k].err
      PROVE  a[k].entry = d[Len(d) - Accepted(a, k) + 1]
  <2>1. k \in 1..Len(q) /\ a[k] = q[k]
    BY <1>2, <1>3, <1>6
  <2>2. Accepted(a, k) = Accepted(q, k)
    BY <1>3, <1>4, <2>1
  <2> QED BY <1>6, <2>1, <2>2 DEF InPlace
<1>7. InPlace(s)'
  BY <1>1, <1>5, <1>6 DEF InPlace
<1> QED BY <1>5, <1>7

LEMMA BackendMapInPlace ==
    ASSUME TypeInv, NEW s \in Server, BackendMap(s), InPlace(s)
    PROVE  InPlace(s)' /\ Executed(s)' = Executed(s) + 1
<1>1. /\ UNCHANGED <<delivered, commits>> /\ backend[s].pc = "map"
      /\ backend'[s].pc # "map"
  <2>1. backend \in [Server -> Worker]
    BY DEF TypeInv, TypeOK
  <2>2. UNCHANGED <<delivered, commits>> /\ backend[s].pc = "map"
    BY DEF BackendMap, raftVars
  <2> QED BY <2>1, <2>2, MapSteps, NotAtMap
<1>2. /\ Len(delivered[s]) \in Nat /\ Accepted(commits[s], 1) \in Nat
      /\ Executed(s) = Len(delivered[s]) - Accepted(commits[s], 1) - 1
      /\ Executed(s) \in Nat
  BY <1>1, PlaceOf
<1>3. Executed(s)' = Len(delivered[s]) - Accepted(commits[s], 1) - 0
  BY <1>1 DEF Executed, Accepted
<1>4. Executed(s)' = Executed(s) + 1
  BY <1>2, <1>3
<1>5. InPlace(s)'
  BY <1>1, <1>2, <1>4 DEF InPlace, Accepted
<1> QED BY <1>4, <1>5

\* A step of the servers that changes no map and executes nothing, reads, or
\* executes one more of the entries of one server.
Rests == UNCHANGED data /\ \A x \in Server : Executed(x)' = Executed(x)

Reads(s) == HandlerMap(s) /\ \A x \in Server : Executed(x)' = Executed(x)

Executes(s) ==
    /\ BackendMap(s)
    /\ Executed(s)' = Executed(s) + 1
    /\ \A x \in Server : x # s => Executed(x)' = Executed(x)

StepOfReplicas ==
    /\ \A x \in Server : main'[x] = "serving" /\ ReadsOnly(x)' /\ InPlace(x)'
    /\ \A x \in Server : RM!Begins(delivered[x], delivered'[x])
    /\ submitted \subseteq submitted'
    /\ Rests \/ \E s \in Server : Reads(s) \/ Executes(s)

LEMMA NextPosition ==
    ASSUME TypeInv, TypeInv', PositionInv, [Next]_vars, powerOffs' = 0
    PROVE  powerOffs = 0 /\ StepOfReplicas
<1>1. /\ \A x \in Server : main[x] = "serving" /\ ReadsOnly(x) /\ InPlace(x)
      /\ powerOffs = 0
      /\ \A s \in Server : ~ShutdownByClient(s) /\ ~Crash(s) /\ ~Start(s)
  BY NoFailure DEF PositionInv
<1>2. /\ commits \in [Server -> Seq(Commit)]
      /\ handler \in [Server -> Worker] /\ backend \in [Server -> Worker]
      /\ backend' \in [Server -> Worker]
      /\ \A x \in Server : delivered[x] \in Seq(Entry)
  BY DEF TypeInv, TypeOK, RaftInv, RM!TypeOK
<1>3. \A x \in Server : RM!Begins(delivered[x], delivered[x])
  <2>1. \A x \in Server : Len(delivered[x]) \in Nat
    BY <1>2, LenProperties
  <2> QED BY <2>1 DEF RM!Begins
<1>4. CASE ClusterStep
  <2>1. \A x \in Server : /\ InPlace(x)' /\ Executed(x)' = Executed(x)
                          /\ RM!Begins(delivered[x], delivered'[x])
    BY <1>1, <1>4, ClusterInPlace
  <2>2. UNCHANGED <<data, main, handler>>
    BY <1>4 DEF ClusterStep, workVars
  <2>3. UNCHANGED submitted
    BY <1>4, ClusterStepRuns, RaftAssumptions, RM!RunPushes
       DEF TypeInv, RaftInv
  <2>4. Rests
    BY <2>1, <2>2 DEF Rests
  <2> QED BY <1>1, <2>1, <2>2, <2>3, <2>4 DEF StepOfReplicas, ReadsOnly
<1>5. ASSUME UNCHANGED <<delivered, submitted, commits, main>>
      PROVE  /\ \A x \in Server : main'[x] = "serving"
             /\ \A x \in Server : RM!Begins(delivered[x], delivered'[x])
             /\ submitted \subseteq submitted'
  BY <1>1, <1>3, <1>5
\* The steps in which nothing but the handler and the parsers moves.
<1>6. ASSUME UNCHANGED <<delivered, submitted, commits, main, backend>>,
             \A x \in Server : ReadsOnly(x)',
             UNCHANGED data \/ \E s \in Server : HandlerMap(s)
      PROVE  StepOfReplicas
  <2>1. \A x \in Server : InPlace(x)' /\ Executed(x)' = Executed(x)
    BY <1>1, <1>6, InPlaceStays
  <2>2. Rests \/ \E s \in Server : Reads(s)
    BY <1>6, <2>1 DEF Rests, Reads
  <2> QED BY <1>5, <1>6, <2>1, <2>2 DEF StepOfReplicas
<1>7. ASSUME NEW s \in Server, NEW c \in Clients,
             \/ Connect(s, c) \/ Parse(s, c) \/ Reject(s, c)
             \/ TakeChange(s, c) \/ TakeRead(s, c) \/ TakeShutdown(s, c)
      PROVE  StepOfReplicas
  <2>1. UNCHANGED <<delivered, submitted, commits, main, backend, data>>
    BY <1>7 DEF Connect, Parse, Reject, TakeLine, TakeChange, TakeRead,
                TakeShutdown, Take, raftVars, workVars
  <2>2. \A x \in Server : ReadsOnly(x)'
    <3>1. CASE TakeRead(s, c)
      <4>1. /\ command[s][c].op = "read"
            /\ handler' = [handler EXCEPT ![s] =
                             Executing(c, command[s][c], TRUE)]
        BY <3>1 DEF TakeRead
      <4>2. Executing(c, command[s][c], TRUE).command = command[s][c]
        BY DEF Executing
      <4> QED BY <1>1, <1>2, <4>1, <4>2 DEF ReadsOnly
    <3>2. CASE TakeShutdown(s, c)
      <4>1. handler' = [handler EXCEPT ![s].pc = "done"]
        BY <3>2 DEF TakeShutdown
      <4>2. \A x \in Server : handler'[x] = handler[x] \/ handler'[x].pc = "done"
        BY <1>2, <4>1 DEF Worker
      <4> QED BY <1>1, <4>2 DEF ReadsOnly
    <3>3. CASE UNCHANGED handler
      BY <1>1, <3>3 DEF ReadsOnly
    <3> QED BY <1>7, <3>1, <3>2, <3>3
            DEF Connect, Parse, Reject, TakeLine, TakeChange, workVars
  <2> QED BY <1>6, <2>1, <2>2
<1>8. ASSUME NEW s \in Server, HandlerMap(s) \/ HandlerReply(s)
      PROVE  StepOfReplicas
  <2>1. /\ UNCHANGED <<delivered, submitted, commits, main, backend>>
        /\ UNCHANGED data \/ HandlerMap(s)
    BY <1>8 DEF HandlerMap, HandlerReply, raftVars
  <2>2. \A x \in Server : handler'[x] = handler[x] \/ handler'[x].pc # "map"
    <3>1. CASE HandlerMap(s)
      BY <1>2, <3>1, MapSteps, NotAtMap
    <3>2. CASE HandlerReply(s)
      BY <1>2, <3>2, NotAtMap DEF HandlerReply
    <3> QED BY <1>8, <3>1, <3>2
  <2>3. \A x \in Server : ReadsOnly(x)'
    BY <1>1, <2>2 DEF ReadsOnly
  <2> QED BY <1>6, <2>1, <2>3
<1>9. ASSUME NEW s \in Server, AcceptAppend(s) PROVE StepOfReplicas
  <2>1. /\ UNCHANGED <<delivered, commits, main, backend, data, handler>>
        /\ submitted \subseteq submitted'
    BY <1>9 DEF AcceptAppend, R!LeaderAppendEvent, workVars, R!commitVars
  <2>2. \A x \in Server : InPlace(x)' /\ Executed(x)' = Executed(x)
    BY <1>1, <2>1, InPlaceStays
  <2>3. \A x \in Server : ReadsOnly(x)'
    BY <1>1, <2>1 DEF ReadsOnly
  <2> QED BY <1>1, <1>3, <2>1, <2>2, <2>3 DEF StepOfReplicas, Rests
\* The steps of one server that its backend takes, or that refuse a command.
<1>10. ASSUME NEW s \in Server, UNCHANGED <<delivered, submitted, main, handler>>,
              \A x \in Server : x # s =>
                commits'[x] = commits[x] /\ backend'[x] = backend[x],
              InPlace(s)',
              \/ UNCHANGED data /\ Executed(s)' = Executed(s)
              \/ BackendMap(s) /\ Executed(s)' = Executed(s) + 1
       PROVE  StepOfReplicas
  <2>1. ASSUME NEW x \in Server, x # s
        PROVE  InPlace(x)' /\ Executed(x)' = Executed(x)
    BY <1>1, <1>10, <2>1, InPlaceStays
  <2>2. Rests \/ Executes(s)
    BY <1>10, <2>1 DEF Rests, Executes
  <2> QED BY <1>1, <1>3, <1>10, <2>1, <2>2 DEF StepOfReplicas, ReadsOnly
<1>11. ASSUME NEW s \in Server,
              TakeCommit(s) \/ RefuseAppend(s) \/ BackendMap(s)
       PROVE  StepOfReplicas
  <2>1. /\ UNCHANGED <<delivered, submitted, main, handler>>
        /\ \A x \in Server : x # s =>
             commits'[x] = commits[x] /\ backend'[x] = backend[x]
        /\ UNCHANGED data \/ BackendMap(s)
    BY <1>2, <1>11 DEF TakeCommit, RefuseAppend, BackendMap, raftVars, workVars
  <2>2. CASE TakeCommit(s)
    <3>1. UNCHANGED data
      BY <2>2 DEF TakeCommit
    <3> QED BY <1>1, <1>10, <2>1, <2>2, <3>1, TakeCommitInPlace
  <2>3. CASE RefuseAppend(s)
    <3>1. UNCHANGED data
      BY <2>3 DEF RefuseAppend
    <3> QED BY <1>1, <1>10, <2>1, <2>3, <3>1, RefuseInPlace
  <2>4. CASE BackendMap(s)
    BY <1>1, <1>10, <2>1, <2>4, BackendMapInPlace
  <2> QED BY <1>11, <2>2, <2>3, <2>4
<1>12. ASSUME NEW s \in Server, BackendReply(s) \/ BackendClose(s)
       PROVE  StepOfReplicas
  <2>1. /\ UNCHANGED <<delivered, submitted, commits, main, handler, data>>
        /\ \A x \in Server : x # s => backend'[x] = backend[x]
    BY <1>2, <1>12 DEF BackendReply, BackendClose, raftVars
  <2>2. backend[s].pc # "map" /\ backend'[s].pc # "map"
    <3>1. CASE BackendReply(s)
      <4>1. /\ backend[s].pc = "reply"
            /\ backend'[s] = IF backend[s].answer = ErrRedirect
                             THEN [backend[s] EXCEPT !.pc = "close"]
                             ELSE AtRest
        BY <1>2, <3>1 DEF BackendReply
      <4>2. backend[s] \in Worker
        BY <1>2
      <4>3. [backend[s] EXCEPT !.pc = "close"].pc = "close"
        BY <4>2, PhaseType
      <4> QED BY <4>1, <4>3, NotAtMap
    <3>2. CASE BackendClose(s)
      BY <1>2, <3>2, NotAtMap DEF BackendClose
    <3> QED BY <1>12, <3>1, <3>2
  <2>3. InPlace(s)' /\ Executed(s)' = Executed(s)
    BY <1>1, <2>1, <2>2, InPlaceStays
  <2> QED BY <1>10, <2>1, <2>3
<1>13. ASSUME NEW s \in Server,
              BeginRestore(s) \/ RestoreEntry(s) \/ Serve(s)
       PROVE  FALSE
  BY <1>1, <1>13 DEF BeginRestore, RestoreEntry, Serve
<1>14. CASE UNCHANGED vars
  <2>1. UNCHANGED <<delivered, submitted, commits, main, backend, data, handler>>
    BY <1>14 DEF vars, raftVars, workVars
  <2>2. \A x \in Server : ReadsOnly(x)'
    BY <1>1, <2>1 DEF ReadsOnly
  <2> QED BY <1>1, <1>6, <2>1, <2>2
<1> QED BY <1>1, <1>4, <1>7, <1>8, <1>9, <1>11, <1>12, <1>13, <1>14 DEF Next

-----------------------------------------------------------------------------
(* The maps of the servers are stages of one history.                      *)

Map == [Files -> File \cup {NoFile}]

\* What a command without an expiry does to a map, whenever that is.
Effect(m, d) == [d EXCEPT ![m.file] = Outcome(m, d[m.file], 0).entry]

Lasting(fl) == fl # NoFile => fl.life = 0

LEMMA LastingOutcome ==
    ASSUME NEW m \in CommandsAt(Nat), m.struct.life = 0,
           NEW fl \in File \cup {NoFile}, Lasting(fl), NEW t \in Nat
    PROVE  /\ Outcome(m, fl, t).entry = Outcome(m, fl, 0).entry
           /\ Lasting(Outcome(m, fl, t).entry)
<1>1. \A u : ~Expired(fl, m.struct, u)
  BY DEF Expired
<1>2. ASSUME fl # NoFile PROVE \A u : ~Expired(fl, fl, u)
  BY <1>2 DEF Expired, Lasting
<1>3. ASSUME fl # NoFile PROVE Lasting(NextVersion(fl, m.struct))
  <2>1. m.struct \in FileStruct(Int, Nat)
    BY CommandParts
  <2>2. NextVersion(fl, m.struct).life = m.struct.life
    BY <2>1 DEF NextVersion, FileStruct
  <2> QED BY <2>2 DEF Lasting
<1>4. Lasting(NoFile) /\ Lasting(m.struct)
  BY DEF Lasting
<1>5. CASE m.op = "write"
  <2>1. \A u : WriteOutcome(m, fl, u).entry =
                 IF fl = NoFile THEN m.struct ELSE NextVersion(fl, m.struct)
    BY <1>1 DEF WriteOutcome
  <2>2. \A u : Outcome(m, fl, u).entry = WriteOutcome(m, fl, u).entry
    BY <1>5 DEF Outcome
  <2> QED BY <1>3, <1>4, <2>1, <2>2
<1>6. CASE m.op = "cas"
  <2>1. \A u : CasOutcome(m, fl, u).entry =
                 IF fl = NoFile THEN NoFile
                 ELSE IF fl.version # m.struct.version THEN fl
                 ELSE NextVersion(fl, m.struct)
    BY <1>1 DEF CasOutcome, Gone
  <2>2. \A u : Outcome(m, fl, u).entry = CasOutcome(m, fl, u).entry
    BY <1>6 DEF Outcome
  <2> QED BY <1>3, <1>4, <2>1, <2>2
<1>7. CASE m.op = "read"
  <2>1. \A u : ReadOutcome(m, fl, u).entry = fl
    BY <1>2 DEF ReadOutcome, Gone
  <2>2. \A u : Outcome(m, fl, u).entry = ReadOutcome(m, fl, u).entry
    BY <1>7 DEF Outcome
  <2> QED BY <2>1, <2>2
<1>8. CASE m.op = "delete"
  <2>1. \A u : DeleteOutcome(m, fl, u).entry = NoFile
    BY DEF DeleteOutcome, Gone
  <2>2. \A u : Outcome(m, fl, u).entry = DeleteOutcome(m, fl, u).entry
    BY <1>8 DEF Outcome
  <2> QED BY <1>4, <2>1, <2>2
<1> QED BY <1>5, <1>6, <1>7, <1>8, CommandParts

\* A read leaves a file as it is that does not expire.
LEMMA ReadKeeps ==
    ASSUME NEW m, m.op = "read", NEW fl, Lasting(fl), NEW t
    PROVE  Outcome(m, fl, t).entry = fl
<1>1. fl # NoFile => ~Expired(fl, fl, t)
  BY DEF Expired, Lasting
<1>2. ReadOutcome(m, fl, t).entry = fl
  BY <1>1 DEF ReadOutcome, Gone
<1> QED BY <1>2 DEF Outcome

Agreeing ==
    powerOffs = 0 /\ R!StateMachineSafety
      /\ (\A e \in submitted : e.command.struct.life = 0)

\* h[1] is the empty map, h[k + 1] what the k-th command delivered makes of
\* h[k], whichever node delivered it; and every server has got somewhere.
History(h) ==
    /\ \A s \in Server :
         Executed(s) + 1 \in 1..Len(h) /\ data[s] = h[Executed(s) + 1]
    /\ \A k \in 1..Len(h) - 1 : \E t \in Server :
         /\ k \in 1..Len(delivered[t])
         /\ h[k + 1] = Effect(delivered[t][k].command, h[k])

HistoryInv ==
    Agreeing => /\ \A s \in Server, f \in Files : Lasting(data[s][f])
                /\ \E h \in Seq(Map) : History(h)

SameSoFar ==
    \A s, t \in Server : \A k \in 1..Len(delivered[s]) :
        k \in 1..Len(delivered[t]) => delivered[s][k] = delivered[t][k]

LEMMA SameDeliveries == TypeInv => (R!StateMachineSafety <=> SameSoFar)
<1> SUFFICES ASSUME TypeInv PROVE R!StateMachineSafety <=> SameSoFar
  OBVIOUS
<1>1. \A s \in Server : Len(delivered[s]) \in Nat
  <2>1. \A s \in Server : delivered[s] \in Seq(Entry)
    BY DEF TypeInv, RaftInv, RM!TypeOK
  <2> QED BY <2>1, LenProperties
<1>2. \A s, t \in Server :
        1..R!minimum(Len(delivered[s]), Len(delivered[t])) =
          (1..Len(delivered[s])) \cap (1..Len(delivered[t]))
  BY <1>1 DEF R!minimum
<1> QED BY <1>2 DEF R!StateMachineSafety, SameSoFar

\* Deliveries that agree agreed before.
LEMMA AgreeingBefore ==
    ASSUME TypeInv, TypeInv', powerOffs = 0, StepOfReplicas, Agreeing'
    PROVE  Agreeing /\ SameSoFar
<1>1. \A s \in Server : RM!Begins(delivered[s], delivered'[s])
  BY DEF StepOfReplicas
<1>2. \A s \in Server : /\ Len(delivered[s]) \in Nat
                        /\ Len(delivered'[s]) \in Nat
  <2>1. \A s \in Server : delivered[s] \in Seq(Entry)
                          /\ delivered'[s] \in Seq(Entry)
    BY DEF TypeInv, RaftInv, RM!TypeOK
  <2> QED BY <2>1, LenProperties
<1>3. \A s \in Server : \A k \in 1..Len(delivered[s]) :
        k \in 1..Len(delivered'[s]) /\ delivered'[s][k] = delivered[s][k]
  BY <1>1, <1>2 DEF RM!Begins
<1>4. (TypeInv => (R!StateMachineSafety <=> SameSoFar))'
  BY SameDeliveries, PTL
<1>5. SameSoFar
  BY <1>3, <1>4 DEF Agreeing, SameSoFar
<1>6. R!StateMachineSafety
  BY <1>5, SameDeliveries
<1> QED BY <1>5, <1>6 DEF Agreeing, StepOfReplicas

\* No entry is executed and no map changes: more may be delivered.
LEMMA HistoryStays ==
    ASSUME TypeInv, NEW h \in Seq(Map), History(h),
           \A x \in Server : RM!Begins(delivered[x], delivered'[x]),
           \A x \in Server : Executed(x)' = Executed(x) /\ data'[x] = data[x],
           TypeInv'
    PROVE  History(h)'
<1>1. \A x \in Server : Len(delivered[x]) \in Nat /\ Len(delivered'[x]) \in Nat
  <2>1. \A x \in Server : delivered[x] \in Seq(Entry)
                          /\ delivered'[x] \in Seq(Entry)
    BY DEF TypeInv, RaftInv, RM!TypeOK
  <2> QED BY <2>1, LenProperties
<1>2. \A x \in Server : \A k \in 1..Len(delivered[x]) :
        k \in 1..Len(delivered'[x]) /\ delivered'[x][k] = delivered[x][k]
  BY <1>1 DEF RM!Begins
<1>3. \A s \in Server : Executed(s)' + 1 \in 1..Len(h)
                        /\ data'[s] = h[Executed(s)' + 1]
  BY DEF History
<1>4. \A k \in 1..Len(h) - 1 : \E t \in Server :
         /\ k \in 1..Len(delivered'[t])
         /\ h[k + 1] = Effect(delivered'[t][k].command, h[k])
  BY <1>2 DEF History
<1> QED BY <1>3, <1>4 DEF History

\* One server executes its next entry: another was there before, or the
\* history grows.
LEMMA HistoryGrows ==
    ASSUME TypeInv, NEW h \in Seq(Map), History(h), SameSoFar,
           UNCHANGED delivered, NEW s \in Server, Executed(s) \in Nat,
           Executed(s) + 1 \in 1..Len(delivered[s]),
           Executed(s)' = Executed(s) + 1,
           data'[s] = Effect(delivered[s][Executed(s) + 1].command, data[s]),
           data'[s] \in Map,
           \A x \in Server : x # s =>
             Executed(x)' = Executed(x) /\ data'[x] = data[x]
    PROVE  \E g \in Seq(Map) : History(g)'
<1> DEFINE e == Executed(s)
           m == delivered[s][e + 1].command
           n == Len(h)
<1>1. n \in Nat /\ e \in Nat /\ e + 1 \in 1..n /\ data[s] = h[e + 1]
  BY LenProperties DEF History
<1>2. \A k \in 1..n - 1 : \E t \in Server :
         /\ k \in 1..Len(delivered[t])
         /\ h[k + 1] = Effect(delivered[t][k].command, h[k])
  BY DEF History
<1>3. \A x \in Server : Executed(x) + 1 \in 1..n /\ data[x] = h[Executed(x) + 1]
  BY DEF History
<1>4. data'[s] = Effect(m, h[e + 1])
  BY <1>1
<1>5. CASE e + 1 \in 1..n - 1
  <2>1. PICK t \in Server :
          /\ e + 1 \in 1..Len(delivered[t])
          /\ h[e + 1 + 1] = Effect(delivered[t][e + 1].command, h[e + 1])
    BY <1>2, <1>5
  <2>2. delivered[t][e + 1] = delivered[s][e + 1]
    BY <2>1 DEF SameSoFar
  <2>3. data'[s] = h[e + 1 + 1]
    BY <1>4, <2>1, <2>2
  <2>4. e + 1 + 1 \in 1..n
    BY <1>1, <1>5
  <2>5. \A x \in Server : Executed(x)' + 1 \in 1..n
                          /\ data'[x] = h[Executed(x)' + 1]
    <3> SUFFICES ASSUME NEW x \in Server
                 PROVE  Executed(x)' + 1 \in 1..n
                        /\ data'[x] = h[Executed(x)' + 1]
      OBVIOUS
    <3>1. CASE x = s
      BY <2>3, <2>4, <3>1
    <3>2. CASE x # s
      BY <1>3, <3>2
    <3> QED BY <3>1, <3>2
  <2>6. History(h)'
    BY <1>2, <2>5 DEF History
  <2> QED BY <2>6
<1>6. CASE e + 1 = n
  <2>1. PICK g \in Seq(Map) :
          /\ Len(g) = n + 1 /\ g[n + 1] = data'[s]
          /\ \A k \in 1..n : g[k] = h[k]
    <3> DEFINE a == Append(h, data'[s])
    <3>1. /\ a \in Seq(Map) /\ Len(a) = n + 1 /\ a[n + 1] = data'[s]
          /\ \A k \in 1..n : a[k] = h[k]
      BY AppendProperties
    <3> HIDE DEF a
    <3> QED BY <3>1
  <2>2. \A x \in Server : Executed(x)' + 1 \in 1..Len(g)
                          /\ data'[x] = g[Executed(x)' + 1]
    <3> SUFFICES ASSUME NEW x \in Server
                 PROVE  Executed(x)' + 1 \in 1..Len(g)
                        /\ data'[x] = g[Executed(x)' + 1]
      OBVIOUS
    <3>1. CASE x = s
      <4>1. Executed(x)' + 1 = n + 1
        BY <1>1, <1>6, <3>1
      <4>2. n + 1 \in 1..Len(g)
        BY <1>1, <2>1
      <4> QED BY <2>1, <3>1, <4>1, <4>2
    <3>2. CASE x # s
      <4>1. /\ Executed(x)' + 1 = Executed(x) + 1
            /\ data'[x] = h[Executed(x) + 1]
            /\ Executed(x) + 1 \in 1..n
        BY <1>3, <3>2
      <4>2. Executed(x) + 1 \in 1..Len(g)
        BY <1>1, <2>1, <4>1
      <4> QED BY <2>1, <4>1, <4>2
    <3> QED BY <3>1, <3>2
  <2>3. \A k \in 1..Len(g) - 1 : \E t \in Server :
          /\ k \in 1..Len(delivered[t])
          /\ g[k + 1] = Effect(delivered[t][k].command, g[k])
    <3> SUFFICES ASSUME NEW k \in 1..Len(g) - 1
                 PROVE  \E t \in Server :
                          /\ k \in 1..Len(delivered[t])
                          /\ g[k + 1] = Effect(delivered[t][k].command, g[k])
      OBVIOUS
    <3>1. CASE k = n
      <4>1. g[n] = h[n] /\ n = e + 1
        BY <1>1, <1>6, <2>1
      <4> QED BY <1>4, <1>6, <2>1, <3>1, <4>1
    <3>2. CASE k # n
      <4>1. k \in 1..n - 1 /\ k \in 1..n /\ k + 1 \in 1..n
        BY <1>1, <2>1, <3>2
      <4>2. g[k] = h[k] /\ g[k + 1] = h[k + 1]
        BY <2>1, <4>1
      <4> QED BY <1>2, <4>1, <4>2
    <3> QED BY <3>1, <3>2
  <2>4. History(g)'
    BY <2>2, <2>3 DEF History
  <2> QED BY <2>1, <2>4
<1>7. e + 1 \in 1..n - 1 \/ e + 1 = n
  BY <1>1
<1> QED BY <1>5, <1>6, <1>7

LEMMA NextHistory ==
    ASSUME TypeInv, TypeInv', PositionInv, FromLog, HistoryInv, [Next]_vars
    PROVE  HistoryInv'
<1> DEFINE AllLast == \A s \in Server, f \in Files : Lasting(data[s][f])
<1> SUFFICES ASSUME Agreeing'
             PROVE  AllLast' /\ \E h \in Seq(Map) : History(h)'
  BY DEF HistoryInv
<1>1. powerOffs' = 0
  BY DEF Agreeing
<1>2. powerOffs = 0 /\ StepOfReplicas
  BY <1>1, NextPosition
<1>3. Agreeing /\ SameSoFar
  BY <1>2, AgreeingBefore
<1>4. AllLast /\ \E h \in Seq(Map) : History(h)
  BY <1>3 DEF HistoryInv
<1>5. PICK h \in Seq(Map) : History(h)
  BY <1>4
<1>6. /\ data \in [Server -> Map] /\ data' \in [Server -> Map]
      /\ \A s \in Server : Occupied(handler[s]) /\ Occupied(backend[s])
      /\ \A x \in Server : RM!Begins(delivered[x], delivered'[x])
  BY <1>2 DEF TypeInv, TypeOK, InHand, Map, StepOfReplicas
<1>7. CASE Rests
  <2>1. \A x \in Server : Executed(x)' = Executed(x) /\ data'[x] = data[x]
    BY <1>7 DEF Rests
  <2>2. History(h)'
    BY <1>5, <1>6, <2>1, HistoryStays
  <2>3. AllLast'
    BY <1>4, <1>7 DEF Rests
  <2> QED BY <1>5, <2>2, <2>3
<1>8. ASSUME NEW s \in Server, Reads(s)
      PROVE  AllLast' /\ \E g \in Seq(Map) : History(g)'
  <2> DEFINE m == handler[s].command
  <2>1. PICK t \in Times :
          data' = [data EXCEPT ![s][m.file] = OutcomeAt(s, m, t).entry]
    BY <1>8, MapSteps DEF Reads
  <2>2. m.op = "read" /\ m \in CommandsAt(Nat)
    BY <1>2, <1>6, <1>8 DEF Reads, HandlerMap, PositionInv, ReadsOnly, Occupied
  <2>3. m.file \in Files
    BY <2>2, CommandParts
  <2>4. OutcomeAt(s, m, t).entry = data[s][m.file]
    BY <1>4, <2>2, <2>3, ReadKeeps DEF OutcomeAt
  <2>5. data' = data
    BY <1>6, <2>1, <2>4 DEF Map
  <2>6. \A x \in Server : Executed(x)' = Executed(x) /\ data'[x] = data[x]
    BY <1>8, <2>5 DEF Reads
  <2>7. History(h)'
    BY <1>5, <1>6, <2>6, HistoryStays
  <2> QED BY <1>4, <1>5, <2>5, <2>7
<1>9. ASSUME NEW s \in Server, Executes(s)
      PROVE  AllLast' /\ \E g \in Seq(Map) : History(g)'
  <2> DEFINE m == backend[s].command
             o(t) == OutcomeAt(s, m, t).entry
  <2>1. PICK t \in Times :
          data' = [data EXCEPT ![s][m.file] = o(t)]
    BY <1>9, MapSteps DEF Executes
  <2>2. /\ backend[s].pc = "map" /\ UNCHANGED delivered
        /\ Executed(s)' = Executed(s) + 1
        /\ \A x \in Server : x # s => Executed(x)' = Executed(x)
    BY <1>9 DEF Executes, BackendMap, raftVars
  <2>3. /\ InPlace(s) /\ Executed(s) \in Nat
        /\ m = delivered[s][Executed(s) + 1].command
    BY <1>2, <2>2 DEF PositionInv, InPlace
  <2>4. m \in CommandsAt(Nat) /\ m.file \in Files /\ m.struct.life = 0
    <3>1. m \in CommandsAt(Nat)
      BY <1>6, <2>2 DEF Occupied
    <3>2. \E e \in submitted : e.command = m
      BY <2>2 DEF FromLog
    <3> QED BY <1>3, <3>1, <3>2, CommandParts DEF Agreeing
  <2>5. Executed(s) + 1 \in 1..Len(delivered[s])
    <3>1. /\ Len(delivered[s]) \in Nat /\ Accepted(commits[s], 1) \in Nat
          /\ Executed(s) = Len(delivered[s]) - Accepted(commits[s], 1) - 1
      BY <2>2, <2>3, PlaceOf
    <3> QED BY <2>3, <3>1
  <2>6. /\ data[s] \in Map /\ data[s][m.file] \in File \cup {NoFile}
        /\ Lasting(data[s][m.file]) /\ t \in Nat
    BY <1>4, <1>6, <2>4, LineAssumption DEF Map
  <2>7. /\ o(t) = Outcome(m, data[s][m.file], 0).entry
        /\ Lasting(o(t))
    BY <2>4, <2>6, LastingOutcome DEF OutcomeAt
  <2> HIDE DEF m, o
  <2>8. data'[s] = [data[s] EXCEPT ![m.file] = o(t)]
    BY <1>6, <2>1
  <2>9. \A x \in Server : x # s => data'[x] = data[x]
    BY <1>6, <2>1
  <2>10. data'[s] = Effect(m, data[s])
    BY <2>7, <2>8 DEF Effect
  <2>11. \A f \in Files : Lasting(data'[s][f])
    <3>1. \A f \in Files : data'[s][f] = IF f = m.file THEN o(t) ELSE data[s][f]
      BY <2>6, <2>8 DEF Map
    <3> QED BY <1>4, <2>7, <3>1
  <2>12. AllLast'
    BY <1>4, <2>9, <2>11
  <2>13. data'[s] \in Map
    BY <1>6
  <2>14. \E g \in Seq(Map) : History(g)'
    BY <1>3, <1>5, <2>2, <2>3, <2>5, <2>9, <2>10, <2>13, HistoryGrows
  <2> QED BY <2>12, <2>14
<1> QED BY <1>2, <1>7, <1>8, <1>9 DEF StepOfReplicas

LEMMA InitHistory == Init => PositionInv /\ HistoryInv
<1> SUFFICES ASSUME Init PROVE PositionInv /\ HistoryInv
  OBVIOUS
<1>1. /\ \A s \in Server : /\ delivered[s] = <<>> /\ commits[s] = <<>>
                           /\ main[s] = "serving"
                           /\ handler[s] = AtRest /\ backend[s] = AtRest
                           /\ data[s] = [f \in Files |-> NoFile]
  BY DEF Init, R!Init, R!ForEach
<1>2. Len(<<>>) = 0 /\ 1..0 = {}
  OBVIOUS
<1>3. AcceptedFrom(<<>>, 1) = {}
  BY <1>2 DEF AcceptedFrom
<1>4. \A s \in Server : Executed(s) = 0
  <2> SUFFICES ASSUME NEW s \in Server PROVE Executed(s) = 0
    OBVIOUS
  <2>1. Cardinality(AcceptedFrom(commits[s], 1)) = 0
    BY <1>1, <1>3, FS_EmptySet
  <2>2. Len(delivered[s]) = 0
    BY <1>1, <1>2
  <2>3. backend[s].pc # "map"
    BY <1>1, NotAtMap
  <2> QED BY <2>1, <2>2, <2>3 DEF Executed
<1>5. PositionInv
  BY <1>1, <1>2, <1>4, NotAtMap DEF PositionInv, ReadsOnly, InPlace
<1>6. HistoryInv
  <2> DEFINE empty == [f \in Files |-> NoFile]
  <2>1. empty \in Map
    BY DEF Map
  <2> HIDE DEF empty
  <2>2. <<empty>> \in Seq(Map) /\ Len(<<empty>>) = 1 /\ <<empty>>[1] = empty
    BY <2>1
  <2>3. PICK h \in Seq(Map) : Len(h) = 1 /\ h[1] = empty
    BY <2>2
  <2>4. \A s \in Server :
          Executed(s) + 1 \in 1..Len(h) /\ data[s] = h[Executed(s) + 1]
    BY <1>1, <1>4, <2>3 DEF empty
  <2>5. 1..Len(h) - 1 = {}
    BY <2>3
  <2>6. History(h)
    BY <2>4, <2>5 DEF History
  <2>7. \A s \in Server, f \in Files : Lasting(data[s][f])
    BY <1>1 DEF Lasting
  <2> QED BY <2>6, <2>7 DEF HistoryInv
<1> QED BY <1>5, <1>6

LEMMA StepPosition ==
    TypeInv /\ TypeInv' /\ PositionInv /\ [Next]_vars => PositionInv'
<1> SUFFICES ASSUME TypeInv, TypeInv', PositionInv, [Next]_vars, powerOffs' = 0
             PROVE  \A s \in Server :
                      main'[s] = "serving" /\ ReadsOnly(s)' /\ InPlace(s)'
  BY DEF PositionInv
<1> QED BY NextPosition DEF StepOfReplicas

HistoryAgrees == TypeInv /\ FromLog /\ PositionInv /\ HistoryInv

LEMMA NextHistoryAgrees == HistoryAgrees /\ [Next]_vars => HistoryAgrees'
<1> SUFFICES ASSUME HistoryAgrees, [Next]_vars PROVE HistoryAgrees'
  OBVIOUS
<1>1. TypeInv /\ FromLog /\ PositionInv /\ HistoryInv
  BY DEF HistoryAgrees
<1>2. TypeInv'
  BY <1>1, NextTypeInv
<1>3. FromLog'
  BY <1>1, <1>2, NextFromLog
<1>4. PositionInv'
  BY <1>1, <1>2, StepPosition
<1>5. HistoryInv'
  BY <1>1, <1>2, NextHistory
<1> QED BY <1>2, <1>3, <1>4, <1>5 DEF HistoryAgrees

LEMMA InitHistoryAgrees == Init => HistoryAgrees
BY InitTypeInv, InitSteady, InitHistory DEF HistoryAgrees

\* Servers that have executed as many entries have the same files, whoever
\* answers and whatever reads went on (server.go:371, 593): as long as no
\* server went down, the nodes deliver the same commands and none of these
\* has an expiry.
THEOREM ReplicasHaveTheSameFiles == Spec => []ReplicasAgree
<1>1. HistoryAgrees => ReplicasAgree
  BY DEF HistoryAgrees, HistoryInv, Agreeing, History, ReplicasAgree
<1> QED BY <1>1, NextHistoryAgrees, InitHistoryAgrees, PTL DEF Spec

\* Under a single election that is so without a word about the nodes below:
\* they deliver the same commands then.
THEOREM OneLeaderSameFiles ==
    Spec => [](powerOffs = 0 /\ Cardinality(elected) <= 1
                 /\ (\A e \in submitted : e.command.struct.life = 0)
               => \A s, t \in Server :
                    Executed(s) = Executed(t) => data[s] = data[t])
<1> DEFINE Same == powerOffs = 0 /\ Cardinality(elected) <= 1
                     /\ (\A e \in submitted : e.command.struct.life = 0)
                   => \A s, t \in Server :
                        Executed(s) = Executed(t) => data[s] = data[t]
<1>1. HistoryAgrees => Same
  <2> SUFFICES ASSUME HistoryAgrees, powerOffs = 0, Cardinality(elected) <= 1,
                      \A e \in submitted : e.command.struct.life = 0
               PROVE  \A s, t \in Server :
                        Executed(s) = Executed(t) => data[s] = data[t]
    OBVIOUS
  <2>1. RM!TypeOK /\ RM!SoloInv /\ RM!OneLeader
    BY SameCardinality DEF HistoryAgrees, TypeInv, RaftInv, RM!OneLeader
  <2>2. RM!StateMachineSafety
    BY <2>1, RaftAssumptions, RM!SoloAgrees
  <2>3. R!StateMachineSafety
    BY <2>2 DEF R!StateMachineSafety, RM!StateMachineSafety, R!minimum,
                RM!minimum
  <2> QED BY <2>3 DEF HistoryAgrees, HistoryInv, Agreeing, History
<1> QED BY <1>1, NextHistoryAgrees, InitHistoryAgrees, PTL DEF Spec

=============================================================================

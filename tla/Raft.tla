-------------------------------- MODULE Raft --------------------------------
(***************************************************************************)
(* The Raft cluster of src/cs733/assignment4: the nodes' state machines    *)
(* (follower.go, candidate.go, leader.go, node.go), the network between    *)
(* them and each node's two disk logs.                                     *)
(*                                                                         *)
(* One action is one event taken from a node's ReceiveChannel and handled  *)
(* to the end.  When the handler returns another role, the code at the     *)
(* head of that role's function runs before the next event is read, so it  *)
(* belongs to the same action.  Every effect a handler has outside the     *)
(* node's memory goes through the FIFO SendChannel: what a step stores, it *)
(* stores before the messages it sends after that.                         *)
(*                                                                         *)
(* Log positions are counted from 1: the code's index k is k + 1 here and  *)
(* its "none" index -1 is 0.  Hence commitIndex is the number of entries   *)
(* committed, and the code's len(sm.Log)-1 is Len(log[i]).  No code reads  *)
(* the Index field of a LogEntry: it is left out.                          *)
(*                                                                         *)
(* An operator marked "Defect" is not used: it is a wrong version of the   *)
(* operator below it, there to see that the properties notice it.          *)
(***************************************************************************)
EXTENDS Integers, FiniteSets, Sequences

CONSTANTS
    Server,         \* the nodes of the cluster
    NoServer,       \* the code's -1 (no vote, no leader) and an unset Id
    Command,        \* what clients append; each command is appended once
    MaxTerm,        \* bound: no election timeout beyond this term
    MaxLog,         \* bound: no append event once the leader's log is this long
    MaxInFlight,    \* bound: messages in the network
    MaxPowerOffs    \* bound: how often nodes go down

ASSUME ServerAssumption ==
    /\ IsFiniteSet(Server) /\ Server # {}
    /\ NoServer \notin Server

ASSUME BoundAssumption ==
    {MaxTerm, MaxLog, MaxInFlight, MaxPowerOffs} \subseteq Nat

VARIABLES
    role,           \* RaftServer.State
    term,           \* RaftServer.Term
    votedFor,       \* RaftServer.VotedFor
    log,            \* RaftServer.Log
    commitIndex,    \* RaftServer.CommitIndex
    leaderId,       \* RaftServer.LeaderID
    votes,          \* RaftServer.VotesArray
    nextIndex,      \* the locals of leader(): they live while it runs
    matchIndex,
    stateLog,       \* the StateStore records on disk
    diskLog,        \* the LogStore records on disk
    net,            \* messages sent and not yet received
    delivered,      \* commands pushed on ClientCommitChannel with Err = nil
    nacked,         \* commands pushed on ClientCommitChannel with an error
    submitted,      \* commands leaders have appended (history)
    elected,        \* <<node, term>> of every election won (history)
    powerOffs       \* how often a node went down (history)

stateVars  == <<term, votedFor, stateLog>>
logVars    == <<log, diskLog>>
commitVars == <<commitIndex, delivered>>
leaderVars == <<nextIndex, matchIndex>>
histVars   == <<submitted, elected, powerOffs>>
vars == <<role, leaderId, votes, net, nacked,
          stateVars, logVars, commitVars, leaderVars, histVars>>

-----------------------------------------------------------------------------
(* Roles, messages and what a node keeps.                                  *)

FOLLOWER  == "FOLLOWER"
CANDIDATE == "CANDIDATE"
LEADER    == "LEADER"
POWEROFF  == "POWEROFF"
State     == {FOLLOWER, CANDIDATE, LEADER, POWEROFF}

LogEntry   == [term : Nat, cmd : Command]
StateStore == [term : Nat, votedFor : Server \cup {NoServer}]
Vote       == {"none", "no", "yes"}

VoteReqEvent ==
    [type : {"VoteReq"}, from : Server, to : Server, term : Nat,
     lastIndex : Nat, lastTerm : Nat]
VoteRespEvent ==
    [type : {"VoteResp"}, from : Server \cup {NoServer}, to : Server,
     term : Nat, granted : BOOLEAN]
AppendEntriesReqEvent ==
    [type : {"AppendReq"}, from : Server, to : Server, term : Nat,
     prevIndex : Nat, prevTerm : Nat, entries : Seq(LogEntry), commit : Nat]
AppendEntriesRespEvent ==
    [type : {"AppendResp"}, from : Server, to : Server, term : Nat,
     success : BOOLEAN, index : Nat]
Message == VoteReqEvent \cup VoteRespEvent
             \cup AppendEntriesReqEvent \cup AppendEntriesRespEvent

IsMajority(S) == 2 * Cardinality(S) > Cardinality(Server)

LastTerm(l) == IF Len(l) = 0 THEN 0 ELSE l[Len(l)].term

minimum(x, y) == IF x < y THEN x ELSE y

\* A slice made with a place for each server, v in all of them.
ForEach(v) == [j \in Server |-> v]

\* The voter's log l is "more complete" than the candidate's in request m.
MoreComplete(l, m) ==
    \/ LastTerm(l) > m.lastTerm
    \/ LastTerm(l) = m.lastTerm /\ Len(l) > m.lastIndex

\* The commands of log l at positions lo + 1 to hi.
Commands(l, lo, hi) == [k \in 1..(hi - lo) |-> l[lo + k].cmd]

-----------------------------------------------------------------------------
(* The network: unordered; it delivers a message at most once and may lose *)
(* it.  A message that is never received is one lost when it is sent.      *)

Transmit(received, sent) ==
    \E arriving \in SUBSET sent :
        /\ net' = (net \ received) \cup arriving
        /\ Cardinality(net') <= MaxInFlight

Consume(m) == Transmit({m}, {})
Reply(m, r) == Transmit({m}, {r})

VoteReq(i, j, t) ==
    [type |-> "VoteReq", from |-> i, to |-> j, term |-> t,
     lastIndex |-> Len(log[i]), lastTerm |-> LastTerm(log[i])]

VoteResp(id, m, t, granted) ==
    [type |-> "VoteResp", from |-> id, to |-> m.from, term |-> t,
     granted |-> granted]

\* Defect: an index counted from 0 is sent.
AppendRespFromZero(i, m, t, success, index) ==
    [type |-> "AppendResp", from |-> i, to |-> m.from, term |-> t,
     success |-> success, index |-> index - 1]

AppendResp(i, m, t, success, index) ==
    [type |-> "AppendResp", from |-> i, to |-> m.from, term |-> t,
     success |-> success, index |-> index]

\* An AppendEntriesReqEvent with no entries.  No receiver looks at the
\* previous position and term of one.
Heartbeat(i, j) ==
    [type |-> "AppendReq", from |-> i, to |-> j, term |-> term[i],
     prevIndex |-> 0, prevTerm |-> 0, entries |-> <<>>,
     commit |-> commitIndex[i]]

-----------------------------------------------------------------------------
(* Effects that several handlers share.                                    *)

\* Defect: entries are kept in memory only.
NoLogStore(i, es) == UNCHANGED diskLog

\* SendChannel <- LogStore for each of the entries es.  A disk log is only ever
\* appended to: an entry that replaces another goes behind it.
LogStore(i, es) == diskLog' = [diskLog EXCEPT ![i] = @ \o es]

\* Defect: the record is not stored.
StoreStateInMemory(i, t, v) ==
    /\ term' = [term EXCEPT ![i] = t]
    /\ votedFor' = [votedFor EXCEPT ![i] = v]
    /\ UNCHANGED stateLog

\* sm.Term = t, sm.VotedFor = v and SendChannel <- StateStore{t, v}
StoreState(i, t, v) ==
    /\ term' = [term EXCEPT ![i] = t]
    /\ votedFor' = [votedFor EXCEPT ![i] = v]
    /\ stateLog' = [stateLog EXCEPT ![i] =
                      Append(@, [term |-> t, votedFor |-> v])]

\* The head of candidate(), entered in term t by a timeout that has just
\* stored the term with no vote.  The votes of earlier terms are kept.
Candidacy(i, t) ==
    /\ role' = [role EXCEPT ![i] = CANDIDATE]
    /\ term' = [term EXCEPT ![i] = t]
    /\ votedFor' = [votedFor EXCEPT ![i] = i]
    /\ stateLog' = [stateLog EXCEPT ![i] =
                      @ \o << [term |-> t, votedFor |-> NoServer],
                              [term |-> t, votedFor |-> i] >>]
    /\ votes' = [votes EXCEPT ![i][i] = "yes"]
    /\ Transmit({}, {VoteReq(i, j, t) : j \in Server \ {i}})

\* The head of leader().  The vote is cleared in memory, not on disk.
Leadership(i, m) ==
    /\ role' = [role EXCEPT ![i] = LEADER]
    /\ leaderId' = [leaderId EXCEPT ![i] = i]
    /\ matchIndex' = [matchIndex EXCEPT ![i] = ForEach(0)]
    /\ votedFor' = [votedFor EXCEPT ![i] = NoServer]
    /\ nextIndex' = [nextIndex EXCEPT ![i] = ForEach(Len(log[i]) + 1)]
    /\ elected' = elected \cup {<<i, term[i]>>}
    /\ Transmit({m}, {Heartbeat(i, j) : j \in Server \ {i}})

\* leader() returns: its locals are gone.
DropLeaderLocals(i) ==
    /\ matchIndex' = [matchIndex EXCEPT ![i] = ForEach(0)]
    /\ nextIndex' = [nextIndex EXCEPT ![i] = ForEach(1)]

\* Defect: clients get no answer.
StepDownSilently(i) ==
    /\ role' = [role EXCEPT ![i] = FOLLOWER]
    /\ DropLeaderLocals(i)
    /\ UNCHANGED nacked

\* A leader that becomes a follower sends a NACK for each uncommitted entry.
StepDown(i) ==
    /\ role' = [role EXCEPT ![i] = FOLLOWER]
    /\ nacked' = nacked \cup
         {<<i, log[i][k].cmd>> : k \in (commitIndex[i] + 1)..Len(log[i])}
    /\ DropLeaderLocals(i)

CommitUpTo(i, n) ==
    /\ commitIndex' = [commitIndex EXCEPT ![i] = n]
    /\ delivered' = [delivered EXCEPT ![i] =
                       @ \o Commands(log[i], commitIndex[i], n)]

\* A follower with log l and c commits follows the leader's commit index as
\* far as its own log reaches.
FollowCommit(l, c, leaderCommit) ==
    IF minimum(leaderCommit, Len(l)) > c
    THEN minimum(leaderCommit, Len(l)) ELSE c

-----------------------------------------------------------------------------
(* follower.go                                                             *)

FollowerTimeout(i) ==
    /\ role[i] = FOLLOWER
    /\ term[i] < MaxTerm
    /\ Candidacy(i, term[i] + 1)
    /\ UNCHANGED <<leaderId, nacked, logVars, commitVars, leaderVars, histVars>>

FollowerStaleVoteReq(i, m) ==
    /\ m.term < term[i]
    /\ Reply(m, VoteResp(i, m, term[i], FALSE))
    /\ UNCHANGED stateVars

\* The vote cast in an older term is not cleared before it is looked at.
FollowerGrantsVote(i, m) ==
    /\ m.term >= term[i]
    /\ ~MoreComplete(log[i], m)
    /\ votedFor[i] \in {NoServer, m.from}
    /\ StoreState(i, m.term, m.from)
    /\ Reply(m, VoteResp(i, m, m.term, TRUE))

FollowerRejectsLog(i, m) ==
    /\ m.term >= term[i]
    /\ MoreComplete(log[i], m)
    /\ IF m.term > term[i] THEN StoreState(i, m.term, votedFor[i])
                           ELSE UNCHANGED stateVars
    /\ Reply(m, VoteResp(i, m, m.term, FALSE))

FollowerAlreadyVoted(i, m) ==
    /\ m.term >= term[i]
    /\ ~MoreComplete(log[i], m)
    /\ votedFor[i] \notin {NoServer, m.from}
    /\ IF m.term > term[i] THEN StoreState(i, m.term, NoServer)
                           ELSE UNCHANGED stateVars
    /\ Reply(m, VoteResp(i, m, m.term, FALSE))

FollowerVoteReq(i, m) ==
    /\ role[i] = FOLLOWER
    /\ m.type = "VoteReq"
    /\ \/ FollowerStaleVoteReq(i, m)
       \/ FollowerGrantsVote(i, m)
       \/ FollowerRejectsLog(i, m)
       \/ FollowerAlreadyVoted(i, m)
    /\ UNCHANGED <<role, leaderId, votes, nacked, logVars, commitVars,
                   leaderVars, histVars>>

FollowerStaleAppendReq(i, m) ==
    /\ m.term < term[i]
    /\ Reply(m, AppendResp(i, m, term[i], FALSE, Len(log[i])))
    /\ UNCHANGED <<leaderId, stateVars, logVars, commitVars>>

\* Defect: the leader's term is not taken over.
FollowLeaderInOldTerm(i, m) ==
    /\ m.term >= term[i]
    /\ leaderId' = [leaderId EXCEPT ![i] = m.from]
    /\ UNCHANGED stateVars

\* What follower() does for every AppendEntriesReqEvent that is not stale.
FollowLeader(i, m) ==
    /\ m.term >= term[i]
    /\ leaderId' = [leaderId EXCEPT ![i] = m.from]
    /\ IF m.term > term[i] THEN StoreState(i, m.term, NoServer)
                           ELSE UNCHANGED stateVars

\* The commit index is followed before the log is compared with the leader's.
FollowerHeartbeat(i, m) ==
    /\ m.entries = <<>>
    /\ FollowLeader(i, m)
    /\ CommitUpTo(i, FollowCommit(log[i], commitIndex[i], m.commit))
    /\ Reply(m, AppendResp(i, m, m.term, TRUE, Len(log[i])))
    /\ UNCHANGED logVars

\* Defect: the term of the preceding entry is not compared.
PrevExists(l, m) == m.prevIndex <= Len(l)

\* The log has the entry that precedes those of m.
PrevMatches(l, m) ==
    /\ m.prevIndex <= Len(l)
    /\ m.prevIndex > 0 => l[m.prevIndex].term = m.prevTerm

FollowerRejectsEntries(i, m) ==
    /\ m.entries # <<>>
    /\ ~PrevMatches(log[i], m)
    /\ FollowLeader(i, m)
    /\ CommitUpTo(i, FollowCommit(log[i], commitIndex[i], m.commit))
    /\ Reply(m, AppendResp(i, m, m.term, FALSE, Len(log[i])))
    /\ UNCHANGED logVars

\* Entry k of message m is already in log l.
Present(l, m, k) ==
    /\ m.prevIndex + k <= Len(l)
    /\ l[m.prevIndex + k].term = m.entries[k].term

\* Entries 1..k of m are in the log already; from entry k + 1 on, the log is
\* cut and the rest of m appended.  Commits are pushed before and after.
FollowerAppendsEntries(i, m) ==
    /\ m.entries # <<>>
    /\ PrevMatches(log[i], m)
    /\ FollowLeader(i, m)
    /\ \E k \in 0..Len(m.entries) :
         /\ \A h \in 1..k : Present(log[i], m, h)
         /\ k < Len(m.entries) => ~Present(log[i], m, k + 1)
         /\ LET rest == SubSeq(m.entries, k + 1, Len(m.entries))
                new  == IF rest = <<>> THEN log[i]
                        ELSE SubSeq(log[i], 1, m.prevIndex + k) \o rest
                c1   == FollowCommit(log[i], commitIndex[i], m.commit)
                c2   == FollowCommit(new, c1, m.commit)
            IN /\ log' = [log EXCEPT ![i] = new]
               /\ LogStore(i, rest)
               /\ commitIndex' = [commitIndex EXCEPT ![i] = c2]
               /\ delivered' = [delivered EXCEPT ![i] =
                     @ \o Commands(log[i], commitIndex[i], c1)
                       \o Commands(new, c1, c2)]
               /\ Reply(m, AppendResp(i, m, m.term, TRUE, Len(new)))

FollowerAppendReq(i, m) ==
    /\ role[i] = FOLLOWER
    /\ m.type = "AppendReq"
    /\ \/ FollowerStaleAppendReq(i, m)
       \/ FollowerHeartbeat(i, m)
       \/ FollowerRejectsEntries(i, m)
       \/ FollowerAppendsEntries(i, m)
    /\ UNCHANGED <<role, votes, nacked, leaderVars, histVars>>

\* A late AppendEntriesRespEvent or VoteRespEvent.
FollowerResp(i, m) ==
    /\ role[i] = FOLLOWER
    /\ m.type \in {"AppendResp", "VoteResp"}
    /\ IF m.term > term[i] THEN StoreState(i, m.term, NoServer)
                           ELSE UNCHANGED stateVars
    /\ Consume(m)
    /\ UNCHANGED <<role, leaderId, votes, nacked, logVars, commitVars,
                   leaderVars, histVars>>

-----------------------------------------------------------------------------
(* candidate.go                                                            *)

CandidateTimeout(i) ==
    /\ role[i] = CANDIDATE
    /\ term[i] < MaxTerm
    /\ Candidacy(i, term[i] + 1)
    /\ UNCHANGED <<leaderId, nacked, logVars, commitVars, leaderVars, histVars>>

\* Defect: a rejection is recorded as a vote.
VotesAllYes(i, m) ==
    IF m.from = NoServer THEN votes[i] ELSE [votes[i] EXCEPT ![m.from] = "yes"]

\* The vote array once m is recorded.  A grant is recorded whatever its term;
\* a rejection with no Id (a leader's) is not recorded, only tallied.
VotesWith(i, m) ==
    IF m.from = NoServer THEN votes[i]
    ELSE [votes[i] EXCEPT ![m.from] = IF m.granted THEN "yes" ELSE "no"]

Voted(v, answer) == {j \in Server : v[j] = answer}

CandidateWins(i, m) ==
    /\ IsMajority(Voted(VotesWith(i, m), "yes"))
    /\ Leadership(i, m)
    /\ UNCHANGED <<term, stateLog>>

CandidateLoses(i, m) ==
    /\ ~IsMajority(Voted(VotesWith(i, m), "yes"))
    /\ IsMajority(Voted(VotesWith(i, m), "no"))
    /\ role' = [role EXCEPT ![i] = FOLLOWER]
    /\ Consume(m)
    /\ UNCHANGED <<leaderId, stateVars, leaderVars, elected>>

CandidateKeepsWaiting(i, m) ==
    /\ ~IsMajority(Voted(VotesWith(i, m), "yes"))
    /\ ~IsMajority(Voted(VotesWith(i, m), "no"))
    /\ Consume(m)
    /\ UNCHANGED <<role, leaderId, stateVars, leaderVars, elected>>

\* A rejection that carries a higher term is not recorded.
CandidateOutdated(i, m) ==
    /\ role' = [role EXCEPT ![i] = FOLLOWER]
    /\ StoreState(i, m.term, NoServer)
    /\ Consume(m)
    /\ UNCHANGED <<leaderId, votes, leaderVars, elected>>

CandidateVoteResp(i, m) ==
    /\ role[i] = CANDIDATE
    /\ m.type = "VoteResp"
    /\ \/ /\ ~m.granted /\ m.term > term[i]
          /\ CandidateOutdated(i, m)
       \/ /\ m.granted \/ m.term <= term[i]
          /\ votes' = [votes EXCEPT ![i] = VotesWith(i, m)]
          /\ \/ CandidateWins(i, m)
             \/ CandidateLoses(i, m)
             \/ CandidateKeepsWaiting(i, m)
    /\ UNCHANGED <<nacked, logVars, commitVars, submitted, powerOffs>>

\* Entries sent to a candidate are ignored; only a heartbeat is answered.
CandidateAppendReq(i, m) ==
    /\ role[i] = CANDIDATE
    /\ m.type = "AppendReq"
    /\ IF m.term >= term[i]
       THEN /\ role' = [role EXCEPT ![i] = FOLLOWER]
            /\ StoreState(i, m.term, NoServer)
            /\ leaderId' = [leaderId EXCEPT ![i] = m.from]
            /\ Transmit({m}, IF m.entries = <<>>
                             THEN {AppendResp(i, m, m.term, TRUE, Len(log[i]))}
                             ELSE {})
       ELSE /\ Reply(m, AppendResp(i, m, term[i], FALSE, Len(log[i])))
            /\ UNCHANGED <<role, leaderId, stateVars>>
    /\ UNCHANGED <<votes, nacked, logVars, commitVars, leaderVars, histVars>>

\* A request of a higher term is granted without a look at the logs.
CandidateVoteReq(i, m) ==
    /\ role[i] = CANDIDATE
    /\ m.type = "VoteReq"
    /\ IF m.term <= term[i]
       THEN /\ Reply(m, VoteResp(i, m, term[i], FALSE))
            /\ UNCHANGED <<role, stateVars>>
       ELSE /\ role' = [role EXCEPT ![i] = FOLLOWER]
            /\ StoreState(i, m.term, m.from)
            /\ Reply(m, VoteResp(i, m, m.term, TRUE))
    /\ UNCHANGED <<leaderId, votes, nacked, logVars, commitVars, leaderVars,
                   histVars>>

CandidateAppendResp(i, m) ==
    /\ role[i] = CANDIDATE
    /\ m.type = "AppendResp"
    /\ IF m.term > term[i]
       THEN /\ role' = [role EXCEPT ![i] = FOLLOWER]
            /\ StoreState(i, m.term, NoServer)
       ELSE UNCHANGED <<role, stateVars>>
    /\ Consume(m)
    /\ UNCHANGED <<leaderId, votes, nacked, logVars, commitVars, leaderVars,
                   histVars>>

-----------------------------------------------------------------------------
(* leader.go                                                               *)

\* Defect: the slice starts one entry late.
ReplicationSkipsOne(i, j) ==
    IF nextIndex[i][j] <= Len(log[i])
    THEN LET prev == nextIndex[i][j] - 1
         IN [Heartbeat(i, j) EXCEPT
               !.prevIndex = prev,
               !.prevTerm  = IF prev > 0 THEN log[i][prev].term ELSE 0,
               !.entries   = SubSeq(log[i], nextIndex[i][j] + 1, Len(log[i]))]
    ELSE Heartbeat(i, j)

\* What the heartbeat timer makes leader i send to node j.  Where no entry
\* precedes those sent, no receiver looks at the previous term.
Replication(i, j) ==
    IF nextIndex[i][j] <= Len(log[i])
    THEN LET prev == nextIndex[i][j] - 1
         IN [Heartbeat(i, j) EXCEPT
               !.prevIndex = prev,
               !.prevTerm  = IF prev > 0 THEN log[i][prev].term ELSE 0,
               !.entries   = SubSeq(log[i], nextIndex[i][j], Len(log[i]))]
    ELSE Heartbeat(i, j)

\* nextIndex moves on as soon as the entries are sent.
LeaderTimeout(i) ==
    /\ role[i] = LEADER
    /\ Transmit({}, {Replication(i, j) : j \in Server \ {i}})
    /\ nextIndex' = [nextIndex EXCEPT ![i] =
         [j \in Server |-> IF j # i /\ @[j] <= Len(log[i])
                           THEN Len(log[i]) + 1 ELSE @[j]]]
    /\ UNCHANGED <<role, leaderId, votes, nacked, stateVars, logVars,
                   commitVars, matchIndex, histVars>>

LeaderVoteReq(i, m) ==
    /\ role[i] = LEADER
    /\ m.type = "VoteReq"
    /\ IF m.term <= term[i]
       THEN /\ Reply(m, VoteResp(NoServer, m, term[i], FALSE))
            /\ UNCHANGED <<role, nacked, leaderVars, stateVars>>
       ELSE /\ StepDown(i)
            /\ LET grant == ~MoreComplete(log[i], m)
               IN /\ StoreState(i, m.term, IF grant THEN m.from ELSE NoServer)
                  /\ Reply(m, VoteResp(i, m, m.term, grant))
    /\ UNCHANGED <<leaderId, votes, logVars, commitVars, histVars>>

LeaderAppendEvent(i, c) ==
    /\ role[i] = LEADER
    /\ c \notin submitted
    /\ Len(log[i]) < MaxLog
    /\ LET entry == [term |-> term[i], cmd |-> c]
       IN /\ log' = [log EXCEPT ![i] = Append(@, entry)]
          /\ LogStore(i, <<entry>>)
    /\ submitted' = submitted \cup {c}
    /\ UNCHANGED <<role, leaderId, votes, net, nacked, stateVars, commitVars,
                   leaderVars, elected, powerOffs>>

LeaderAppendReq(i, m) ==
    /\ role[i] = LEADER
    /\ m.type = "AppendReq"
    /\ IF m.term > term[i]
       THEN /\ StepDown(i)
            /\ StoreState(i, m.term, NoServer)
            /\ leaderId' = [leaderId EXCEPT ![i] = m.from]
            /\ Reply(m, AppendResp(i, m, m.term, FALSE, Len(log[i])))
       ELSE /\ Reply(m, AppendResp(i, m, term[i], FALSE, Len(log[i])))
            /\ UNCHANGED <<role, leaderId, nacked, leaderVars, stateVars>>
    /\ UNCHANGED <<votes, logVars, commitVars, histVars>>

\* Defect: no majority is asked for.
CommittableAlone(i, match) ==
    {commitIndex[i]} \cup
    {n \in {IF j = i THEN Len(log[i]) ELSE match[j] : j \in Server} :
        /\ n \in 1..Len(log[i])
        /\ log[i][n].term = term[i]}

\* Defect: nodes that lack the last entry count.
CommittableOneAhead(i, match) ==
    {commitIndex[i]} \cup
    {n \in {IF j = i THEN Len(log[i]) ELSE match[j] : j \in Server} :
        /\ n \in 1..Len(log[i])
        /\ IsMajority({j \in Server : j = i \/ match[j] + 1 >= n})
        /\ log[i][n].term = term[i]}

\* The positions leader i may commit up to when match is its matchIndex (its
\* own entry is refreshed to the end of its log before each event).
Committable(i, match) ==
    {commitIndex[i]} \cup
    {n \in {IF j = i THEN Len(log[i]) ELSE match[j] : j \in Server} :
        /\ n \in 1..Len(log[i])
        /\ IsMajority({j \in Server : j = i \/ match[j] >= n})
        /\ log[i][n].term = term[i]}

LeaderFailedResp(i, m) ==
    /\ ~m.success
    /\ IF m.term > term[i]
       THEN /\ StepDown(i)
            /\ StoreState(i, m.term, NoServer)
            /\ leaderId' = [leaderId EXCEPT ![i] = m.from]
       ELSE /\ nextIndex' = [nextIndex EXCEPT ![i][m.from] =
                               IF @ > 1 THEN @ - 1 ELSE 1]
            /\ UNCHANGED <<role, leaderId, nacked, matchIndex, stateVars>>
    /\ UNCHANGED commitVars

\* Defect: nextIndex follows the response, up as well as down.
NextFromResp(next, m) == m.index + 1

\* nextIndex after success response m: lowered to what follows m's log, not
\* raised.
NextAfterSuccess(next, m) == IF m.index + 1 < next THEN m.index + 1 ELSE next

\* The term of a success response is not looked at.
LeaderSuccessResp(i, m) ==
    /\ m.success
    /\ nextIndex' = [nextIndex EXCEPT ![i][m.from] = NextAfterSuccess(@, m)]
    /\ IF m.index = 0
       THEN UNCHANGED <<matchIndex, commitVars>>
       ELSE LET match == [matchIndex[i] EXCEPT ![m.from] = m.index]
            IN /\ matchIndex' = [matchIndex EXCEPT ![i] = match]
               /\ \E n \in Committable(i, match) :
                    /\ \A k \in Committable(i, match) : k <= n
                    /\ CommitUpTo(i, n)
    /\ UNCHANGED <<role, leaderId, nacked, stateVars>>

LeaderAppendResp(i, m) ==
    /\ role[i] = LEADER
    /\ m.type = "AppendResp"
    /\ LeaderFailedResp(i, m) \/ LeaderSuccessResp(i, m)
    /\ Consume(m)
    /\ UNCHANGED <<votes, logVars, histVars>>

LeaderVoteResp(i, m) ==
    /\ role[i] = LEADER
    /\ m.type = "VoteResp"
    /\ IF m.term > term[i]
       THEN StepDown(i) /\ StoreState(i, m.term, NoServer)
       ELSE UNCHANGED <<role, nacked, leaderVars, stateVars>>
    /\ Consume(m)
    /\ UNCHANGED <<leaderId, votes, logVars, commitVars, histVars>>

-----------------------------------------------------------------------------
(* node.go: going down and coming back.                                    *)

\* A ShutDownEvent, or the process dies: what is not on disk is lost.
Shutdown(i) ==
    /\ role[i] # POWEROFF
    /\ powerOffs < MaxPowerOffs
    /\ powerOffs' = powerOffs + 1
    /\ role' = [role EXCEPT ![i] = POWEROFF]
    /\ DropLeaderLocals(i)
    /\ UNCHANGED <<leaderId, votes, net, nacked, stateVars, logVars,
                   commitVars, submitted, elected>>

\* New() panics unless the record it asks for exists: it reads the record at
\* the number of log entries, when there is any record at all.
Restartable(i) == stateLog[i] = <<>> \/ Len(diskLog[i]) < Len(stateLog[i])

StoredState(i) ==
    IF stateLog[i] = <<>> THEN [term |-> 0, votedFor |-> NoServer]
    ELSE stateLog[i][Len(diskLog[i]) + 1]

New(i) ==
    /\ role[i] = POWEROFF
    /\ Restartable(i)
    /\ role' = [role EXCEPT ![i] = FOLLOWER]
    /\ term' = [term EXCEPT ![i] = StoredState(i).term]
    /\ votedFor' = [votedFor EXCEPT ![i] = StoredState(i).votedFor]
    /\ log' = [log EXCEPT ![i] = diskLog[i]]
    /\ votes' = [votes EXCEPT ![i] = ForEach("none")]
    /\ leaderId' = [leaderId EXCEPT ![i] = NoServer]
    /\ commitIndex' = [commitIndex EXCEPT ![i] = 0]
    /\ delivered' = [delivered EXCEPT ![i] = <<>>]
    /\ UNCHANGED <<net, nacked, stateLog, diskLog, leaderVars, histVars>>

-----------------------------------------------------------------------------
(* The specification.                                                      *)

Init ==
    /\ role = ForEach(FOLLOWER)
    /\ term = ForEach(0)
    /\ votedFor = ForEach(NoServer)
    /\ log = ForEach(<<>>)
    /\ commitIndex = ForEach(0)
    /\ leaderId = ForEach(NoServer)
    /\ votes = ForEach(ForEach("none"))
    /\ nextIndex = ForEach(ForEach(1))
    /\ matchIndex = ForEach(ForEach(0))
    /\ stateLog = ForEach(<<>>)
    /\ diskLog = ForEach(<<>>)
    /\ net = {}
    /\ delivered = ForEach(<<>>)
    /\ nacked = {}
    /\ submitted = {}
    /\ elected = {}
    /\ powerOffs = 0

Handle(i, m) ==
    \/ FollowerVoteReq(i, m)
    \/ FollowerAppendReq(i, m)
    \/ FollowerResp(i, m)
    \/ CandidateVoteReq(i, m)
    \/ CandidateVoteResp(i, m)
    \/ CandidateAppendReq(i, m)
    \/ CandidateAppendResp(i, m)
    \/ LeaderVoteReq(i, m)
    \/ LeaderVoteResp(i, m)
    \/ LeaderAppendReq(i, m)
    \/ LeaderAppendResp(i, m)

Next ==
    \/ \E m \in net : Handle(m.to, m)
    \/ \E i \in Server :
         \/ FollowerTimeout(i)
         \/ CandidateTimeout(i)
         \/ LeaderTimeout(i)
         \/ \E c \in Command : LeaderAppendEvent(i, c)
         \/ Shutdown(i)
         \/ New(i)

Spec == Init /\ [][Next]_vars

-----------------------------------------------------------------------------
(* Properties.                                                             *)

\* Every variable holds a value of the type its Go field or channel has.
TypeOK ==
    /\ role \in [Server -> State]
    /\ term \in [Server -> Nat]
    /\ votedFor \in [Server -> Server \cup {NoServer}]
    /\ log \in [Server -> Seq(LogEntry)]
    /\ commitIndex \in [Server -> Nat]
    /\ leaderId \in [Server -> Server \cup {NoServer}]
    /\ votes \in [Server -> [Server -> Vote]]
    /\ nextIndex \in [Server -> [Server -> Nat \ {0}]]
    /\ matchIndex \in [Server -> [Server -> Nat]]
    /\ stateLog \in [Server -> Seq(StateStore)]
    /\ diskLog \in [Server -> Seq(LogEntry)]
    /\ net \subseteq Message
    /\ delivered \in [Server -> Seq(Command)]
    /\ nacked \subseteq Server \X Command
    /\ submitted \subseteq Command
    /\ elected \subseteq Server \X Nat
    /\ powerOffs \in Nat

\* A leader's nextIndex always points into its log or just past it, so the
\* slice and the previous entry that leader.go:47-53 takes exist, whatever
\* late or repeated responses lowered it.
NextIndexInLog ==
    \A i, j \in Server : role[i] = LEADER => nextIndex[i][j] <= Len(log[i]) + 1

\* The terms of a log never decrease along it and never exceed the node's
\* term: the vote check (follower.go:58) and the commit rule (leader.go:256)
\* compare last terms and rely on it.
LogTermsOrdered ==
    \A i \in Server : \A k \in 1..Len(log[i]) :
        /\ log[i][k].term <= term[i]
        /\ \A h \in 1..k : log[i][h].term <= log[i][k].term

\* No two nodes are leaders of the same term (leader.go:164 says that it
\* "should never occur").
ElectionSafety ==
    \A e, f \in elected : e[2] = f[2] => e[1] = f[1]

\* Two logs that agree on the term of an entry agree on all entries up to it.
LogMatching ==
    \A i, j \in Server : \A k \in 1..minimum(Len(log[i]), Len(log[j])) :
        log[i][k].term = log[j][k].term =>
            SubSeq(log[i], 1, k) = SubSeq(log[j], 1, k)

\* As long as every term had one leader, replication (leader.go:47-59,
\* follower.go:153-195) keeps the logs matching.
LogMatchingUnderElectionSafety == ElectionSafety => LogMatching

\* Nodes that deliver a command at the same position deliver the same one.
StateMachineSafety ==
    \A i, j \in Server :
        \A k \in 1..minimum(Len(delivered[i]), Len(delivered[j])) :
            delivered[i][k] = delivered[j][k]

\* A node's term never goes back (node.go:301 "increases monotonically").
TermNeverDecreases == [][\A i \in Server : term'[i] >= term[i]]_vars

\* A leader's uncommitted entry stays where it is until its client has an
\* answer: it is delivered, or NACKed as the leader steps down.
UncommittedAnswered ==
    [][\A i \in Server : role[i] = LEADER =>
         \A k \in (commitIndex[i] + 1)..Len(log[i]) :
            \/ /\ role'[i] = LEADER
               /\ commitIndex'[i] < k
               /\ Len(log'[i]) >= k /\ log'[i][k] = log[i][k]
            \/ /\ Len(delivered'[i]) > Len(delivered[i])
               /\ \E d \in (Len(delivered[i]) + 1)..Len(delivered'[i]) :
                     delivered'[i][d] = log[i][k].cmd
            \/ <<i, log[i][k].cmd>> \in nacked']_vars

\* A granted vote is on the voter's disk before the candidate hears of it.
VoteDurable ==
    \A m \in net : m.type = "VoteResp" /\ m.granted =>
        \E k \in 1..Len(stateLog[m.from]) :
            stateLog[m.from][k] = [term |-> m.term, votedFor |-> m.to]

\* A node that won an election holds votes on the disks of a majority, each of
\* them for a candidacy that is on its own disk.
LeaderHasDurableVotes ==
    \A e \in elected :
        IsMajority({j \in Server :
            \E k \in 1..Len(stateLog[j]), h \in 1..Len(stateLog[e[1]]) :
                /\ stateLog[j][k].votedFor = e[1]
                /\ stateLog[j][k] = stateLog[e[1]][h]})

\* A majority has n entries or more on disk.
OnMajorityDisks(n) == IsMajority({j \in Server : Len(diskLog[j]) >= n})

\* No node, and no leader's message, counts more entries committed than a
\* majority has on disk, whatever order responses reach leader.go:226-277 in
\* and whoever restarts meanwhile.
CommitOnMajorityDisks ==
    /\ \A i \in Server : OnMajorityDisks(commitIndex[i])
    /\ \A m \in net : m.type = "AppendReq" => OnMajorityDisks(m.commit)

\* Everything in a node's log has been handed to its disk log.
LogDurable ==
    \A i \in Server : \A k \in 1..Len(log[i]) :
        \E h \in 1..Len(diskLog[i]) : diskLog[i][h] = log[i][k]

\* What a leader newly counts as committed is stored on a majority at that
\* moment (leader.go:246 "stored on a majority of servers").
CommitStoredOnMajority ==
    [][\A i \in Server :
         role[i] = LEADER /\ commitIndex'[i] > commitIndex[i] =>
            \A k \in (commitIndex[i] + 1)..commitIndex'[i] :
                IsMajority({j \in Server : /\ Len(log[j]) >= k
                                           /\ log[j][k] = log[i][k]})]_vars

=============================================================================

-------------------------- MODULE RaftSafetyProofs --------------------------
(***************************************************************************)
(* Safety of Raft for every cluster: what a node counts as committed has   *)
(* the length of a log that a majority has on disk, and a leader's         *)
(* nextIndex stays within its log.                                         *)
(***************************************************************************)
EXTENDS RaftTypeProofs

-----------------------------------------------------------------------------
(* Commits and the disks.                                                  *)

\* A message that reports no more than what is on disks.
Honest(m) ==
    /\ m.type = "AppendReq" => OnMajorityDisks(m.commit)
    /\ m.type = "AppendResp" /\ m.success => m.index <= Len(diskLog[m.from])

\* The inductive invariant: a log is no longer than its disk log, a leader
\* believes of no node more than that node has on disk, and neither does a
\* message in the network.
DiskInv ==
    /\ \A i \in Server : Len(log[i]) <= Len(diskLog[i])
    /\ \A i, j \in Server : matchIndex[i][j] <= Len(diskLog[j])
    /\ \A i \in Server : OnMajorityDisks(commitIndex[i])
    /\ \A m \in net : Honest(m)

LEMMA ServerIsMajority == IsMajority(Server)
<1>1. Cardinality(Server) \in Nat /\ Cardinality(Server) # 0
  BY ServerAssumption, FS_CardinalityType, FS_EmptySet
<1> QED BY <1>1 DEF IsMajority

\* Fewer entries are on the disks of a majority if more are.
LEMMA FewerOnDisks ==
    ASSUME TypeOK, NEW n \in Nat, NEW k \in Nat, k <= n, OnMajorityDisks(n)
    PROVE  OnMajorityDisks(k)
<1> DEFINE S == {j \in Server : Len(diskLog[j]) >= n}
           T == {j \in Server : Len(diskLog[j]) >= k}
<1>1. \A j \in Server : Len(diskLog[j]) \in Nat
  BY LenProperties DEF TypeOK
<1>2. S \subseteq T
  BY <1>1
<1>3. IsMajority(S)
  BY DEF OnMajorityDisks
<1>4. IsMajority(T)
  <2> HIDE DEF S
  <2> QED BY <1>2, <1>3, MajorityMonotonic
<1> QED BY <1>4 DEF OnMajorityDisks

\* What is on the disks of a majority stays there as disk logs grow.
LEMMA DisksGrow ==
    ASSUME TypeOK, TypeOK', NEW n \in Nat, OnMajorityDisks(n),
           \A j \in Server : Len(diskLog[j]) <= Len(diskLog'[j])
    PROVE  OnMajorityDisks(n)'
<1> DEFINE S == {j \in Server : Len(diskLog[j]) >= n}
           T == {j \in Server : Len(diskLog'[j]) >= n}
<1>1. \A j \in Server : Len(diskLog[j]) \in Nat /\ Len(diskLog'[j]) \in Nat
  BY LenProperties DEF TypeOK
<1>2. S \subseteq T
  BY <1>1
<1>3. IsMajority(S)
  BY DEF OnMajorityDisks
<1>4. IsMajority(T)
  <2> HIDE DEF S
  <2> QED BY <1>2, <1>3, MajorityMonotonic
<1> QED BY <1>4 DEF OnMajorityDisks, IsMajority

\* A step that touches neither logs nor commits, raises no matchIndex and
\* sends only honest messages.
LEMMA QuietStep ==
    ASSUME DiskInv, UNCHANGED <<log, diskLog, commitIndex>>,
           \A i, j \in Server : matchIndex'[i][j] \in {matchIndex[i][j], 0},
           TypeOK, \A m \in net' : m \in net \/ Honest(m)
    PROVE  DiskInv'
<1>1. \A j \in Server : Len(diskLog[j]) \in Nat
  BY LenProperties DEF TypeOK
<1>2. \A i, j \in Server : (matchIndex[i][j] <= Len(diskLog[j]))'
  BY <1>1 DEF DiskInv
<1>3. \A n : OnMajorityDisks(n)' <=> OnMajorityDisks(n)
  BY DEF OnMajorityDisks, IsMajority
<1>4. \A m \in net' : Honest(m)'
  BY <1>3 DEF DiskInv, Honest
<1>5. \A i \in Server : OnMajorityDisks(commitIndex[i])'
  BY <1>3 DEF DiskInv
<1>6. \A i \in Server : (Len(log[i]) <= Len(diskLog[i]))'
  BY DEF DiskInv
<1> QED BY <1>2, <1>4, <1>5, <1>6 DEF DiskInv

\* A step that sends honest messages only.
LEMMA HonestSend ==
    ASSUME NEW received, NEW sent, Transmit(received, sent),
           \A r \in sent : Honest(r)
    PROVE  \A x \in net' : x \in net \/ Honest(x)
BY DEF Transmit

LEMMA HonestReply ==
    ASSUME NEW m, NEW r, Reply(m, r), Honest(r)
    PROVE  \A x \in net' : x \in net \/ Honest(x)
BY HonestSend DEF Reply

LEMMA HonestConsume ==
    ASSUME NEW m, Consume(m)
    PROVE  \A x \in net' : x \in net \/ Honest(x)
BY HonestSend DEF Consume

\* Votes, their requests and failure responses make no claim on disks.
LEMMA HonestVoteReq ==
    ASSUME NEW i, NEW j, NEW t PROVE Honest(VoteReq(i, j, t))
BY DEF Honest, VoteReq

LEMMA HonestVoteResp ==
    ASSUME NEW i, NEW m, NEW t, NEW g PROVE Honest(VoteResp(i, m, t, g))
BY DEF Honest, VoteResp

LEMMA HonestFailure ==
    ASSUME NEW i, NEW m, NEW t, NEW n PROVE Honest(AppendResp(i, m, t, FALSE, n))
BY DEF Honest, AppendResp

\* A success response claims the log, a leader's request its commit index.
LEMMA HonestSuccess ==
    ASSUME DiskInv, NEW i \in Server, NEW m, NEW t
    PROVE  Honest(AppendResp(i, m, t, TRUE, Len(log[i])))
BY DEF Honest, AppendResp, DiskInv

LEMMA HonestHeartbeat ==
    ASSUME DiskInv, NEW i \in Server, NEW j PROVE Honest(Heartbeat(i, j))
BY DEF Honest, Heartbeat, DiskInv

LEMMA HonestReplication ==
    ASSUME DiskInv, NEW i \in Server, NEW j PROVE Honest(Replication(i, j))
<1>1. /\ Replication(i, j).type = "AppendReq"
      /\ Replication(i, j).commit = commitIndex[i]
  BY DEF Replication, Heartbeat
<1> QED BY <1>1 DEF Honest, DiskInv

\* A leader that steps down or goes down forgets its matchIndex.
LEMMA MatchForgotten ==
    ASSUME TypeOK, NEW i \in Server,
           UNCHANGED leaderVars \/ StepDown(i) \/ DropLeaderLocals(i)
    PROVE  \A k, j \in Server : matchIndex'[k][j] \in {matchIndex[k][j], 0}
<1>1. CASE UNCHANGED leaderVars
  BY <1>1 DEF leaderVars
<1>2. CASE StepDown(i) \/ DropLeaderLocals(i)
  <2>1. matchIndex' = [matchIndex EXCEPT ![i] = [j \in Server |-> 0]]
    BY <1>2 DEF StepDown, DropLeaderLocals, ForEach
  <2>2. matchIndex \in [Server -> [Server -> Nat]]
    BY DEF TypeOK
  <2> QED BY <2>1, <2>2
<1> QED BY <1>1, <1>2

LEMMA TimeoutDisk ==
    ASSUME TypeOK, DiskInv, NEW i \in Server,
           FollowerTimeout(i) \/ CandidateTimeout(i)
    PROVE  DiskInv'
<1>1. \A m \in net' : m \in net \/ Honest(m)
  <2> DEFINE sent == {VoteReq(i, j, term[i] + 1) : j \in Server \ {i}}
  <2>1. Transmit({}, sent)
    BY DEF FollowerTimeout, CandidateTimeout, Candidacy
  <2>2. \A m \in sent : Honest(m)
    BY HonestVoteReq
  <2> HIDE DEF sent
  <2> QED BY <2>1, <2>2, HonestSend
<1>2. UNCHANGED <<log, diskLog, commitIndex, matchIndex>>
  BY DEF FollowerTimeout, CandidateTimeout, logVars, commitVars, leaderVars
<1> QED BY <1>1, <1>2, QuietStep

LEMMA VoteReqDisk ==
    ASSUME TypeOK, DiskInv, NEW m \in net, NEW i \in Server,
           FollowerVoteReq(i, m) \/ CandidateVoteReq(i, m) \/ LeaderVoteReq(i, m)
    PROVE  DiskInv'
<1>1. \E id, t, g : Reply(m, VoteResp(id, m, t, g))
  <2>1. CASE FollowerVoteReq(i, m)
    BY <2>1 DEF FollowerVoteReq, FollowerStaleVoteReq, FollowerGrantsVote,
                FollowerRejectsLog, FollowerAlreadyVoted
  <2>2. CASE CandidateVoteReq(i, m)
    BY <2>2 DEF CandidateVoteReq
  <2>3. CASE LeaderVoteReq(i, m)
    BY <2>3 DEF LeaderVoteReq
  <2> QED BY <2>1, <2>2, <2>3
<1>2. \A x \in net' : x \in net \/ Honest(x)
  BY <1>1, HonestVoteResp, HonestReply
<1>3. UNCHANGED <<log, diskLog, commitIndex>>
  BY DEF FollowerVoteReq, CandidateVoteReq, LeaderVoteReq, logVars, commitVars
<1>4. UNCHANGED leaderVars \/ StepDown(i)
  BY DEF FollowerVoteReq, CandidateVoteReq, LeaderVoteReq, leaderVars
<1>5. \A k, j \in Server : matchIndex'[k][j] \in {matchIndex[k][j], 0}
  BY <1>4, MatchForgotten
<1> QED BY <1>2, <1>3, <1>5, QuietStep

LEMMA LateRespDisk ==
    ASSUME TypeOK, DiskInv, NEW m \in net, NEW i \in Server,
           FollowerResp(i, m) \/ CandidateAppendResp(i, m) \/ LeaderVoteResp(i, m)
    PROVE  DiskInv'
<1>1. \A x \in net' : x \in net \/ Honest(x)
  BY HonestConsume DEF FollowerResp, CandidateAppendResp, LeaderVoteResp
<1>2. UNCHANGED <<log, diskLog, commitIndex>>
  BY DEF FollowerResp, CandidateAppendResp, LeaderVoteResp, logVars, commitVars
<1>3. UNCHANGED leaderVars \/ StepDown(i)
  BY DEF FollowerResp, CandidateAppendResp, LeaderVoteResp, leaderVars
<1>4. \A k, j \in Server : matchIndex'[k][j] \in {matchIndex[k][j], 0}
  BY <1>3, MatchForgotten
<1> QED BY <1>1, <1>2, <1>4, QuietStep

LEMMA CandidateVoteRespDisk ==
    ASSUME TypeOK, DiskInv, NEW m \in net, NEW i \in Server,
           CandidateVoteResp(i, m)
    PROVE  DiskInv'
<1>1. UNCHANGED <<log, diskLog, commitIndex>>
  BY DEF CandidateVoteResp, logVars, commitVars
<1>2. CASE CandidateWins(i, m)
  <2> DEFINE sent == {Heartbeat(i, j) : j \in Server \ {i}}
  <2>1. /\ Transmit({m}, sent)
        /\ matchIndex' = [matchIndex EXCEPT ![i] = ForEach(0)]
    BY <1>2 DEF CandidateWins, Leadership
  <2>2. \A x \in sent : Honest(x)
    BY HonestHeartbeat
  <2>3. \A x \in net' : x \in net \/ Honest(x)
    <3> HIDE DEF sent
    <3> QED BY <2>1, <2>2, HonestSend
  <2>4. matchIndex \in [Server -> [Server -> Nat]]
    BY DEF TypeOK
  <2>5. \A k, j \in Server : matchIndex'[k][j] \in {matchIndex[k][j], 0}
    BY <2>1, <2>4 DEF ForEach
  <2> QED BY <1>1, <2>3, <2>5, QuietStep
<1>3. CASE CandidateOutdated(i, m) \/ CandidateLoses(i, m)
             \/ CandidateKeepsWaiting(i, m)
  <2>1. Consume(m) /\ UNCHANGED matchIndex
    BY <1>3 DEF CandidateOutdated, CandidateLoses, CandidateKeepsWaiting, leaderVars
  <2>2. \A x \in net' : x \in net \/ Honest(x)
    BY <2>1, HonestConsume
  <2> QED BY <1>1, <2>1, <2>2, QuietStep
<1> QED BY <1>2, <1>3 DEF CandidateVoteResp

LEMMA CandidateAppendReqDisk ==
    ASSUME TypeOK, DiskInv, NEW m \in net, NEW i \in Server,
           CandidateAppendReq(i, m)
    PROVE  DiskInv'
<1> DEFINE ok == AppendResp(i, m, m.term, TRUE, Len(log[i]))
           failed == AppendResp(i, m, term[i], FALSE, Len(log[i]))
<1>1. Transmit({m}, {ok}) \/ Transmit({m}, {}) \/ Transmit({m}, {failed})
  BY DEF CandidateAppendReq, Reply
<1>2. Honest(ok) /\ Honest(failed)
  BY HonestSuccess, HonestFailure
<1>3. \A x \in net' : x \in net \/ Honest(x)
  <2> HIDE DEF ok, failed
  <2> QED BY <1>1, <1>2, HonestSend
<1>4. UNCHANGED <<log, diskLog, commitIndex, matchIndex>>
  BY DEF CandidateAppendReq, logVars, commitVars, leaderVars
<1> QED BY <1>3, <1>4, QuietStep

LEMMA LeaderTimeoutDisk ==
    ASSUME TypeOK, DiskInv, NEW i \in Server, LeaderTimeout(i)
    PROVE  DiskInv'
<1>1. \A x \in net' : x \in net \/ Honest(x)
  <2> DEFINE sent == {Replication(i, j) : j \in Server \ {i}}
  <2>1. Transmit({}, sent)
    BY DEF LeaderTimeout
  <2>2. \A x \in sent : Honest(x)
    BY HonestReplication
  <2> HIDE DEF sent
  <2> QED BY <2>1, <2>2, HonestSend
<1>2. UNCHANGED <<log, diskLog, commitIndex, matchIndex>>
  BY DEF LeaderTimeout, logVars, commitVars
<1> QED BY <1>1, <1>2, QuietStep

LEMMA LeaderAppendReqDisk ==
    ASSUME TypeOK, DiskInv, NEW m \in net, NEW i \in Server,
           LeaderAppendReq(i, m)
    PROVE  DiskInv'
<1>1. \E t : Reply(m, AppendResp(i, m, t, FALSE, Len(log[i])))
  BY DEF LeaderAppendReq
<1>2. \A x \in net' : x \in net \/ Honest(x)
  BY <1>1, HonestReply, HonestFailure
<1>3. UNCHANGED <<log, diskLog, commitIndex>>
  BY DEF LeaderAppendReq, logVars, commitVars
<1>4. UNCHANGED leaderVars \/ StepDown(i)
  BY DEF LeaderAppendReq, leaderVars
<1>5. \A k, j \in Server : matchIndex'[k][j] \in {matchIndex[k][j], 0}
  BY <1>4, MatchForgotten
<1> QED BY <1>2, <1>3, <1>5, QuietStep

LEMMA ShutdownDisk ==
    ASSUME TypeOK, DiskInv, NEW i \in Server, Shutdown(i)
    PROVE  DiskInv'
<1>1. UNCHANGED <<net, log, diskLog, commitIndex>> /\ DropLeaderLocals(i)
  BY DEF Shutdown, logVars, commitVars
<1>2. \A k, j \in Server : matchIndex'[k][j] \in {matchIndex[k][j], 0}
  BY <1>1, MatchForgotten
<1> QED BY <1>1, <1>2, QuietStep

\* A step in which disk logs grow, and commits and matchIndex stay within
\* what the disks held before it.
LEMMA GrowStep ==
    ASSUME TypeOK, TypeOK', DiskInv,
           \A j \in Server : Len(diskLog[j]) <= Len(diskLog'[j]),
           \A j \in Server : Len(log'[j]) <= Len(diskLog'[j]),
           \A i, j \in Server : matchIndex'[i][j] <= Len(diskLog[j]),
           \A i \in Server : OnMajorityDisks(commitIndex'[i]),
           \A m \in net' : m \in net \/ Honest(m)'
    PROVE  DiskInv'
<1>1. \A j \in Server : Len(diskLog[j]) \in Nat /\ Len(diskLog'[j]) \in Nat
  BY LenProperties DEF TypeOK
<1>2. \A i, j \in Server : (matchIndex[i][j] <= Len(diskLog[j]))'
  <2>1. \A i, j \in Server : matchIndex'[i][j] \in Nat
    BY DEF TypeOK
  <2> QED BY <1>1, <2>1
<1>3. \A n \in Nat : OnMajorityDisks(n) => OnMajorityDisks(n)'
  BY DisksGrow
<1>4. \A i \in Server : OnMajorityDisks(commitIndex[i])'
  <2>1. \A i \in Server : commitIndex'[i] \in Nat
    BY DEF TypeOK
  <2>2. \A i \in Server : OnMajorityDisks(commitIndex'[i])
    OBVIOUS
  <2> QED
    BY <1>3, <2>1, <2>2 DEF OnMajorityDisks
<1>5. \A m \in net' : Honest(m)'
  <2> SUFFICES ASSUME NEW m \in net', m \in net PROVE Honest(m)'
    OBVIOUS
  <2>1. Honest(m) /\ m \in Message
    BY DEF DiskInv, TypeOK
  <2>2. CASE m.type = "AppendReq"
    <3>1. m.commit \in Nat /\ OnMajorityDisks(m.commit)
      BY <2>1, <2>2, MessageKinds DEF Honest, AppendEntriesReqEvent
    <3>2. OnMajorityDisks(m.commit)'
      BY <1>3, <3>1 DEF OnMajorityDisks
    <3> QED BY <2>2, <3>2 DEF Honest
  <2>3. CASE m.type = "AppendResp" /\ m.success
    <3>1. m.index \in Nat /\ m.from \in Server /\ m.index <= Len(diskLog[m.from])
      BY <2>1, <2>3, MessageKinds DEF Honest, AppendEntriesRespEvent
    <3> QED BY <1>1, <2>3, <3>1 DEF Honest
  <2> QED BY <2>2, <2>3 DEF Honest
<1>6. \A i \in Server : (Len(log[i]) <= Len(diskLog[i]))'
  OBVIOUS
<1> QED BY <1>2, <1>4, <1>5, <1>6 DEF DiskInv

\* The leader's log and disk log grow together.
LEMMA LeaderAppendEventDisk ==
    ASSUME TypeOK, TypeOK', DiskInv, NEW i \in Server, NEW c \in Command,
           LeaderAppendEvent(i, c)
    PROVE  DiskInv'
<1> DEFINE entry == [term |-> term[i], cmd |-> c]
<1>1. entry \in LogEntry
  BY DEF LogEntry, TypeOK
<1>2. /\ Len(Append(log[i], entry)) = Len(log[i]) + 1
      /\ Len(diskLog[i] \o <<entry>>) = Len(diskLog[i]) + 1
  <2>1. <<entry>> \in Seq(LogEntry) /\ Len(<<entry>>) = 1
    BY <1>1
  <2> QED BY <1>1, <2>1, AppendProperties, ConcatProperties DEF TypeOK
<1>3. \A j \in Server : Len(log[j]) \in Nat /\ Len(diskLog[j]) \in Nat
  BY LenProperties DEF TypeOK
<1>4. \A j \in Server :
        /\ j # i => log'[j] = log[j] /\ diskLog'[j] = diskLog[j]
        /\ j = i => /\ log'[j] = Append(log[i], entry)
                    /\ diskLog'[j] = diskLog[i] \o <<entry>>
  BY DEF LeaderAppendEvent, LogStore, TypeOK
<1> HIDE DEF entry
<1>5. \A j \in Server : Len(diskLog[j]) <= Len(diskLog'[j])
  BY <1>2, <1>3, <1>4
<1>6. \A j \in Server : Len(log'[j]) <= Len(diskLog'[j])
  BY <1>2, <1>3, <1>4 DEF DiskInv
<1>7. UNCHANGED <<net, matchIndex, commitIndex>>
  BY DEF LeaderAppendEvent, commitVars, leaderVars
<1>8. /\ \A k, j \in Server : matchIndex'[k][j] <= Len(diskLog[j])
      /\ \A k \in Server : OnMajorityDisks(commitIndex'[k])
  BY <1>7 DEF DiskInv
<1> QED BY <1>5, <1>6, <1>7, <1>8, GrowStep

\* Following a commit index that a majority backs.
LEMMA FollowCommitBacked ==
    ASSUME TypeOK, NEW l \in Seq(LogEntry), NEW c \in Nat, NEW n \in Nat,
           OnMajorityDisks(c), OnMajorityDisks(n)
    PROVE  OnMajorityDisks(FollowCommit(l, c, n))
<1>1. Len(l) \in Nat
  BY LenProperties
<1>2. /\ FollowCommit(l, c, n) \in Nat
      /\ FollowCommit(l, c, n) <= c \/ FollowCommit(l, c, n) <= n
  BY <1>1 DEF FollowCommit, minimum
<1> QED BY <1>2, FewerOnDisks

LEMMA FollowerAppendReqDisk ==
    ASSUME TypeOK, TypeOK', DiskInv, NEW m \in net, NEW i \in Server,
           FollowerAppendReq(i, m)
    PROVE  DiskInv'
<1>1. /\ m.commit \in Nat /\ m.prevIndex \in Nat /\ m.entries \in Seq(LogEntry)
      /\ OnMajorityDisks(m.commit)
  <2>1. m \in AppendEntriesReqEvent
    BY MessageKinds DEF TypeOK, FollowerAppendReq
  <2>2. Honest(m) /\ m.type = "AppendReq"
    BY DEF DiskInv, FollowerAppendReq
  <2> QED BY <2>1, <2>2 DEF Honest, AppendEntriesReqEvent
<1>2. \A j \in Server :
        /\ log[j] \in Seq(LogEntry) /\ Len(log[j]) \in Nat
        /\ diskLog[j] \in Seq(LogEntry) /\ Len(diskLog[j]) \in Nat
        /\ commitIndex[j] \in Nat
  BY LenProperties DEF TypeOK
<1>3. UNCHANGED matchIndex
  BY DEF FollowerAppendReq, leaderVars
<1> DEFINE c1 == FollowCommit(log[i], commitIndex[i], m.commit)
<1>4. c1 \in Nat /\ OnMajorityDisks(c1)
  BY <1>1, <1>2, FollowCommitType, FollowCommitBacked DEF DiskInv
<1>5. CASE FollowerStaleAppendReq(i, m)
  <2>1. /\ Reply(m, AppendResp(i, m, term[i], FALSE, Len(log[i])))
        /\ UNCHANGED <<log, diskLog, commitIndex>>
    BY <1>5 DEF FollowerStaleAppendReq, logVars, commitVars
  <2>2. \A x \in net' : x \in net \/ Honest(x)
    BY <2>1, HonestReply, HonestFailure
  <2> QED BY <1>3, <2>1, <2>2, QuietStep
<1>6. CASE FollowerHeartbeat(i, m) \/ FollowerRejectsEntries(i, m)
  <2>1. CommitUpTo(i, c1) /\ UNCHANGED <<log, diskLog>>
    BY <1>6 DEF FollowerHeartbeat, FollowerRejectsEntries, logVars
  <2>2. \A k \in Server : OnMajorityDisks(commitIndex'[k])
    <3>1. \A k \in Server : commitIndex'[k] \in {c1, commitIndex[k]}
      <4> HIDE DEF c1
      <4> QED BY <2>1 DEF CommitUpTo, TypeOK
    <3> QED BY <1>4, <3>1 DEF DiskInv
  <2>3. \A x \in net' : x \in net \/ Honest(x)
    <3> DEFINE ok == AppendResp(i, m, m.term, TRUE, Len(log[i]))
               failed == AppendResp(i, m, m.term, FALSE, Len(log[i]))
    <3>1. Reply(m, ok) \/ Reply(m, failed)
      BY <1>6 DEF FollowerHeartbeat, FollowerRejectsEntries
    <3>2. Honest(ok) /\ Honest(failed)
      BY HonestSuccess, HonestFailure
    <3> HIDE DEF ok, failed
    <3> QED BY <3>1, <3>2, HonestReply
  <2>4. \A x : Honest(x)' <=> Honest(x)
    BY <2>1 DEF Honest, OnMajorityDisks, IsMajority
  <2>5. /\ \A j \in Server : Len(diskLog[j]) <= Len(diskLog'[j])
        /\ \A j \in Server : Len(log'[j]) <= Len(diskLog'[j])
        /\ \A k, j \in Server : matchIndex'[k][j] <= Len(diskLog[j])
    BY <1>2, <1>3, <2>1 DEF DiskInv
  <2> QED BY <2>2, <2>3, <2>4, <2>5, GrowStep
<1>7. CASE FollowerAppendsEntries(i, m)
  <2> DEFINE rest(k) == SubSeq(m.entries, k + 1, Len(m.entries))
             new(k)  == IF rest(k) = <<>> THEN log[i]
                        ELSE SubSeq(log[i], 1, m.prevIndex + k) \o rest(k)
             c2(k)   == FollowCommit(new(k), c1, m.commit)
  <2>1. PICK k \in 0..Len(m.entries) :
          /\ \A h \in 1..k : Present(log[i], m, h)
          /\ log' = [log EXCEPT ![i] = new(k)]
          /\ diskLog' = [diskLog EXCEPT ![i] = @ \o rest(k)]
          /\ commitIndex' = [commitIndex EXCEPT ![i] = c2(k)]
          /\ Reply(m, AppendResp(i, m, m.term, TRUE, Len(new(k))))
    BY <1>7 DEF FollowerAppendsEntries, LogStore
  <2>2. k \in Nat /\ Len(m.entries) \in Nat /\ m.prevIndex + k <= Len(log[i])
    <3>1. k \in Nat /\ Len(m.entries) \in Nat
      BY <1>1, LenProperties
    <3>2. CASE k = 0
      BY <1>1, <1>7, <3>2 DEF FollowerAppendsEntries, PrevMatches
    <3>3. CASE k # 0
      <4>1. k \in 1..k
        BY <3>1, <3>3
      <4> QED BY <2>1, <3>1, <4>1 DEF Present
    <3> QED BY <3>1, <3>2, <3>3
  <2>3. /\ rest(k) \in Seq(LogEntry) /\ Len(rest(k)) = Len(m.entries) - k
        /\ new(k) \in Seq(LogEntry)
        /\ Len(new(k)) \in {Len(log[i]), m.prevIndex + Len(m.entries)}
    <3> DEFINE both == SubSeq(log[i], 1, m.prevIndex + k) \o rest(k)
    <3>1. /\ rest(k) \in Seq(LogEntry) /\ Len(rest(k)) = Len(m.entries) - k
          /\ both \in Seq(LogEntry) /\ Len(both) = m.prevIndex + Len(m.entries)
      <4>1. /\ log[i] \in Seq(LogEntry) /\ m.entries \in Seq(LogEntry)
            /\ m.prevIndex \in Nat /\ k \in 0..Len(m.entries)
            /\ m.prevIndex + k <= Len(log[i])
        BY <1>1, <1>2, <2>2
      <4> QED BY <4>1, SplicedLog
    <3>2. new(k) \in {log[i], both}
      OBVIOUS
    <3> HIDE DEF rest, both, new
    <3> QED BY <1>2, <3>1, <3>2
  <2> HIDE DEF rest, new
  <2>4. Len(diskLog[i] \o rest(k)) = Len(diskLog[i]) + Len(rest(k))
    BY <1>2, <2>3, ConcatProperties
  <2>5. \A j \in Server :
          /\ j # i => log'[j] = log[j] /\ diskLog'[j] = diskLog[j]
          /\ j = i => log'[j] = new(k) /\ diskLog'[j] = diskLog[i] \o rest(k)
    BY <2>1 DEF TypeOK
  <2>6. \A j \in Server : Len(diskLog[j]) <= Len(diskLog'[j])
    <3>1. Len(rest(k)) \in Nat
      BY <2>2, <2>3
    <3>2. Len(diskLog[i]) <= Len(diskLog[i] \o rest(k))
      BY <1>2, <2>4, <3>1
    <3> QED BY <1>2, <2>5, <3>2
  <2>7. \A j \in Server : Len(log'[j]) <= Len(diskLog'[j])
    <3>1. \A j \in Server : Len(log[j]) <= Len(diskLog[j])
      BY DEF DiskInv
    <3>2. Len(new(k)) <= Len(diskLog[i] \o rest(k))
      <4>1. /\ Len(log[i]) <= Len(diskLog[i])
            /\ Len(log[i]) \in Nat /\ Len(diskLog[i]) \in Nat
        BY <1>2, <3>1
      <4>2. Len(diskLog[i] \o rest(k)) = Len(diskLog[i]) + (Len(m.entries) - k)
        BY <2>3, <2>4
      <4> DEFINE N == Len(new(k))  A == Len(log[i])  B == Len(diskLog[i])
                 C == Len(diskLog[i] \o rest(k))  E == Len(m.entries)
      <4>3. /\ A \in Nat /\ B \in Nat /\ E \in Nat /\ m.prevIndex \in Nat
            /\ k \in 0..E /\ A <= B /\ m.prevIndex + k <= A
            /\ C = B + (E - k) /\ N \in {A, m.prevIndex + E}
        BY <1>1, <2>2, <2>3, <4>1, <4>2
      <4> HIDE DEF N, A, B, C, E
      <4>4. N <= C
        BY <4>3
      <4> QED BY <4>4 DEF N, C
    <3> QED BY <2>5, <3>1, <3>2
  <2>8. \A j \in Server : OnMajorityDisks(commitIndex'[j])
    <3>1. OnMajorityDisks(c2(k))
      <4> HIDE DEF c1
      <4> QED BY <1>1, <1>4, <2>3, FollowCommitBacked
    <3>2. \A j \in Server : commitIndex'[j] \in {c2(k), commitIndex[j]}
      <4> HIDE DEF c2
      <4> QED BY <2>1 DEF TypeOK
    <3> QED BY <3>1, <3>2 DEF DiskInv
  <2>9. \A x \in net' : x \in net \/ Honest(x)'
    <3>1. SUFFICES ASSUME NEW x \in net', x \notin net PROVE Honest(x)'
      OBVIOUS
    <3>2. x = AppendResp(i, m, m.term, TRUE, Len(new(k)))
      BY <2>1, <3>1 DEF Reply, Transmit
    <3>3. x.type = "AppendResp" /\ x.from = i /\ x.index = Len(new(k))
      BY <3>2 DEF AppendResp
    <3>4. Len(new(k)) <= Len(diskLog'[i])
      BY <2>5, <2>7
    <3> QED BY <3>3, <3>4 DEF Honest
  <2>10. \A a, j \in Server : matchIndex'[a][j] <= Len(diskLog[j])
    BY <1>3 DEF DiskInv
  <2> QED BY <2>6, <2>7, <2>8, <2>9, <2>10, GrowStep
<1> QED BY <1>5, <1>6, <1>7 DEF FollowerAppendReq

\* A leader commits only what it believes a majority to have.
LEMMA CommittableBacked ==
    ASSUME TypeOK, DiskInv, NEW i \in Server, NEW match \in [Server -> Nat],
           \A j \in Server : match[j] <= Len(diskLog[j]),
           NEW n \in Committable(i, match)
    PROVE  n \in Nat /\ OnMajorityDisks(n)
<1>1. CASE n = commitIndex[i]
  BY <1>1 DEF TypeOK, DiskInv
<1>2. CASE n # commitIndex[i]
  <2> DEFINE S == {j \in Server : j = i \/ match[j] >= n}
             T == {j \in Server : Len(diskLog[j]) >= n}
  <2>1. n \in 1..Len(log[i]) /\ IsMajority(S)
    BY <1>2 DEF Committable
  <2>2. \A j \in Server : Len(log[j]) \in Nat /\ Len(diskLog[j]) \in Nat
    BY LenProperties DEF TypeOK
  <2>3. Len(log[i]) <= Len(diskLog[i])
    BY DEF DiskInv
  <2>4. S \subseteq T
    BY <2>1, <2>2, <2>3
  <2>5. IsMajority(T)
    <3> HIDE DEF S
    <3> QED BY <2>1, <2>4, MajorityMonotonic
  <2> QED BY <2>1, <2>2, <2>5 DEF OnMajorityDisks
<1> QED BY <1>1, <1>2

LEMMA LeaderAppendRespDisk ==
    ASSUME TypeOK, TypeOK', DiskInv, NEW m \in net, NEW i \in Server,
           LeaderAppendResp(i, m)
    PROVE  DiskInv'
<1>1. /\ m.from \in Server /\ m.index \in Nat
      /\ m.success => m.index <= Len(diskLog[m.from])
  <2>1. m \in AppendEntriesRespEvent
    BY MessageKinds DEF TypeOK, LeaderAppendResp
  <2>2. Honest(m) /\ m.type = "AppendResp"
    BY DEF DiskInv, LeaderAppendResp
  <2> QED BY <2>1, <2>2 DEF Honest, AppendEntriesRespEvent
<1>2. UNCHANGED <<log, diskLog>> /\ Consume(m)
  BY DEF LeaderAppendResp, logVars
<1>3. \A x \in net' : x \in net \/ Honest(x)
  BY <1>2, HonestConsume
<1>4. CASE LeaderFailedResp(i, m)
  <2>1. UNCHANGED commitIndex /\ (UNCHANGED matchIndex \/ StepDown(i))
    BY <1>4 DEF LeaderFailedResp, commitVars
  <2>2. \A k, j \in Server : matchIndex'[k][j] \in {matchIndex[k][j], 0}
    <3>1. CASE UNCHANGED matchIndex
      BY <3>1
    <3>2. CASE StepDown(i)
      BY <3>2, MatchForgotten
    <3> QED BY <2>1, <3>1, <3>2
  <2> QED BY <1>2, <1>3, <2>1, <2>2, QuietStep
<1>5. CASE LeaderSuccessResp(i, m) /\ m.index = 0
  <2>1. UNCHANGED <<commitIndex, matchIndex>>
    BY <1>5 DEF LeaderSuccessResp, commitVars
  <2> QED BY <1>2, <1>3, <2>1, QuietStep
<1>6. CASE LeaderSuccessResp(i, m) /\ m.index # 0
  <2> DEFINE match == [matchIndex[i] EXCEPT ![m.from] = m.index]
  <2>1. PICK n \in Committable(i, match) :
          /\ matchIndex' = [matchIndex EXCEPT ![i] = match]
          /\ commitIndex' = [commitIndex EXCEPT ![i] = n]
    BY <1>6 DEF LeaderSuccessResp, CommitUpTo
  <2>2. /\ match \in [Server -> Nat]
        /\ \A j \in Server : match[j] <= Len(diskLog[j])
    <3>1. matchIndex[i] \in [Server -> Nat]
      BY DEF TypeOK
    <3>2. \A j \in Server : match[j] \in {m.index, matchIndex[i][j]}
      BY <1>1, <3>1
    <3>3. m.index <= Len(diskLog[m.from])
      BY <1>1, <1>6 DEF LeaderSuccessResp
    <3> QED BY <1>1, <3>1, <3>3 DEF DiskInv
  <2> HIDE DEF match
  <2>3. OnMajorityDisks(n)
    BY <2>2, CommittableBacked
  <2>4. \A k \in Server : OnMajorityDisks(commitIndex'[k])
    <3>1. \A k \in Server : commitIndex'[k] \in {n, commitIndex[k]}
      BY <2>1 DEF TypeOK
    <3> QED BY <2>3, <3>1 DEF DiskInv
  <2>5. \A k, j \in Server : matchIndex'[k][j] <= Len(diskLog[j])
    <3>1. \A k \in Server : matchIndex'[k] \in {match, matchIndex[k]}
      BY <2>1 DEF TypeOK
    <3> QED BY <2>2, <3>1 DEF DiskInv
  <2>6. /\ \A j \in Server : Len(diskLog[j]) <= Len(diskLog'[j])
        /\ \A j \in Server : Len(log'[j]) <= Len(diskLog'[j])
    <3>1. \A j \in Server : Len(diskLog[j]) \in Nat
      BY LenProperties DEF TypeOK
    <3> QED BY <1>2, <3>1 DEF DiskInv
  <2>7. \A x \in net' : x \in net
    BY <1>2 DEF Consume, Transmit
  <2> QED BY <2>4, <2>5, <2>6, <2>7, GrowStep
<1> QED BY <1>4, <1>5, <1>6 DEF LeaderAppendResp

\* A node that comes back has its disk log and no commits.
LEMMA NewDisk ==
    ASSUME TypeOK, TypeOK', DiskInv, NEW i \in Server, New(i)
    PROVE  DiskInv'
<1>1. \A j \in Server : Len(diskLog[j]) \in Nat
  BY LenProperties DEF TypeOK
<1>2. /\ UNCHANGED <<net, diskLog, matchIndex>>
      /\ log' = [log EXCEPT ![i] = diskLog[i]]
      /\ commitIndex' = [commitIndex EXCEPT ![i] = 0]
  BY DEF New, leaderVars
<1>3. \A j \in Server : /\ log'[j] \in {log[j], diskLog[j]}
                        /\ commitIndex'[j] \in {commitIndex[j], 0}
  BY <1>2 DEF TypeOK
<1>4. OnMajorityDisks(0)
  <2>1. commitIndex[i] \in Nat /\ OnMajorityDisks(commitIndex[i])
    BY DEF TypeOK, DiskInv
  <2> QED BY <2>1, FewerOnDisks
<1>5. \A k \in Server : OnMajorityDisks(commitIndex'[k])
  BY <1>3, <1>4 DEF DiskInv
<1>6. /\ \A j \in Server : Len(diskLog[j]) <= Len(diskLog'[j])
      /\ \A j \in Server : Len(log'[j]) <= Len(diskLog'[j])
      /\ \A k, j \in Server : matchIndex'[k][j] <= Len(diskLog[j])
  BY <1>1, <1>2, <1>3 DEF DiskInv
<1> QED BY <1>2, <1>5, <1>6, GrowStep

LEMMA InitDisk == Init => DiskInv
<1> SUFFICES ASSUME Init PROVE DiskInv
  OBVIOUS
<1>1. \A j \in Server : Len(diskLog[j]) = 0 /\ Len(log[j]) = 0
  BY DEF Init, ForEach
<1>2. OnMajorityDisks(0)
  <2>1. {j \in Server : Len(diskLog[j]) >= 0} = Server
    BY <1>1
  <2> QED BY <2>1, ServerIsMajority DEF OnMajorityDisks
<1> QED BY <1>1, <1>2 DEF Init, ForEach, DiskInv

LEMMA NextDisk == TypeOK /\ TypeOK' /\ DiskInv /\ [Next]_vars => DiskInv'
<1> SUFFICES ASSUME TypeOK, TypeOK', DiskInv, [Next]_vars PROVE DiskInv'
  OBVIOUS
<1>1. ASSUME NEW m \in net, Handle(m.to, m) PROVE DiskInv'
  <2>1. m.to \in Server
    BY MessageKinds DEF TypeOK
  <2> QED
    BY <1>1, <2>1, VoteReqDisk, FollowerAppendReqDisk, LateRespDisk,
       CandidateVoteRespDisk, CandidateAppendReqDisk, LeaderAppendReqDisk,
       LeaderAppendRespDisk
    DEF Handle
<1>2. ASSUME NEW i \in Server,
             \/ FollowerTimeout(i)
             \/ CandidateTimeout(i)
             \/ LeaderTimeout(i)
             \/ \E c \in Command : LeaderAppendEvent(i, c)
             \/ Shutdown(i)
             \/ New(i)
      PROVE  DiskInv'
  BY <1>2, TimeoutDisk, LeaderTimeoutDisk, LeaderAppendEventDisk, ShutdownDisk,
     NewDisk
<1>3. CASE UNCHANGED vars
  BY <1>3, QuietStep DEF vars, logVars, commitVars, leaderVars
<1> QED BY <1>1, <1>2, <1>3 DEF Next

\* The disks back every commit: no node, and no message, counts more entries
\* committed than a majority has on disk (leader.go:226-277, follower.go:131
\* and 198), through elections, lost messages and restarts.
THEOREM CommitsBacked == Spec => []CommitOnMajorityDisks
<1>1. DiskInv => CommitOnMajorityDisks
  BY DEF DiskInv, Honest, CommitOnMajorityDisks
<1> QED BY <1>1, InitDisk, NextDisk, TypeCorrect, PTL DEF Spec

-----------------------------------------------------------------------------
(* nextIndex and the leader's log.                                         *)

\* The part of NextIndexInLog that is about leader i.
NextInLog(i) ==
    role[i] = LEADER => \A j \in Server : nextIndex[i][j] <= Len(log[i]) + 1

\* A step of node i leaves the logs and nextIndex of the other leaders alone.
LEMMA OneNodeNext ==
    ASSUME NextIndexInLog, NEW i \in Server, NextInLog(i)',
           \A k \in Server \ {i} :
              /\ role'[k] = role[k]
              /\ log'[k] = log[k]
              /\ nextIndex'[k] = nextIndex[k]
    PROVE  NextIndexInLog'
<1> SUFFICES ASSUME NEW k \in Server, NEW j \in Server, role'[k] = LEADER
             PROVE  nextIndex'[k][j] <= Len(log'[k]) + 1
  BY DEF NextIndexInLog
<1>1. CASE k = i
  BY <1>1 DEF NextInLog
<1>2. CASE k # i
  BY <1>2 DEF NextIndexInLog
<1> QED BY <1>1, <1>2

\* Steps that leave role, log and nextIndex of every leader alone.
LEMMA NoLeaderNext ==
    ASSUME NextIndexInLog,
           \A k \in Server : role'[k] = LEADER =>
              role[k] = LEADER /\ log'[k] = log[k] /\ nextIndex'[k] = nextIndex[k]
    PROVE  NextIndexInLog'
BY DEF NextIndexInLog

\* follower.go: whatever it does to its log, the node is no leader after it.
LEMMA FollowerNext ==
    ASSUME TypeOK, NextIndexInLog, NEW m \in net, NEW i \in Server,
           FollowerVoteReq(i, m) \/ FollowerAppendReq(i, m) \/ FollowerResp(i, m)
    PROVE  NextIndexInLog'
<1>1. UNCHANGED <<role, nextIndex>> /\ role[i] = FOLLOWER
  BY DEF FollowerVoteReq, FollowerAppendReq, FollowerResp, leaderVars
<1>2. \A k \in Server \ {i} : log'[k] = log[k]
  <2>1. CASE FollowerAppendReq(i, m)
    BY <2>1 DEF FollowerAppendReq, FollowerStaleAppendReq, FollowerHeartbeat,
                FollowerRejectsEntries, FollowerAppendsEntries, logVars, TypeOK
  <2>2. CASE FollowerVoteReq(i, m) \/ FollowerResp(i, m)
    BY <2>2 DEF FollowerVoteReq, FollowerResp, logVars
  <2> QED BY <2>1, <2>2
<1> QED BY <1>1, <1>2, NoLeaderNext DEF FOLLOWER, LEADER

\* The handlers of a candidate or a leader that do not win an election, send
\* or count entries: they leave the log, and nextIndex unless they step down.
LEMMA RoleOnlyNext ==
    ASSUME TypeOK, NextIndexInLog, NEW i \in Server, UNCHANGED log,
           \/ UNCHANGED <<role, nextIndex>>
           \/ /\ role' = [role EXCEPT ![i] = FOLLOWER]
              /\ UNCHANGED nextIndex \/ DropLeaderLocals(i)
           \/ /\ role' = [role EXCEPT ![i] = CANDIDATE]
              /\ UNCHANGED nextIndex
           \/ /\ role' = [role EXCEPT ![i] = POWEROFF]
              /\ DropLeaderLocals(i)
    PROVE  NextIndexInLog'
<1>1. CASE UNCHANGED <<role, nextIndex>>
  BY <1>1, NoLeaderNext
<1>2. CASE ~UNCHANGED <<role, nextIndex>>
  <2>1. role'[i] # LEADER /\ \A k \in Server \ {i} : role'[k] = role[k]
    BY <1>2 DEF TypeOK, FOLLOWER, CANDIDATE, POWEROFF, LEADER
  <2>2. \A k \in Server \ {i} : nextIndex'[k] = nextIndex[k]
    BY <1>2 DEF TypeOK, DropLeaderLocals
  <2> QED BY <2>1, <2>2, NoLeaderNext
<1> QED BY <1>1, <1>2

LEMMA TimeoutNext ==
    ASSUME TypeOK, NextIndexInLog, NEW i \in Server,
           FollowerTimeout(i) \/ CandidateTimeout(i) \/ Shutdown(i)
    PROVE  NextIndexInLog'
BY RoleOnlyNext DEF FollowerTimeout, CandidateTimeout, Candidacy, Shutdown,
                    logVars, leaderVars

LEMMA StepDownNext ==
    ASSUME TypeOK, NextIndexInLog, NEW m \in net, NEW i \in Server,
           \/ CandidateVoteReq(i, m) \/ CandidateAppendReq(i, m)
           \/ CandidateAppendResp(i, m) \/ LeaderVoteReq(i, m)
           \/ LeaderAppendReq(i, m) \/ LeaderVoteResp(i, m)
    PROVE  NextIndexInLog'
<1>1. UNCHANGED log
  BY DEF CandidateVoteReq, CandidateAppendReq, CandidateAppendResp,
         LeaderVoteReq, LeaderAppendReq, LeaderVoteResp, logVars
<1>2. \/ UNCHANGED <<role, nextIndex>>
      \/ /\ role' = [role EXCEPT ![i] = FOLLOWER]
         /\ UNCHANGED nextIndex \/ DropLeaderLocals(i)
  BY DEF CandidateVoteReq, CandidateAppendReq, CandidateAppendResp,
         LeaderVoteReq, LeaderAppendReq, LeaderVoteResp, leaderVars, StepDown
<1> QED BY <1>1, <1>2, RoleOnlyNext

LEMMA CandidateVoteRespNext ==
    ASSUME TypeOK, NextIndexInLog, NEW m \in net, NEW i \in Server,
           CandidateVoteResp(i, m)
    PROVE  NextIndexInLog'
<1>1. UNCHANGED log
  BY DEF CandidateVoteResp, logVars
<1>2. CASE CandidateWins(i, m)
  <2>1. /\ role' = [role EXCEPT ![i] = LEADER]
        /\ nextIndex' = [nextIndex EXCEPT ![i] = ForEach(Len(log[i]) + 1)]
    BY <1>2 DEF CandidateWins, Leadership
  <2>2. Len(log[i]) \in Nat
    BY LenProperties DEF TypeOK
  <2>3. NextInLog(i)'
    BY <1>1, <2>1, <2>2 DEF NextInLog, TypeOK, ForEach
  <2>4. \A k \in Server \ {i} : /\ role'[k] = role[k]
                                /\ log'[k] = log[k]
                                /\ nextIndex'[k] = nextIndex[k]
    BY <1>1, <2>1 DEF TypeOK
  <2> QED BY <2>3, <2>4, OneNodeNext
<1>3. CASE CandidateOutdated(i, m) \/ CandidateLoses(i, m)
             \/ CandidateKeepsWaiting(i, m)
  BY <1>1, <1>3, RoleOnlyNext
  DEF CandidateOutdated, CandidateLoses, CandidateKeepsWaiting, leaderVars
<1> QED BY <1>2, <1>3 DEF CandidateVoteResp

LEMMA LeaderTimeoutNext ==
    ASSUME TypeOK, NextIndexInLog, NEW i \in Server, LeaderTimeout(i)
    PROVE  NextIndexInLog'
<1>1. UNCHANGED <<role, log>>
  BY DEF LeaderTimeout, logVars
<1>2. Len(log[i]) \in Nat
  BY LenProperties DEF TypeOK
<1>3. \A j \in Server : nextIndex'[i][j] \in {nextIndex[i][j], Len(log[i]) + 1}
  BY DEF LeaderTimeout, TypeOK
<1>4. NextInLog(i)'
  BY <1>1, <1>2, <1>3 DEF NextIndexInLog, NextInLog
<1>5. \A k \in Server \ {i} : nextIndex'[k] = nextIndex[k]
  BY DEF LeaderTimeout, TypeOK
<1> QED BY <1>1, <1>4, <1>5, OneNodeNext

LEMMA LeaderAppendEventNext ==
    ASSUME TypeOK, NextIndexInLog, NEW i \in Server, NEW c \in Command,
           LeaderAppendEvent(i, c)
    PROVE  NextIndexInLog'
<1> DEFINE entry == [term |-> term[i], cmd |-> c]
<1>1. UNCHANGED <<role, nextIndex>>
  BY DEF LeaderAppendEvent, leaderVars
<1>2. Len(log[i]) \in Nat /\ Len(Append(log[i], entry)) = Len(log[i]) + 1
  <2>1. entry \in LogEntry
    BY DEF LogEntry, TypeOK
  <2> QED BY <2>1, AppendProperties, LenProperties DEF TypeOK
<1>3. /\ log'[i] = Append(log[i], entry)
      /\ \A k \in Server \ {i} : log'[k] = log[k]
  BY DEF LeaderAppendEvent, TypeOK
<1> HIDE DEF entry
<1>4. \A j \in Server : nextIndex[i][j] \in Nat
  BY DEF TypeOK
<1>5. NextInLog(i)'
  BY <1>1, <1>2, <1>3, <1>4 DEF NextIndexInLog, NextInLog
<1> QED BY <1>1, <1>3, <1>5, OneNodeNext

\* A failure lowers nextIndex to 1 at least; a success never raises it.
LEMMA LeaderAppendRespNext ==
    ASSUME TypeOK, NextIndexInLog, NEW m \in net, NEW i \in Server,
           LeaderAppendResp(i, m)
    PROVE  NextIndexInLog'
<1>1. UNCHANGED log /\ role[i] = LEADER
  BY DEF LeaderAppendResp, logVars
<1>2. CASE LeaderFailedResp(i, m) /\ StepDown(i)
  BY <1>1, <1>2, RoleOnlyNext DEF StepDown
<1>3. CASE /\ UNCHANGED role
           /\ \E n : /\ n \in Nat
                     /\ n <= nextIndex[i][m.from] \/ n = 1
                     /\ nextIndex' = [nextIndex EXCEPT ![i][m.from] = n]
  <2>1. PICK n \in Nat :
          /\ n <= nextIndex[i][m.from] \/ n = 1
          /\ nextIndex' = [nextIndex EXCEPT ![i][m.from] = n]
    BY <1>3
  <2>2. /\ \A j \in Server : nextIndex[i][j] \in Nat
        /\ Len(log[i]) \in Nat
    BY LenProperties DEF TypeOK
  <2>3. m.from \in Server
    BY MessageKinds DEF TypeOK, LeaderAppendResp, AppendEntriesRespEvent
  <2>4. \A j \in Server : nextIndex'[i][j] \in {nextIndex[i][j],
                                IF j = m.from THEN n ELSE nextIndex[i][j]}
    BY <2>1 DEF TypeOK
  <2>5. \A j \in Server : nextIndex[i][j] <= Len(log[i]) + 1
    BY <1>1 DEF NextIndexInLog
  <2>6. NextInLog(i)'
    BY <1>1, <1>3, <2>1, <2>2, <2>3, <2>4, <2>5 DEF NextInLog
  <2>7. \A k \in Server \ {i} : nextIndex'[k] = nextIndex[k]
    BY <2>1 DEF TypeOK
  <2> QED BY <1>1, <1>3, <2>6, <2>7, OneNodeNext
<1>4. m.from \in Server /\ m.index \in Nat /\ nextIndex[i][m.from] \in Nat \ {0}
  BY MessageKinds DEF TypeOK, LeaderAppendResp, AppendEntriesRespEvent
<1>5. CASE LeaderFailedResp(i, m) /\ ~StepDown(i)
  <2> DEFINE n == IF nextIndex[i][m.from] > 1 THEN nextIndex[i][m.from] - 1 ELSE 1
  <2>1. UNCHANGED role /\ nextIndex' = [nextIndex EXCEPT ![i][m.from] = n]
    BY <1>5 DEF LeaderFailedResp
  <2>2. n \in Nat /\ (n <= nextIndex[i][m.from] \/ n = 1)
    BY <1>4
  <2> HIDE DEF n
  <2> QED BY <1>3, <2>1, <2>2
<1>6. CASE LeaderSuccessResp(i, m)
  <2> DEFINE n == NextAfterSuccess(nextIndex[i][m.from], m)
  <2>1. UNCHANGED role /\ nextIndex' = [nextIndex EXCEPT ![i][m.from] = n]
    BY <1>6 DEF LeaderSuccessResp
  <2>2. n \in Nat /\ n <= nextIndex[i][m.from]
    BY <1>4 DEF NextAfterSuccess
  <2> HIDE DEF n
  <2> QED BY <1>3, <2>1, <2>2
<1> QED BY <1>2, <1>5, <1>6 DEF LeaderAppendResp

LEMMA NewNext ==
    ASSUME TypeOK, NextIndexInLog, NEW i \in Server, New(i)
    PROVE  NextIndexInLog'
<1>1. /\ UNCHANGED nextIndex
      /\ \A k \in Server : k # i => role'[k] = role[k] /\ log'[k] = log[k]
      /\ role'[i] # LEADER
  BY DEF New, TypeOK, leaderVars, FOLLOWER, LEADER
<1> QED BY <1>1, NoLeaderNext

\* A leader never slices its log beyond its end: what leader.go:47-53 reads
\* exists, however late, lost or repeated the responses are.
THEOREM NextIndexSafe == Spec => []NextIndexInLog
<1>1. Init => NextIndexInLog
  BY DEF Init, ForEach, NextIndexInLog, FOLLOWER, LEADER
<1>2. TypeOK /\ NextIndexInLog /\ [Next]_vars => NextIndexInLog'
  <2> SUFFICES ASSUME TypeOK, NextIndexInLog, [Next]_vars PROVE NextIndexInLog'
    OBVIOUS
  <2>1. ASSUME NEW m \in net, Handle(m.to, m) PROVE NextIndexInLog'
    <3>1. m.to \in Server
      BY MessageKinds DEF TypeOK
    <3> QED BY <2>1, <3>1, FollowerNext, StepDownNext, CandidateVoteRespNext,
               LeaderAppendRespNext DEF Handle
  <2>2. ASSUME NEW i \in Server,
               \/ FollowerTimeout(i)
               \/ CandidateTimeout(i)
               \/ LeaderTimeout(i)
               \/ \E c \in Command : LeaderAppendEvent(i, c)
               \/ Shutdown(i)
               \/ New(i)
        PROVE  NextIndexInLog'
    BY <2>2, TimeoutNext, LeaderTimeoutNext, LeaderAppendEventNext, NewNext
  <2>3. CASE UNCHANGED vars
    BY <2>3, NoLeaderNext DEF vars, logVars, leaderVars
  <2> QED BY <2>1, <2>2, <2>3 DEF Next
<1> QED BY <1>1, <1>2, TypeCorrect, PTL DEF Spec

=============================================================================

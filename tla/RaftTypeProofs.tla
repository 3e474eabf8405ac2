--------------------------- MODULE RaftTypeProofs ---------------------------
(***************************************************************************)
(* Type correctness of Raft, and the lemmas on its operators that later    *)
(* proofs cite.                                                            *)
(***************************************************************************)
EXTENDS Raft, SequenceTheorems, FiniteSetTheorems, TLAPS

LEMMA LastTermType ==
    ASSUME NEW l \in Seq(LogEntry)
    PROVE  LastTerm(l) \in Nat
<1>1. CASE Len(l) = 0
  BY <1>1 DEF LastTerm
<1>2. CASE Len(l) # 0
  <2>1. Len(l) \in 1..Len(l)
    BY <1>2, LenProperties
  <2>2. l[Len(l)] \in LogEntry
    BY <2>1, ElementOfSeq
  <2> QED BY <1>2, <2>2 DEF LastTerm, LogEntry
<1> QED BY <1>1, <1>2

\* Commands returns a sequence of hi - lo commands: those of the entries.
LEMMA CommandsType ==
    ASSUME NEW l \in Seq(LogEntry), NEW lo \in Nat, NEW hi \in Nat,
           lo <= hi, lo < hi => hi <= Len(l)
    PROVE  /\ Commands(l, lo, hi) \in Seq(Command)
           /\ Len(Commands(l, lo, hi)) = hi - lo
           /\ \A k \in 1..(hi - lo) : Commands(l, lo, hi)[k] = l[lo + k].cmd
<1> DEFINE n == hi - lo
<1>1. n \in Nat
  OBVIOUS
<1>2. ASSUME NEW k \in 1..n PROVE l[lo + k].cmd \in Command
  <2>1. lo + k \in 1..Len(l)
    BY <1>2, LenProperties
  <2>2. l[lo + k] \in LogEntry
    BY <2>1, ElementOfSeq
  <2> QED BY <2>2 DEF LogEntry
<1>3. [k \in 1..n |-> l[lo + k].cmd] \in [1..n -> Command]
  BY <1>2
<1>4. Commands(l, lo, hi) = [k \in 1..n |-> l[lo + k].cmd]
  BY DEF Commands
<1>5. Commands(l, lo, hi) \in Seq(Command)
  <2>1. [1..n -> Command] \in {[1..k -> Command] : k \in Nat}
    BY <1>1
  <2>2. [1..n -> Command] \subseteq Seq(Command)
    BY <2>1, SeqDef
  <2> QED BY <1>3, <1>4, <2>2
<1>6. Len(Commands(l, lo, hi)) = n
  <2>1. DOMAIN Commands(l, lo, hi) = 1..n
    BY <1>4
  <2>2. DOMAIN Commands(l, lo, hi) = 1..Len(Commands(l, lo, hi))
        /\ Len(Commands(l, lo, hi)) \in Nat
    BY <1>5, LenProperties
  <2> QED BY <1>1, <2>1, <2>2
<1> QED BY <1>4, <1>5, <1>6

LEMMA TransmitType ==
    ASSUME net \subseteq Message, NEW received, NEW sent \in SUBSET Message,
           Transmit(received, sent)
    PROVE  net' \subseteq Message
BY DEF Transmit

LEMMA StoreStateType ==
    ASSUME TypeOK, NEW i \in Server, NEW t \in Nat,
           NEW v \in Server \cup {NoServer}, StoreState(i, t, v)
    PROVE  /\ term' \in [Server -> Nat]
           /\ votedFor' \in [Server -> Server \cup {NoServer}]
           /\ stateLog' \in [Server -> Seq(StateStore)]
<1>1. [term |-> t, votedFor |-> v] \in StateStore
  BY DEF StateStore
<1>2. Append(stateLog[i], [term |-> t, votedFor |-> v]) \in Seq(StateStore)
  BY <1>1, AppendProperties DEF TypeOK
<1> QED BY <1>2 DEF TypeOK, StoreState

LEMMA MessageKinds ==
    ASSUME NEW m \in Message
    PROVE  /\ m.to \in Server
           /\ m.term \in Nat
           /\ m.type = "VoteReq" => m \in VoteReqEvent
           /\ m.type = "VoteResp" => m \in VoteRespEvent
           /\ m.type = "AppendReq" => m \in AppendEntriesReqEvent
           /\ m.type = "AppendResp" => m \in AppendEntriesRespEvent
BY DEF Message, VoteReqEvent, VoteRespEvent, AppendEntriesReqEvent,
       AppendEntriesRespEvent

LEMMA CandidacyType ==
    ASSUME TypeOK, NEW i \in Server, Candidacy(i, term[i] + 1)
    PROVE  /\ role' \in [Server -> State]
           /\ term' \in [Server -> Nat]
           /\ votedFor' \in [Server -> Server \cup {NoServer}]
           /\ stateLog' \in [Server -> Seq(StateStore)]
           /\ votes' \in [Server -> [Server -> Vote]]
           /\ net' \subseteq Message
<1> DEFINE t == term[i] + 1
           a == [term |-> t, votedFor |-> NoServer]
           b == [term |-> t, votedFor |-> i]
<1>1. t \in Nat
  BY DEF TypeOK
<1>2. a \in StateStore /\ b \in StateStore
  BY <1>1 DEF StateStore
<1>3. stateLog[i] \o <<a, b>> \in Seq(StateStore)
  <2>1. <<a, b>> \in Seq(StateStore)
    BY <1>2
  <2> QED BY <2>1, ConcatProperties DEF TypeOK
<1>4. stateLog' \in [Server -> Seq(StateStore)]
  BY <1>3 DEF TypeOK, Candidacy
<1>5. net' \subseteq Message
  <2>1. LastTerm(log[i]) \in Nat /\ Len(log[i]) \in Nat
    BY LastTermType, LenProperties DEF TypeOK
  <2>2. {VoteReq(i, j, t) : j \in Server \ {i}} \in SUBSET Message
    BY <1>1, <2>1 DEF VoteReq, Message, VoteReqEvent
  <2> QED BY <2>2, TransmitType DEF Candidacy, TypeOK
<1>6. /\ role' \in [Server -> State]
      /\ term' \in [Server -> Nat]
      /\ votedFor' \in [Server -> Server \cup {NoServer}]
      /\ votes' \in [Server -> [Server -> Vote]]
  BY <1>1 DEF TypeOK, Candidacy, State, CANDIDATE, Vote
<1> QED BY <1>4, <1>5, <1>6

LEMMA TimeoutType ==
    ASSUME TypeOK, NEW i \in Server, FollowerTimeout(i) \/ CandidateTimeout(i)
    PROVE  TypeOK'
<1>1. /\ Candidacy(i, term[i] + 1)
      /\ UNCHANGED <<leaderId, nacked, logVars, commitVars, leaderVars, histVars>>
  BY DEF FollowerTimeout, CandidateTimeout
<1> QED
  BY <1>1, CandidacyType
  DEF TypeOK, logVars, commitVars, leaderVars, histVars

LEMMA VoteReqType ==
    ASSUME TypeOK, NEW m \in net, NEW i \in Server, i = m.to,
           FollowerVoteReq(i, m) \/ CandidateVoteReq(i, m)
    PROVE  TypeOK'
<1>1. /\ m \in VoteReqEvent
      /\ m.term \in Nat /\ m.from \in Server
  BY MessageKinds DEF TypeOK, FollowerVoteReq, CandidateVoteReq, VoteReqEvent
<1>2. \A t \in Nat, g \in BOOLEAN : VoteResp(i, m, t, g) \in Message
  BY <1>1 DEF VoteResp, Message, VoteRespEvent
<1>3. CASE FollowerVoteReq(i, m)
  <2>1. UNCHANGED <<role, leaderId, votes, nacked, logVars, commitVars,
                    leaderVars, histVars>>
    BY <1>3 DEF FollowerVoteReq
  <2>2. \E t \in Nat, g \in BOOLEAN : Reply(m, VoteResp(i, m, t, g))
    BY <1>1, <1>3
    DEF FollowerVoteReq, FollowerStaleVoteReq, FollowerGrantsVote,
        FollowerRejectsLog, FollowerAlreadyVoted, TypeOK
  <2>3. net' \subseteq Message
    BY <2>2, <1>2, TransmitType DEF Reply, TypeOK
  <2>4. \/ UNCHANGED stateVars
        \/ \E v \in Server \cup {NoServer} : StoreState(i, m.term, v)
    BY <1>1, <1>3
    DEF FollowerVoteReq, FollowerStaleVoteReq, FollowerGrantsVote,
        FollowerRejectsLog, FollowerAlreadyVoted, TypeOK
  <2>5. /\ term' \in [Server -> Nat]
        /\ votedFor' \in [Server -> Server \cup {NoServer}]
        /\ stateLog' \in [Server -> Seq(StateStore)]
    BY <2>4, <1>1, StoreStateType DEF TypeOK, stateVars
  <2> QED
    BY <2>1, <2>3, <2>5 DEF TypeOK, logVars, commitVars, leaderVars, histVars
<1>4. CASE CandidateVoteReq(i, m)
  <2>1. /\ UNCHANGED <<leaderId, votes, nacked, logVars, commitVars,
                       leaderVars, histVars>>
        /\ role' \in [Server -> State]
    BY <1>4 DEF CandidateVoteReq, TypeOK, State, FOLLOWER
  <2>2. \E t \in Nat, g \in BOOLEAN : Reply(m, VoteResp(i, m, t, g))
    BY <1>1, <1>4 DEF CandidateVoteReq, TypeOK
  <2>3. net' \subseteq Message
    BY <2>2, <1>2, TransmitType DEF Reply, TypeOK
  <2>4. UNCHANGED stateVars \/ StoreState(i, m.term, m.from)
    BY <1>4 DEF CandidateVoteReq
  <2>5. /\ term' \in [Server -> Nat]
        /\ votedFor' \in [Server -> Server \cup {NoServer}]
        /\ stateLog' \in [Server -> Seq(StateStore)]
    BY <2>4, <1>1, StoreStateType DEF TypeOK, stateVars
  <2> QED
    BY <2>1, <2>3, <2>5 DEF TypeOK, logVars, commitVars, leaderVars, histVars
<1> QED BY <1>3, <1>4

LEMMA ReplyType ==
    ASSUME net \subseteq Message, NEW m, NEW r \in Message, Reply(m, r)
    PROVE  net' \subseteq Message
BY TransmitType DEF Reply

LEMMA RespType ==
    ASSUME NEW m, m.from \in Server, NEW i \in Server, NEW t \in Nat,
           NEW g \in BOOLEAN, NEW n \in Nat
    PROVE  AppendResp(i, m, t, g, n) \in Message
BY DEF AppendResp, Message, AppendEntriesRespEvent

LEMMA FollowCommitType ==
    ASSUME NEW l \in Seq(LogEntry), NEW c \in Nat, NEW n \in Nat
    PROVE  /\ FollowCommit(l, c, n) \in Nat
           /\ FollowCommit(l, c, n) >= c
           /\ FollowCommit(l, c, n) > c => FollowCommit(l, c, n) <= Len(l)
<1>1. Len(l) \in Nat
  BY LenProperties
<1> QED BY <1>1 DEF FollowCommit, minimum

LEMMA CommitUpToType ==
    ASSUME TypeOK, NEW i \in Server, NEW n \in Nat, CommitUpTo(i, n),
           n >= commitIndex[i], n > commitIndex[i] => n <= Len(log[i])
    PROVE  /\ commitIndex' \in [Server -> Nat]
           /\ delivered' \in [Server -> Seq(Command)]
<1>1. /\ log[i] \in Seq(LogEntry) /\ commitIndex[i] \in Nat
      /\ delivered[i] \in Seq(Command)
  BY DEF TypeOK
<1>2. Commands(log[i], commitIndex[i], n) \in Seq(Command)
  BY <1>1, CommandsType
<1>3. delivered[i] \o Commands(log[i], commitIndex[i], n) \in Seq(Command)
  BY <1>1, <1>2, ConcatProperties
<1> QED BY <1>3 DEF TypeOK, CommitUpTo

LEMMA FollowLeaderType ==
    ASSUME TypeOK, NEW i \in Server, NEW m \in AppendEntriesReqEvent,
           FollowLeader(i, m)
    PROVE  /\ leaderId' \in [Server -> Server \cup {NoServer}]
           /\ term' \in [Server -> Nat]
           /\ votedFor' \in [Server -> Server \cup {NoServer}]
           /\ stateLog' \in [Server -> Seq(StateStore)]
<1>1. m.from \in Server /\ m.term \in Nat
  BY DEF AppendEntriesReqEvent
<1>2. leaderId' \in [Server -> Server \cup {NoServer}]
  BY <1>1 DEF TypeOK, FollowLeader
<1>3. UNCHANGED stateVars \/ StoreState(i, m.term, NoServer)
  BY DEF FollowLeader
<1> QED BY <1>1, <1>2, <1>3, StoreStateType DEF TypeOK, stateVars

\* The log a follower is left with when it appends the entries of m after
\* its first prevIndex + k entries.
LEMMA SplicedLog ==
    ASSUME NEW l \in Seq(LogEntry), NEW es \in Seq(LogEntry),
           NEW p \in Nat, NEW k \in 0..Len(es), p + k <= Len(l)
    PROVE  /\ SubSeq(es, k + 1, Len(es)) \in Seq(LogEntry)
           /\ Len(SubSeq(es, k + 1, Len(es))) = Len(es) - k
           /\ SubSeq(l, 1, p + k) \o SubSeq(es, k + 1, Len(es)) \in Seq(LogEntry)
           /\ Len(SubSeq(l, 1, p + k) \o SubSeq(es, k + 1, Len(es))) = p + Len(es)
<1>1. Len(es) \in Nat /\ Len(l) \in Nat /\ k \in Nat
  BY LenProperties
<1>2. \A h \in (k + 1)..Len(es) : es[h] \in LogEntry
  BY <1>1, ElementOfSeq
<1>3. /\ SubSeq(es, k + 1, Len(es)) \in Seq(LogEntry)
      /\ Len(SubSeq(es, k + 1, Len(es))) = Len(es) - k
  <2>1. k + 1 \in Int /\ Len(es) \in Int
    BY <1>1
  <2>2. /\ SubSeq(es, k + 1, Len(es)) \in Seq(LogEntry)
        /\ Len(SubSeq(es, k + 1, Len(es))) =
             IF k + 1 <= Len(es) THEN Len(es) - (k + 1) + 1 ELSE 0
    BY <1>2, <2>1, SubSeqProperties
  <2> QED BY <1>1, <2>2
<1>4. \A h \in 1..(p + k) : l[h] \in LogEntry
  BY <1>1, ElementOfSeq
<1>5. /\ SubSeq(l, 1, p + k) \in Seq(LogEntry)
      /\ Len(SubSeq(l, 1, p + k)) = p + k
  <2>1. p + k \in Int
    BY <1>1
  <2>2. /\ SubSeq(l, 1, p + k) \in Seq(LogEntry)
        /\ Len(SubSeq(l, 1, p + k)) = IF 1 <= p + k THEN p + k - 1 + 1 ELSE 0
    BY <1>4, <2>1, SubSeqProperties
  <2> QED BY <1>1, <2>2
<1> DEFINE a == SubSeq(l, 1, p + k)
           b == SubSeq(es, k + 1, Len(es))
<1>6. /\ a \o b \in Seq(LogEntry)
      /\ Len(a \o b) = Len(a) + Len(b)
  BY <1>3, <1>5, ConcatProperties
<1>7. Len(a) = p + k /\ Len(b) = Len(es) - k
  BY <1>3, <1>5
<1> HIDE DEF a, b
<1>8. Len(a) + Len(b) = p + Len(es)
  BY <1>1, <1>7
<1> QED BY <1>3, <1>6, <1>8 DEF a, b

LEMMA FollowerAppendReqType ==
    ASSUME TypeOK, NEW m \in net, NEW i \in Server, FollowerAppendReq(i, m)
    PROVE  TypeOK'
<1>1. /\ m \in AppendEntriesReqEvent
      /\ m.term \in Nat /\ m.from \in Server /\ m.commit \in Nat
      /\ m.prevIndex \in Nat /\ m.entries \in Seq(LogEntry)
  BY MessageKinds DEF TypeOK, FollowerAppendReq, AppendEntriesReqEvent
<1>2. /\ log[i] \in Seq(LogEntry) /\ Len(log[i]) \in Nat
      /\ commitIndex[i] \in Nat /\ term[i] \in Nat
      /\ diskLog[i] \in Seq(LogEntry) /\ delivered[i] \in Seq(Command)
  BY LenProperties DEF TypeOK
<1>3. UNCHANGED <<role, votes, nacked, leaderVars, histVars>>
  BY DEF FollowerAppendReq
<1> DEFINE c1 == FollowCommit(log[i], commitIndex[i], m.commit)
<1>4. c1 \in Nat /\ c1 >= commitIndex[i]
      /\ (c1 > commitIndex[i] => c1 <= Len(log[i]))
  BY <1>1, <1>2, FollowCommitType
<1>5. CASE FollowerStaleAppendReq(i, m)
  <2>1. net' \subseteq Message
    <3>1. AppendResp(i, m, term[i], FALSE, Len(log[i])) \in Message
      BY <1>1, <1>2, RespType
    <3> QED BY <1>5, <3>1, ReplyType DEF FollowerStaleAppendReq, TypeOK
  <2> QED
    BY <1>3, <1>5, <2>1
    DEF FollowerStaleAppendReq, TypeOK, stateVars, logVars, commitVars,
        leaderVars, histVars
<1>6. CASE FollowerHeartbeat(i, m) \/ FollowerRejectsEntries(i, m)
  <2>1. FollowLeader(i, m) /\ CommitUpTo(i, c1) /\ UNCHANGED logVars
    BY <1>6 DEF FollowerHeartbeat, FollowerRejectsEntries
  <2>2. \E g \in BOOLEAN : Reply(m, AppendResp(i, m, m.term, g, Len(log[i])))
    BY <1>6 DEF FollowerHeartbeat, FollowerRejectsEntries
  <2>3. net' \subseteq Message
    <3>1. \A g \in BOOLEAN : AppendResp(i, m, m.term, g, Len(log[i])) \in Message
      BY <1>1, <1>2, RespType
    <3> QED BY <2>2, <3>1, ReplyType DEF TypeOK
  <2>4. /\ commitIndex' \in [Server -> Nat]
        /\ delivered' \in [Server -> Seq(Command)]
    BY <1>4, <2>1, CommitUpToType
  <2> QED
    BY <1>1, <1>3, <2>1, <2>3, <2>4, FollowLeaderType
    DEF TypeOK, logVars, leaderVars, histVars
<1>7. CASE FollowerAppendsEntries(i, m)
  <2>1. /\ PrevMatches(log[i], m)
        /\ FollowLeader(i, m)
    BY <1>7 DEF FollowerAppendsEntries
  <2> DEFINE rest(k) == SubSeq(m.entries, k + 1, Len(m.entries))
             new(k)  == IF rest(k) = <<>> THEN log[i]
                        ELSE SubSeq(log[i], 1, m.prevIndex + k) \o rest(k)
             c2(k)   == FollowCommit(new(k), c1, m.commit)
  <2>2. PICK k \in 0..Len(m.entries) :
          /\ \A h \in 1..k : Present(log[i], m, h)
          /\ log' = [log EXCEPT ![i] = new(k)]
          /\ diskLog' = [diskLog EXCEPT ![i] = @ \o rest(k)]
          /\ commitIndex' = [commitIndex EXCEPT ![i] = c2(k)]
          /\ delivered' = [delivered EXCEPT ![i] =
                @ \o Commands(log[i], commitIndex[i], c1)
                  \o Commands(new(k), c1, c2(k))]
          /\ Reply(m, AppendResp(i, m, m.term, TRUE, Len(new(k))))
    BY <1>7 DEF FollowerAppendsEntries, LogStore
  <2>3. m.prevIndex + k <= Len(log[i])
    <3>1. CASE k = 0
      BY <1>1, <2>1, <3>1 DEF PrevMatches
    <3>2. CASE k # 0
      <4>1. k \in 1..k
        BY <3>2, <1>1, LenProperties
      <4> QED BY <2>2, <4>1 DEF Present
    <3> QED BY <3>1, <3>2
  <2>4. rest(k) \in Seq(LogEntry) /\ new(k) \in Seq(LogEntry)
    BY <1>1, <1>2, <2>3, SplicedLog
  <2> HIDE DEF rest, new
  <2>5. c2(k) \in Nat /\ c2(k) >= c1 /\ (c2(k) > c1 => c2(k) <= Len(new(k)))
    BY <1>1, <1>4, <2>4, FollowCommitType
  <2>6. /\ Commands(log[i], commitIndex[i], c1) \in Seq(Command)
        /\ Commands(new(k), c1, c2(k)) \in Seq(Command)
    <3> HIDE DEF c1, c2
    <3> QED BY <1>2, <1>4, <2>4, <2>5, CommandsType
  <2> HIDE DEF c1, c2
  <2>7. delivered[i] \o Commands(log[i], commitIndex[i], c1)
          \o Commands(new(k), c1, c2(k)) \in Seq(Command)
    BY <1>2, <2>6, ConcatProperties
  <2>8. diskLog[i] \o rest(k) \in Seq(LogEntry)
    BY <1>2, <2>4, ConcatProperties
  <2>9. net' \subseteq Message
    <3>1. Len(new(k)) \in Nat
      BY <2>4, LenProperties
    <3>2. AppendResp(i, m, m.term, TRUE, Len(new(k))) \in Message
      BY <1>1, <3>1, RespType
    <3> QED BY <2>2, <3>2, ReplyType DEF TypeOK
  <2>10. /\ log' \in [Server -> Seq(LogEntry)]
         /\ diskLog' \in [Server -> Seq(LogEntry)]
         /\ commitIndex' \in [Server -> Nat]
         /\ delivered' \in [Server -> Seq(Command)]
    BY <2>2, <2>4, <2>5, <2>7, <2>8 DEF TypeOK
  <2> QED
    BY <1>1, <1>3, <2>1, <2>9, <2>10, FollowLeaderType
    DEF TypeOK, leaderVars, histVars
<1> QED BY <1>5, <1>6, <1>7 DEF FollowerAppendReq

LEMMA DropLeaderLocalsType ==
    ASSUME TypeOK, NEW i \in Server, DropLeaderLocals(i)
    PROVE  /\ nextIndex' \in [Server -> [Server -> Nat \ {0}]]
           /\ matchIndex' \in [Server -> [Server -> Nat]]
BY DEF TypeOK, DropLeaderLocals, ForEach

LEMMA StepDownType ==
    ASSUME TypeOK, NEW i \in Server, StepDown(i)
    PROVE  /\ role' \in [Server -> State]
           /\ nacked' \subseteq Server \X Command
           /\ nextIndex' \in [Server -> [Server -> Nat \ {0}]]
           /\ matchIndex' \in [Server -> [Server -> Nat]]
<1>1. /\ nextIndex' \in [Server -> [Server -> Nat \ {0}]]
      /\ matchIndex' \in [Server -> [Server -> Nat]]
  BY DropLeaderLocalsType DEF StepDown
<1>2. role' \in [Server -> State]
  BY DEF TypeOK, StepDown, State, FOLLOWER
<1>3. \A k \in (commitIndex[i] + 1)..Len(log[i]) : log[i][k].cmd \in Command
  <2> TAKE k \in (commitIndex[i] + 1)..Len(log[i])
  <2>1. k \in 1..Len(log[i])
    BY LenProperties DEF TypeOK
  <2>2. log[i][k] \in LogEntry
    BY <2>1, ElementOfSeq DEF TypeOK
  <2> QED BY <2>2 DEF LogEntry
<1> QED BY <1>1, <1>2, <1>3 DEF TypeOK, StepDown

\* The messages that carry no reply: they are only consumed.
LEMMA ConsumeType ==
    ASSUME net \subseteq Message, NEW m, Consume(m)
    PROVE  net' \subseteq Message
BY TransmitType DEF Consume

LEMMA LateRespType ==
    ASSUME TypeOK, NEW m \in net, NEW i \in Server,
           FollowerResp(i, m) \/ CandidateAppendResp(i, m) \/ LeaderVoteResp(i, m)
    PROVE  TypeOK'
<1>1. m.term \in Nat
  BY MessageKinds DEF TypeOK
<1>2. net' \subseteq Message
  BY ConsumeType DEF FollowerResp, CandidateAppendResp, LeaderVoteResp, TypeOK
<1>3. UNCHANGED stateVars \/ StoreState(i, m.term, NoServer)
  BY DEF FollowerResp, CandidateAppendResp, LeaderVoteResp, stateVars
<1>4. /\ term' \in [Server -> Nat]
      /\ votedFor' \in [Server -> Server \cup {NoServer}]
      /\ stateLog' \in [Server -> Seq(StateStore)]
  BY <1>1, <1>3, StoreStateType DEF TypeOK, stateVars
<1>5. CASE FollowerResp(i, m) \/ CandidateAppendResp(i, m)
  BY <1>2, <1>4, <1>5
  DEF FollowerResp, CandidateAppendResp, TypeOK, State, FOLLOWER, logVars,
      commitVars, leaderVars, histVars
<1>6. CASE LeaderVoteResp(i, m)
  <2>1. /\ role' \in [Server -> State]
        /\ nacked' \subseteq Server \X Command
        /\ nextIndex' \in [Server -> [Server -> Nat \ {0}]]
        /\ matchIndex' \in [Server -> [Server -> Nat]]
    BY <1>6, StepDownType DEF LeaderVoteResp, TypeOK, leaderVars
  <2> QED
    BY <1>2, <1>4, <1>6, <2>1
    DEF LeaderVoteResp, TypeOK, logVars, commitVars, histVars
<1> QED BY <1>5, <1>6

LEMMA LeadershipType ==
    ASSUME TypeOK, NEW i \in Server, NEW m, Leadership(i, m)
    PROVE  /\ role' \in [Server -> State]
           /\ leaderId' \in [Server -> Server \cup {NoServer}]
           /\ votedFor' \in [Server -> Server \cup {NoServer}]
           /\ nextIndex' \in [Server -> [Server -> Nat \ {0}]]
           /\ matchIndex' \in [Server -> [Server -> Nat]]
           /\ elected' \subseteq Server \X Nat
           /\ net' \subseteq Message
<1>1. {Heartbeat(i, j) : j \in Server \ {i}} \in SUBSET Message
  <2>1. <<>> \in Seq(LogEntry)
    BY EmptySeq
  <2>2. \A j \in Server : Heartbeat(i, j) \in AppendEntriesReqEvent
    BY <2>1 DEF TypeOK, Heartbeat, AppendEntriesReqEvent
  <2> QED BY <2>2 DEF Message
<1>2. net' \subseteq Message
  BY <1>1, TransmitType DEF Leadership, TypeOK
<1>3. [j \in Server |-> Len(log[i]) + 1] \in [Server -> Nat \ {0}]
  <2>1. Len(log[i]) \in Nat
    BY LenProperties DEF TypeOK
  <2> QED BY <2>1
<1>4. /\ nextIndex' \in [Server -> [Server -> Nat \ {0}]]
      /\ matchIndex' \in [Server -> [Server -> Nat]]
  BY <1>3 DEF TypeOK, Leadership, ForEach
<1>5. elected' \subseteq Server \X Nat
  BY DEF TypeOK, Leadership
<1>6. /\ role' \in [Server -> State]
      /\ leaderId' \in [Server -> Server \cup {NoServer}]
      /\ votedFor' \in [Server -> Server \cup {NoServer}]
  BY DEF TypeOK, Leadership, State, LEADER
<1> QED BY <1>2, <1>4, <1>5, <1>6

LEMMA CandidateVoteRespType ==
    ASSUME TypeOK, NEW m \in net, NEW i \in Server, CandidateVoteResp(i, m)
    PROVE  TypeOK'
<1>1. m \in VoteRespEvent /\ m.term \in Nat
  BY MessageKinds DEF TypeOK, CandidateVoteResp
<1>2. UNCHANGED <<nacked, logVars, commitVars, submitted, powerOffs>>
  BY DEF CandidateVoteResp
<1>3. VotesWith(i, m) \in [Server -> Vote]
  BY <1>1 DEF VotesWith, VoteRespEvent, TypeOK, Vote
<1>4. [votes EXCEPT ![i] = VotesWith(i, m)] \in [Server -> [Server -> Vote]]
  BY <1>3 DEF TypeOK
<1>5. CASE CandidateOutdated(i, m)
  <2>1. net' \subseteq Message
    BY <1>5, ConsumeType DEF CandidateOutdated, TypeOK
  <2>2. StoreState(i, m.term, NoServer)
    BY <1>5 DEF CandidateOutdated
  <2> QED
    BY <1>1, <1>2, <1>5, <2>1, <2>2, StoreStateType
    DEF CandidateOutdated, TypeOK, State, FOLLOWER, logVars, commitVars,
        leaderVars
<1>6. CASE /\ votes' = [votes EXCEPT ![i] = VotesWith(i, m)]
           /\ CandidateWins(i, m)
  BY <1>2, <1>4, <1>6, LeadershipType
  DEF CandidateWins, TypeOK, logVars, commitVars
<1>7. CASE /\ votes' = [votes EXCEPT ![i] = VotesWith(i, m)]
           /\ CandidateLoses(i, m) \/ CandidateKeepsWaiting(i, m)
  <2>1. net' \subseteq Message
    BY <1>7, ConsumeType DEF CandidateLoses, CandidateKeepsWaiting, TypeOK
  <2> QED
    BY <1>2, <1>4, <1>7, <2>1
    DEF CandidateLoses, CandidateKeepsWaiting, TypeOK, State, FOLLOWER,
        logVars, commitVars, leaderVars, stateVars
<1> QED BY <1>5, <1>6, <1>7 DEF CandidateVoteResp

LEMMA CandidateAppendReqType ==
    ASSUME TypeOK, NEW m \in net, NEW i \in Server, CandidateAppendReq(i, m)
    PROVE  TypeOK'
<1>1. /\ m \in AppendEntriesReqEvent
      /\ m.term \in Nat /\ m.from \in Server
  BY MessageKinds DEF TypeOK, CandidateAppendReq, AppendEntriesReqEvent
<1>2. /\ AppendResp(i, m, m.term, TRUE, Len(log[i])) \in Message
      /\ AppendResp(i, m, term[i], FALSE, Len(log[i])) \in Message
  <2>1. Len(log[i]) \in Nat /\ term[i] \in Nat
    BY LenProperties DEF TypeOK
  <2> QED BY <1>1, <2>1, RespType
<1>3. net' \subseteq Message
  BY <1>2, TransmitType DEF CandidateAppendReq, Reply, TypeOK
<1>4. UNCHANGED stateVars \/ StoreState(i, m.term, NoServer)
  BY DEF CandidateAppendReq
<1>5. /\ term' \in [Server -> Nat]
      /\ votedFor' \in [Server -> Server \cup {NoServer}]
      /\ stateLog' \in [Server -> Seq(StateStore)]
  BY <1>1, <1>4, StoreStateType DEF TypeOK, stateVars
<1> QED
  BY <1>1, <1>3, <1>5
  DEF CandidateAppendReq, TypeOK, State, FOLLOWER, logVars, commitVars,
      leaderVars, histVars

LEMMA ReplicationType ==
    ASSUME TypeOK, NEW i \in Server, NEW j \in Server
    PROVE  Replication(i, j) \in Message
<1>1. /\ log[i] \in Seq(LogEntry) /\ Len(log[i]) \in Nat
      /\ term[i] \in Nat /\ commitIndex[i] \in Nat
      /\ nextIndex[i][j] \in Nat \ {0}
  BY LenProperties DEF TypeOK
<1> DEFINE prev == nextIndex[i][j] - 1
           es   == SubSeq(log[i], nextIndex[i][j], Len(log[i]))
           pt   == IF prev > 0 THEN log[i][prev].term ELSE 0
<1>2. Heartbeat(i, j) \in AppendEntriesReqEvent
  <2>1. <<>> \in Seq(LogEntry)
    BY EmptySeq
  <2> QED BY <1>1, <2>1 DEF Heartbeat, AppendEntriesReqEvent
<1>3. CASE nextIndex[i][j] <= Len(log[i])
  <2>1. prev \in Nat
    BY <1>1
  <2>2. pt \in Nat
    <3>1. CASE prev > 0
      <4>1. prev \in 1..Len(log[i])
        BY <1>1, <1>3, <3>1
      <4>2. log[i][prev] \in LogEntry
        BY <1>1, <4>1, ElementOfSeq
      <4> QED BY <3>1, <4>2 DEF LogEntry
    <3>2. CASE ~(prev > 0)
      BY <3>2
    <3> QED BY <3>1, <3>2
  <2>3. es \in Seq(LogEntry)
    <3>1. \A k \in nextIndex[i][j]..Len(log[i]) : log[i][k] \in LogEntry
      BY <1>1, ElementOfSeq
    <3>2. nextIndex[i][j] \in Int /\ Len(log[i]) \in Int
      BY <1>1
    <3> QED BY <3>1, <3>2, SubSeqProperties
  <2>4. Replication(i, j) = [Heartbeat(i, j) EXCEPT !.prevIndex = prev,
                               !.prevTerm = pt, !.entries = es]
    BY <1>3 DEF Replication
  <2> HIDE DEF prev, pt, es
  <2>5. Replication(i, j) \in AppendEntriesReqEvent
    BY <1>2, <2>1, <2>2, <2>3, <2>4 DEF AppendEntriesReqEvent
  <2> QED BY <2>5 DEF Message
<1>4. CASE ~(nextIndex[i][j] <= Len(log[i]))
  BY <1>2, <1>4 DEF Replication, Message
<1> QED BY <1>3, <1>4

LEMMA LeaderTimeoutType ==
    ASSUME TypeOK, NEW i \in Server, LeaderTimeout(i)
    PROVE  TypeOK'
<1>1. {Replication(i, j) : j \in Server \ {i}} \in SUBSET Message
  BY ReplicationType
<1>2. net' \subseteq Message
  BY <1>1, TransmitType DEF LeaderTimeout, TypeOK
<1>3. nextIndex' \in [Server -> [Server -> Nat \ {0}]]
  <2>1. Len(log[i]) + 1 \in Nat \ {0}
    BY LenProperties DEF TypeOK
  <2> QED BY <2>1 DEF LeaderTimeout, TypeOK
<1> QED
  BY <1>2, <1>3
  DEF LeaderTimeout, TypeOK, stateVars, logVars, commitVars, histVars

LEMMA LeaderVoteReqType ==
    ASSUME TypeOK, NEW m \in net, NEW i \in Server, LeaderVoteReq(i, m)
    PROVE  TypeOK'
<1>1. /\ m \in VoteReqEvent
      /\ m.term \in Nat /\ m.from \in Server
  BY MessageKinds DEF TypeOK, LeaderVoteReq, VoteReqEvent
<1>2. \A t \in Nat, g \in BOOLEAN, id \in Server \cup {NoServer} :
        VoteResp(id, m, t, g) \in Message
  BY <1>1 DEF VoteResp, Message, VoteRespEvent
<1>3. \E t \in Nat, g \in BOOLEAN, id \in Server \cup {NoServer} :
        Reply(m, VoteResp(id, m, t, g))
  BY <1>1 DEF LeaderVoteReq, TypeOK, MoreComplete
<1>4. net' \subseteq Message
  BY <1>2, <1>3, ReplyType DEF TypeOK
<1>5. \/ UNCHANGED stateVars
      \/ \E v \in Server \cup {NoServer} : StoreState(i, m.term, v)
  BY <1>1 DEF LeaderVoteReq
<1>6. /\ term' \in [Server -> Nat]
      /\ votedFor' \in [Server -> Server \cup {NoServer}]
      /\ stateLog' \in [Server -> Seq(StateStore)]
  BY <1>1, <1>5, StoreStateType DEF TypeOK, stateVars
<1>7. UNCHANGED <<role, nacked, leaderVars>> \/ StepDown(i)
  BY DEF LeaderVoteReq
<1>8. /\ role' \in [Server -> State]
      /\ nacked' \subseteq Server \X Command
      /\ nextIndex' \in [Server -> [Server -> Nat \ {0}]]
      /\ matchIndex' \in [Server -> [Server -> Nat]]
  BY <1>7, StepDownType DEF TypeOK, leaderVars
<1> QED
  BY <1>4, <1>6, <1>8 DEF LeaderVoteReq, TypeOK, logVars, commitVars, histVars

LEMMA LeaderAppendReqType ==
    ASSUME TypeOK, NEW m \in net, NEW i \in Server, LeaderAppendReq(i, m)
    PROVE  TypeOK'
<1>1. /\ m \in AppendEntriesReqEvent
      /\ m.term \in Nat /\ m.from \in Server
  BY MessageKinds DEF TypeOK, LeaderAppendReq, AppendEntriesReqEvent
<1>2. /\ AppendResp(i, m, m.term, FALSE, Len(log[i])) \in Message
      /\ AppendResp(i, m, term[i], FALSE, Len(log[i])) \in Message
  <2>1. Len(log[i]) \in Nat /\ term[i] \in Nat
    BY LenProperties DEF TypeOK
  <2> QED BY <1>1, <2>1, RespType
<1>3. net' \subseteq Message
  BY <1>2, ReplyType DEF LeaderAppendReq, TypeOK
<1>4. UNCHANGED stateVars \/ StoreState(i, m.term, NoServer)
  BY DEF LeaderAppendReq
<1>5. /\ term' \in [Server -> Nat]
      /\ votedFor' \in [Server -> Server \cup {NoServer}]
      /\ stateLog' \in [Server -> Seq(StateStore)]
  BY <1>1, <1>4, StoreStateType DEF TypeOK, stateVars
<1>6. UNCHANGED <<role, nacked, leaderVars>> \/ StepDown(i)
  BY DEF LeaderAppendReq
<1>7. /\ role' \in [Server -> State]
      /\ nacked' \subseteq Server \X Command
      /\ nextIndex' \in [Server -> [Server -> Nat \ {0}]]
      /\ matchIndex' \in [Server -> [Server -> Nat]]
  BY <1>6, StepDownType DEF TypeOK, leaderVars
<1> QED
  BY <1>1, <1>3, <1>5, <1>7
  DEF LeaderAppendReq, TypeOK, logVars, commitVars, histVars

LEMMA NextIndexUpdateType ==
    ASSUME TypeOK, NEW i \in Server, NEW j \in Server, NEW n \in Nat \ {0}
    PROVE  [nextIndex EXCEPT ![i][j] = n] \in [Server -> [Server -> Nat \ {0}]]
BY DEF TypeOK

LEMMA LeaderAppendRespType ==
    ASSUME TypeOK, NEW m \in net, NEW i \in Server, LeaderAppendResp(i, m)
    PROVE  TypeOK'
<1>1. /\ m \in AppendEntriesRespEvent
      /\ m.term \in Nat /\ m.from \in Server /\ m.index \in Nat
  BY MessageKinds DEF TypeOK, LeaderAppendResp, AppendEntriesRespEvent
<1>2. net' \subseteq Message
  BY ConsumeType DEF LeaderAppendResp, TypeOK
<1>5. nextIndex[i][m.from] \in Nat \ {0}
  <2>1. nextIndex[i] \in [Server -> Nat \ {0}]
    BY DEF TypeOK
  <2> QED BY <1>1, <2>1
<1>3. CASE LeaderFailedResp(i, m)
  <2>1. UNCHANGED stateVars \/ StoreState(i, m.term, NoServer)
    BY <1>3 DEF LeaderFailedResp
  <2>2. /\ term' \in [Server -> Nat]
        /\ votedFor' \in [Server -> Server \cup {NoServer}]
        /\ stateLog' \in [Server -> Seq(StateStore)]
    BY <1>1, <2>1, StoreStateType DEF TypeOK, stateVars
  <2>3. /\ role' \in [Server -> State]
        /\ nacked' \subseteq Server \X Command
        /\ nextIndex' \in [Server -> [Server -> Nat \ {0}]]
        /\ matchIndex' \in [Server -> [Server -> Nat]]
    <3>1. CASE StepDown(i)
      BY <3>1, StepDownType
    <3>2. CASE /\ nextIndex' = [nextIndex EXCEPT ![i][m.from] =
                                  IF @ > 1 THEN @ - 1 ELSE 1]
               /\ UNCHANGED <<role, leaderId, nacked, matchIndex, stateVars>>
      <4> DEFINE n == IF nextIndex[i][m.from] > 1
                      THEN nextIndex[i][m.from] - 1 ELSE 1
      <4>1. n \in Nat \ {0}
        BY <1>5
      <4>2. nextIndex' = [nextIndex EXCEPT ![i][m.from] = n]
        BY <3>2
      <4>3. nextIndex' \in [Server -> [Server -> Nat \ {0}]]
        <5> HIDE DEF n
        <5> QED BY <1>1, <4>1, <4>2, NextIndexUpdateType
      <4> QED BY <3>2, <4>3 DEF TypeOK
    <3> QED BY <1>3, <3>1, <3>2 DEF LeaderFailedResp
  <2>4. leaderId' \in [Server -> Server \cup {NoServer}]
    BY <1>1, <1>3 DEF LeaderFailedResp, TypeOK
  <2> QED
    BY <1>2, <1>3, <2>2, <2>3, <2>4
    DEF LeaderFailedResp, LeaderAppendResp, TypeOK, logVars, commitVars, histVars
<1>4. CASE LeaderSuccessResp(i, m)
  <2>1. nextIndex' \in [Server -> [Server -> Nat \ {0}]]
    <3> DEFINE n == NextAfterSuccess(nextIndex[i][m.from], m)
    <3>1. n \in Nat \ {0}
      BY <1>1, <1>5 DEF NextAfterSuccess
    <3>2. nextIndex' = [nextIndex EXCEPT ![i][m.from] = n]
      BY <1>4 DEF LeaderSuccessResp
    <3> HIDE DEF n
    <3> QED BY <1>1, <3>1, <3>2, NextIndexUpdateType
  <2>2. /\ matchIndex' \in [Server -> [Server -> Nat]]
        /\ commitIndex' \in [Server -> Nat]
        /\ delivered' \in [Server -> Seq(Command)]
    <3>1. CASE m.index = 0
      BY <1>4, <3>1 DEF LeaderSuccessResp, TypeOK, commitVars
    <3>2. CASE m.index # 0
      <4> DEFINE match == [matchIndex[i] EXCEPT ![m.from] = m.index]
      <4>1. match \in [Server -> Nat]
        BY <1>1 DEF TypeOK
      <4>2. PICK n \in Committable(i, match) :
              /\ matchIndex' = [matchIndex EXCEPT ![i] = match]
              /\ \A k \in Committable(i, match) : k <= n
              /\ CommitUpTo(i, n)
        BY <1>4, <3>2 DEF LeaderSuccessResp
      <4>3. n = commitIndex[i] \/ n \in 1..Len(log[i])
        BY <4>2 DEF Committable
      <4>4. commitIndex[i] \in Committable(i, match)
        BY DEF Committable
      <4>5. n >= commitIndex[i]
        BY <4>2, <4>4, <4>3, LenProperties DEF TypeOK
      <4>6. n \in Nat /\ (n > commitIndex[i] => n <= Len(log[i]))
        BY <4>3, LenProperties DEF TypeOK
      <4>7. /\ commitIndex' \in [Server -> Nat]
            /\ delivered' \in [Server -> Seq(Command)]
        BY <4>2, <4>5, <4>6, CommitUpToType
      <4> QED BY <4>1, <4>2, <4>7 DEF TypeOK
    <3> QED BY <3>1, <3>2
  <2> QED
    BY <1>2, <1>4, <2>1, <2>2
    DEF LeaderSuccessResp, LeaderAppendResp, TypeOK, stateVars, logVars, histVars
<1> QED BY <1>3, <1>4 DEF LeaderAppendResp

LEMMA LeaderAppendEventType ==
    ASSUME TypeOK, NEW i \in Server, NEW c \in Command, LeaderAppendEvent(i, c)
    PROVE  TypeOK'
<1> DEFINE entry == [term |-> term[i], cmd |-> c]
<1>1. entry \in LogEntry
  BY DEF LogEntry, TypeOK
<1>2. /\ Append(log[i], entry) \in Seq(LogEntry)
      /\ diskLog[i] \o <<entry>> \in Seq(LogEntry)
  <2>1. <<entry>> \in Seq(LogEntry)
    BY <1>1
  <2> QED BY <1>1, <2>1, AppendProperties, ConcatProperties DEF TypeOK
<1> QED
  BY <1>2
  DEF LeaderAppendEvent, LogStore, TypeOK, stateVars, commitVars, leaderVars

LEMMA ShutdownType ==
    ASSUME TypeOK, NEW i \in Server, Shutdown(i)
    PROVE  TypeOK'
<1>1. /\ nextIndex' \in [Server -> [Server -> Nat \ {0}]]
      /\ matchIndex' \in [Server -> [Server -> Nat]]
  BY DropLeaderLocalsType DEF Shutdown
<1>2. role' \in [Server -> State] /\ powerOffs' \in Nat
  BY DEF Shutdown, TypeOK, State, POWEROFF
<1> QED
  BY <1>1, <1>2 DEF Shutdown, TypeOK, stateVars, logVars, commitVars

LEMMA NewType ==
    ASSUME TypeOK, NEW i \in Server, New(i)
    PROVE  TypeOK'
<1>1. StoredState(i) \in StateStore
  <2>1. CASE stateLog[i] = <<>>
    BY <2>1 DEF StoredState, StateStore
  <2>2. CASE stateLog[i] # <<>>
    <3>1. Len(diskLog[i]) + 1 \in 1..Len(stateLog[i])
      BY <2>2, LenProperties DEF New, Restartable, TypeOK
    <3> QED BY <2>2, <3>1, ElementOfSeq DEF StoredState, TypeOK
  <2> QED BY <2>1, <2>2
<1>2. /\ StoredState(i).term \in Nat
      /\ StoredState(i).votedFor \in Server \cup {NoServer}
  BY <1>1 DEF StateStore
<1>3. <<>> \in Seq(Command)
  BY EmptySeq
<1> QED
  BY <1>2, <1>3
  DEF New, ForEach, TypeOK, State, FOLLOWER, Vote, leaderVars, histVars

LEMMA InitType == Init => TypeOK
<1>1. /\ <<>> \in Seq(LogEntry) /\ <<>> \in Seq(StateStore)
      /\ <<>> \in Seq(Command)
  BY EmptySeq
<1> QED BY <1>1 DEF Init, ForEach, TypeOK, State, FOLLOWER, Vote

LEMMA HandleType ==
    ASSUME TypeOK, NEW m \in net, Handle(m.to, m)
    PROVE  TypeOK'
<1>1. m.to \in Server
  BY MessageKinds DEF TypeOK
<1> QED
  BY <1>1, VoteReqType, FollowerAppendReqType, LateRespType,
     CandidateVoteRespType, CandidateAppendReqType, LeaderVoteReqType,
     LeaderAppendReqType, LeaderAppendRespType
  DEF Handle

LEMMA NextType == TypeOK /\ [Next]_vars => TypeOK'
<1> SUFFICES ASSUME TypeOK, [Next]_vars PROVE TypeOK'
  OBVIOUS
<1>1. CASE \E m \in net : Handle(m.to, m)
  BY <1>1, HandleType
<1>2. ASSUME NEW i \in Server, FollowerTimeout(i) \/ CandidateTimeout(i)
      PROVE  TypeOK'
  BY <1>2, TimeoutType
<1>3. ASSUME NEW i \in Server, LeaderTimeout(i) PROVE TypeOK'
  BY <1>3, LeaderTimeoutType
<1>4. ASSUME NEW i \in Server, NEW c \in Command, LeaderAppendEvent(i, c)
      PROVE  TypeOK'
  BY <1>4, LeaderAppendEventType
<1>5. ASSUME NEW i \in Server, Shutdown(i) PROVE TypeOK'
  BY <1>5, ShutdownType
<1>6. ASSUME NEW i \in Server, New(i) PROVE TypeOK'
  BY <1>6, NewType
<1>7. CASE UNCHANGED vars
  BY <1>7
  DEF vars, TypeOK, stateVars, logVars, commitVars, leaderVars, histVars
<1> QED BY <1>1, <1>2, <1>3, <1>4, <1>5, <1>6, <1>7 DEF Next

\* A larger set of nodes is still a majority.
LEMMA MajorityMonotonic ==
    ASSUME NEW S, NEW T \in SUBSET Server, S \subseteq T, IsMajority(S)
    PROVE  IsMajority(T)
<1>1. IsFiniteSet(T) /\ IsFiniteSet(Server)
  BY ServerAssumption, FS_Subset
<1>2. IsFiniteSet(S) /\ Cardinality(S) <= Cardinality(T)
  BY <1>1, FS_Subset
<1>3. Cardinality(S) \in Nat /\ Cardinality(T) \in Nat /\ Cardinality(Server) \in Nat
  BY <1>1, <1>2, FS_CardinalityType
<1> QED BY <1>2, <1>3 DEF IsMajority

\* In every reachable state every variable of every node, of the network and
\* of the disks has the type its Go field or channel has, for any cluster.
THEOREM TypeCorrect == Spec => []TypeOK
BY InitType, NextType, PTL DEF Spec

=============================================================================

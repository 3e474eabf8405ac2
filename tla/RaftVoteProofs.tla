--------------------------- MODULE RaftVoteProofs ---------------------------
(***************************************************************************)
(* Votes of Raft for every cluster: a granted vote is on the voter's disk  *)
(* before the candidate hears of it, and whoever wins an election holds    *)
(* votes on the disks of a majority.                                       *)
(***************************************************************************)
EXTENDS RaftTypeProofs

\* Node j has stored that it votes for v in term t.
Record(j, t, v) ==
    \E k \in 1..Len(stateLog[j]) : stateLog[j][k] = [term |-> t, votedFor |-> v]

\* The voter has stored the vote, and the candidate its candidacy.
GrantBacked(m) ==
    m.type = "VoteResp" /\ m.granted =>
        /\ m.from \in Server
        /\ Record(m.from, m.term, m.to)
        /\ Record(m.to, m.term, m.to)

RequestBacked(m) == m.type = "VoteReq" => Record(m.from, m.term, m.from)

\* Node j has stored a vote for a candidacy that i has stored.
Supports(j, i) == \E t \in Nat : Record(j, t, i) /\ Record(i, t, i)

\* The inductive invariant: messages, vote arrays and won elections all rest
\* on records of a vote and of the candidacy it is for.
VoteInv ==
    /\ \A m \in net : GrantBacked(m) /\ RequestBacked(m)
    /\ \A i, j \in Server : votes[i][j] = "yes" => Supports(j, i)
    /\ \A e \in elected : IsMajority({j \in Server : Supports(j, e[1])})

-----------------------------------------------------------------------------
(* Records stay: the state log is only appended to.                        *)

RecordsKept ==
    \A j \in Server : \A k \in 1..Len(stateLog[j]) :
        k \in 1..Len(stateLog'[j]) /\ stateLog'[j][k] = stateLog[j][k]

LEMMA RecordStays ==
    ASSUME RecordsKept, NEW j \in Server, NEW t, NEW v, Record(j, t, v)
    PROVE  Record(j, t, v)'
BY DEF RecordsKept, Record

LEMMA SupportStays ==
    ASSUME RecordsKept, NEW j \in Server, NEW i \in Server, Supports(j, i)
    PROVE  Supports(j, i)'
<1>1. PICK t \in Nat : Record(j, t, i) /\ Record(i, t, i)
  BY DEF Supports
<1>2. Record(j, t, i)' /\ Record(i, t, i)'
  BY <1>1, RecordStays
<1> QED BY <1>2 DEF Supports

\* Appending one or more records to the state log of i.
LEMMA AppendedRecords ==
    ASSUME TypeOK, NEW i \in Server, NEW rs \in Seq(StateStore),
           stateLog' = [stateLog EXCEPT ![i] = @ \o rs]
    PROVE  /\ RecordsKept
           /\ \A r \in 1..Len(rs) : \E k \in 1..Len(stateLog'[i]) :
                 stateLog'[i][k] = rs[r]
<1>1. stateLog[i] \in Seq(StateStore) /\ Len(stateLog[i]) \in Nat /\ Len(rs) \in Nat
  BY LenProperties DEF TypeOK
<1>2. /\ Len(stateLog[i] \o rs) = Len(stateLog[i]) + Len(rs)
      /\ \A k \in 1..Len(stateLog[i]) + Len(rs) : (stateLog[i] \o rs)[k] =
            IF k <= Len(stateLog[i]) THEN stateLog[i][k]
            ELSE rs[k - Len(stateLog[i])]
  BY <1>1, ConcatProperties
<1>3. /\ stateLog'[i] = stateLog[i] \o rs
      /\ \A j \in Server : j # i => stateLog'[j] = stateLog[j]
  BY DEF TypeOK
<1>4. RecordsKept
  <2> SUFFICES ASSUME NEW j \in Server, NEW k \in 1..Len(stateLog[j])
               PROVE  /\ k \in 1..Len(stateLog'[j])
                      /\ stateLog'[j][k] = stateLog[j][k]
    BY DEF RecordsKept
  <2>1. CASE j # i
    BY <1>3, <2>1
  <2>2. CASE j = i
    <3>1. k \in 1..(Len(stateLog[i]) + Len(rs)) /\ k <= Len(stateLog[i])
      BY <1>1, <2>2
    <3> QED BY <1>2, <1>3, <2>2, <3>1
  <2> QED BY <2>1, <2>2
<1>5. ASSUME NEW r \in 1..Len(rs)
      PROVE  \E k \in 1..Len(stateLog'[i]) : stateLog'[i][k] = rs[r]
  <2> DEFINE k == Len(stateLog[i]) + r
  <2>1. /\ k \in 1..(Len(stateLog[i]) + Len(rs))
        /\ ~(k <= Len(stateLog[i]))
        /\ k - Len(stateLog[i]) = r
    BY <1>1
  <2> HIDE DEF k
  <2>2. (stateLog[i] \o rs)[k] = rs[r]
    BY <1>2, <2>1
  <2> QED BY <1>2, <1>3, <2>1, <2>2
<1> QED BY <1>4, <1>5

LEMMA StoreStateRecord ==
    ASSUME TypeOK, NEW i \in Server, NEW t \in Nat,
           NEW v \in Server \cup {NoServer}, StoreState(i, t, v)
    PROVE  RecordsKept /\ Record(i, t, v)'
<1> DEFINE r == [term |-> t, votedFor |-> v]
           rs == <<r>>
<1>1. rs \in Seq(StateStore) /\ Len(rs) = 1 /\ rs[1] = r
  BY DEF StateStore
<1>2. stateLog' = [stateLog EXCEPT ![i] = @ \o rs]
  <2>1. r \in StateStore /\ stateLog[i] \in Seq(StateStore)
    BY DEF StateStore, TypeOK
  <2>2. Append(stateLog[i], r) = stateLog[i] \o rs
    BY <2>1, AppendIsConcat
  <2> QED BY <2>2 DEF StoreState
<1> HIDE DEF rs
<1>3. /\ RecordsKept
      /\ \A h \in 1..Len(rs) : \E k \in 1..Len(stateLog'[i]) :
            stateLog'[i][k] = rs[h]
  BY <1>1, <1>2, AppendedRecords
<1>4. \E k \in 1..Len(stateLog'[i]) : stateLog'[i][k] = r
  <2>1. 1 \in 1..Len(rs)
    BY <1>1
  <2> QED BY <1>1, <1>3, <2>1
<1> QED BY <1>3, <1>4 DEF Record

LEMMA CandidacyRecord ==
    ASSUME TypeOK, NEW i \in Server, NEW t \in Nat, Candidacy(i, t)
    PROVE  RecordsKept /\ Record(i, t, i)'
<1> DEFINE a == [term |-> t, votedFor |-> NoServer]
           b == [term |-> t, votedFor |-> i]
           rs == <<a, b>>
<1>1. rs \in Seq(StateStore) /\ Len(rs) = 2 /\ rs[2] = b
  BY DEF StateStore
<1>2. stateLog' = [stateLog EXCEPT ![i] = @ \o rs]
  BY DEF Candidacy
<1> HIDE DEF rs
<1>3. /\ RecordsKept
      /\ \A h \in 1..Len(rs) : \E k \in 1..Len(stateLog'[i]) :
            stateLog'[i][k] = rs[h]
  BY <1>1, <1>2, AppendedRecords
<1>4. \E k \in 1..Len(stateLog'[i]) : stateLog'[i][k] = b
  <2>1. 2 \in 1..Len(rs)
    BY <1>1
  <2> QED BY <1>1, <1>3, <2>1
<1> QED BY <1>3, <1>4 DEF Record

LEMMA SameRecords ==
    ASSUME UNCHANGED stateLog PROVE RecordsKept
BY DEF RecordsKept

-----------------------------------------------------------------------------
(* The steps.                                                              *)

\* What a step must do to keep the invariant.
LEMMA VoteStep ==
    ASSUME TypeOK, VoteInv, RecordsKept,
           \A m \in net' : m \in net \/ (GrantBacked(m)' /\ RequestBacked(m)'),
           \A i, j \in Server : votes'[i][j] = "yes" =>
              votes[i][j] = "yes" \/ Supports(j, i)',
           \A e \in elected' : e \in elected \/
              (e[1] \in Server /\ IsMajority({j \in Server : Supports(j, e[1])}))
    PROVE  VoteInv'
<1>1. \A m \in net' : GrantBacked(m)' /\ RequestBacked(m)'
  <2> SUFFICES ASSUME NEW m \in net', m \in net
               PROVE  GrantBacked(m)' /\ RequestBacked(m)'
    OBVIOUS
  <2>1. GrantBacked(m) /\ RequestBacked(m) /\ m \in Message
    BY DEF VoteInv, TypeOK
  <2>2. m.to \in Server
    BY <2>1, MessageKinds
  <2>3. GrantBacked(m)'
    BY <2>1, <2>2, RecordStays DEF GrantBacked
  <2>4. m.type = "VoteReq" => m.from \in Server
    BY <2>1, MessageKinds DEF VoteReqEvent
  <2>5. RequestBacked(m)'
    BY <2>1, <2>4, RecordStays DEF RequestBacked
  <2> QED BY <2>3, <2>5
<1>2. \A i, j \in Server : votes'[i][j] = "yes" => Supports(j, i)'
  BY SupportStays DEF VoteInv
<1>3. \A e \in elected' : IsMajority({j \in Server : Supports(j, e[1])'})
  <2> TAKE e \in elected'
  <2> DEFINE S == {j \in Server : Supports(j, e[1])}
             T == {j \in Server : Supports(j, e[1])'}
  <2>1. IsMajority(S) /\ e[1] \in Server
    BY DEF VoteInv, TypeOK
  <2>2. S \subseteq T
    BY <2>1, SupportStays
  <2> HIDE DEF S
  <2> QED BY <2>1, <2>2, MajorityMonotonic
<1>4. (\A e \in elected : IsMajority({j \in Server : Supports(j, e[1])}))'
  BY <1>3 DEF IsMajority
<1> QED BY <1>1, <1>2, <1>4 DEF VoteInv

\* A message that no vote rests on.
Silent(m) == m.type # "VoteReq" /\ (m.type = "VoteResp" => ~m.granted)

\* A step that stores at most one record and sends nothing about votes.
LEMMA SilentStep ==
    ASSUME TypeOK, VoteInv, NEW i \in Server, NEW t \in Nat,
           NEW v \in Server \cup {NoServer},
           StoreState(i, t, v) \/ UNCHANGED stateLog,
           \A m \in net' : m \in net \/ Silent(m),
           UNCHANGED <<votes, elected>>
    PROVE  VoteInv'
<1>1. RecordsKept
  BY StoreStateRecord, SameRecords
<1>2. \A m \in net' : m \in net \/ (GrantBacked(m)' /\ RequestBacked(m)')
  BY DEF Silent, GrantBacked, RequestBacked
<1> QED BY <1>1, <1>2, VoteStep

LEMMA CandidacyVotes ==
    ASSUME TypeOK, VoteInv, NEW i \in Server, NEW t \in Nat,
           Candidacy(i, t), UNCHANGED elected
    PROVE  VoteInv'
<1>1. RecordsKept /\ Record(i, t, i)'
  BY CandidacyRecord
<1>2. \A m \in net' : m \in net \/ (GrantBacked(m)' /\ RequestBacked(m)')
  <2>1. \A m \in net' :
           m \in net \/ \E j \in Server : m = VoteReq(i, j, t)
    BY DEF Candidacy, Transmit
  <2> SUFFICES ASSUME NEW m \in net', NEW j \in Server, m = VoteReq(i, j, t)
               PROVE  GrantBacked(m)' /\ RequestBacked(m)'
    BY <2>1
  <2>2. m.type = "VoteReq" /\ m.from = i /\ m.term = t
    BY DEF VoteReq
  <2> QED BY <1>1, <2>2 DEF GrantBacked, RequestBacked
<1>3. \A j, h \in Server : votes'[j][h] = "yes" =>
         votes[j][h] = "yes" \/ Supports(h, j)'
  <2>1. Supports(i, i)'
    BY <1>1 DEF Supports
  <2>2. \A j, h \in Server : votes'[j][h] = "yes" =>
           votes[j][h] = "yes" \/ (j = i /\ h = i)
    BY DEF Candidacy, TypeOK
  <2> QED BY <2>1, <2>2
<1> QED BY <1>1, <1>2, <1>3, VoteStep

LEMMA TimeoutVotes ==
    ASSUME TypeOK, VoteInv, NEW i \in Server,
           FollowerTimeout(i) \/ CandidateTimeout(i)
    PROVE  VoteInv'
<1>1. Candidacy(i, term[i] + 1) /\ UNCHANGED elected /\ term[i] + 1 \in Nat
  BY DEF FollowerTimeout, CandidateTimeout, histVars, TypeOK
<1> QED BY <1>1, CandidacyVotes

LEMMA GrantVotes ==
    ASSUME TypeOK, VoteInv, NEW m \in net, m.type = "VoteReq",
           NEW i \in Server, StoreState(i, m.term, m.from),
           Reply(m, VoteResp(i, m, m.term, TRUE)),
           UNCHANGED <<votes, elected>>
    PROVE  VoteInv'
<1>1. m.term \in Nat /\ m.from \in Server
  BY MessageKinds DEF TypeOK, VoteReqEvent
<1>2. RecordsKept /\ Record(i, m.term, m.from)'
  BY <1>1, StoreStateRecord
<1>3. Record(m.from, m.term, m.from)'
  BY <1>1, <1>2, RecordStays DEF VoteInv, RequestBacked
<1>4. \A x \in net' : x \in net \/ (GrantBacked(x)' /\ RequestBacked(x)')
  <2>1. \A x \in net' : x \in net \/ x = VoteResp(i, m, m.term, TRUE)
    BY DEF Reply, Transmit
  <2> SUFFICES ASSUME NEW x \in net', x = VoteResp(i, m, m.term, TRUE)
               PROVE  GrantBacked(x)' /\ RequestBacked(x)'
    BY <2>1
  <2>2. /\ x.type = "VoteResp" /\ x.from = i /\ x.to = m.from
        /\ x.term = m.term
    BY DEF VoteResp
  <2> QED BY <1>2, <1>3, <2>2 DEF GrantBacked, RequestBacked
<1> QED BY <1>2, <1>4, VoteStep

\* What a reply without a grant leaves in the network.
LEMMA SilentReply ==
    ASSUME NEW m, NEW r, Silent(r), Reply(m, r)
    PROVE  \A x \in net' : x \in net \/ Silent(x)
BY DEF Reply, Transmit

LEMMA SilentConsume ==
    ASSUME NEW m, Consume(m)
    PROVE  \A x \in net' : x \in net \/ Silent(x)
BY DEF Consume, Transmit

LEMMA SilentResps ==
    ASSUME NEW i, NEW m, NEW t
    PROVE  /\ Silent(VoteResp(i, m, t, FALSE))
           /\ \A s, n : Silent(AppendResp(i, m, t, s, n))
BY DEF Silent, VoteResp, AppendResp

LEMMA VoteReqVotes ==
    ASSUME TypeOK, VoteInv, NEW m \in net, NEW i \in Server,
           FollowerVoteReq(i, m) \/ CandidateVoteReq(i, m) \/ LeaderVoteReq(i, m)
    PROVE  VoteInv'
<1>1. m.type = "VoteReq" /\ UNCHANGED <<votes, elected>>
  BY DEF FollowerVoteReq, CandidateVoteReq, LeaderVoteReq, histVars
<1>2. m.term \in Nat /\ m.from \in Server /\ votedFor[i] \in Server \cup {NoServer}
  BY <1>1, MessageKinds DEF TypeOK, VoteReqEvent
<1>3. CASE /\ StoreState(i, m.term, m.from)
           /\ Reply(m, VoteResp(i, m, m.term, TRUE))
  BY <1>1, <1>3, GrantVotes
<1>4. CASE /\ \E v \in Server \cup {NoServer} :
                 StoreState(i, m.term, v) \/ UNCHANGED stateLog
           /\ \E id, t : Reply(m, VoteResp(id, m, t, FALSE))
  <2>1. \A x \in net' : x \in net \/ Silent(x)
    BY <1>4, SilentReply, SilentResps
  <2> QED BY <1>1, <1>2, <1>4, <2>1, SilentStep
<1>5. ASSUME FollowerVoteReq(i, m) PROVE VoteInv'
  <2>1. CASE FollowerGrantsVote(i, m)
    BY <2>1, <1>3 DEF FollowerGrantsVote
  <2>2. CASE FollowerStaleVoteReq(i, m)
    BY <2>2, <1>4 DEF FollowerStaleVoteReq, stateVars
  <2>3. CASE FollowerRejectsLog(i, m)
    BY <2>3, <1>2, <1>4 DEF FollowerRejectsLog, stateVars
  <2>4. CASE FollowerAlreadyVoted(i, m)
    BY <2>4, <1>4 DEF FollowerAlreadyVoted, stateVars
  <2> QED BY <1>5, <2>1, <2>2, <2>3, <2>4 DEF FollowerVoteReq
<1>6. ASSUME CandidateVoteReq(i, m) PROVE VoteInv'
  <2>1. CASE m.term <= term[i]
    BY <1>6, <2>1, <1>4 DEF CandidateVoteReq, stateVars
  <2>2. CASE ~(m.term <= term[i])
    BY <1>6, <2>2, <1>3 DEF CandidateVoteReq
  <2> QED BY <2>1, <2>2
<1>7. ASSUME LeaderVoteReq(i, m) PROVE VoteInv'
  <2>1. CASE m.term <= term[i]
    BY <1>7, <2>1, <1>4 DEF LeaderVoteReq, stateVars
  <2>2. CASE ~(m.term <= term[i]) /\ MoreComplete(log[i], m)
    BY <1>7, <2>2, <1>4 DEF LeaderVoteReq
  <2>3. CASE ~(m.term <= term[i]) /\ ~MoreComplete(log[i], m)
    BY <1>7, <2>3, <1>3 DEF LeaderVoteReq
  <2> QED BY <2>1, <2>2, <2>3
<1> QED BY <1>5, <1>6, <1>7

\* The votes of candidate i, once m is recorded, rest on records.
LEMMA VotesWithSupport ==
    ASSUME TypeOK, VoteInv, NEW m \in net, m.type = "VoteResp",
           NEW j \in Server, VotesWith(m.to, m)[j] = "yes"
    PROVE  Supports(j, m.to)
<1>1. m.to \in Server /\ m.term \in Nat /\ votes[m.to] \in [Server -> Vote]
  BY MessageKinds DEF TypeOK
<1>2. CASE m.granted /\ m.from = j
  <2>1. Record(j, m.term, m.to) /\ Record(m.to, m.term, m.to)
    BY <1>2 DEF VoteInv, GrantBacked
  <2> QED BY <1>1, <2>1 DEF Supports
<1>3. CASE ~(m.granted /\ m.from = j)
  <2>1. votes[m.to][j] = "yes"
    BY <1>1, <1>3 DEF VotesWith
  <2> QED BY <1>1, <2>1 DEF VoteInv
<1> QED BY <1>2, <1>3

LEMMA CandidateVoteRespVotes ==
    ASSUME TypeOK, VoteInv, NEW m \in net, NEW i \in Server, i = m.to,
           CandidateVoteResp(i, m)
    PROVE  VoteInv'
<1>1. m.type = "VoteResp" /\ m.term \in Nat
  BY MessageKinds DEF TypeOK, CandidateVoteResp
<1>2. CASE CandidateOutdated(i, m)
  <2>1. \A x \in net' : x \in net \/ Silent(x)
    BY <1>2, SilentConsume DEF CandidateOutdated
  <2> QED BY <1>1, <1>2, <2>1, SilentStep DEF CandidateOutdated
<1>3. CASE /\ votes' = [votes EXCEPT ![i] = VotesWith(i, m)]
           /\ \/ CandidateWins(i, m)
              \/ CandidateLoses(i, m)
              \/ CandidateKeepsWaiting(i, m)
  <2>1. UNCHANGED stateLog
    BY <1>3 DEF CandidateWins, CandidateLoses, CandidateKeepsWaiting, stateVars
  <2>2. RecordsKept
    BY <2>1, SameRecords
  <2>3. \A x \in net' : x \in net \/ Silent(x)
    <3>1. CASE CandidateWins(i, m)
      <4>1. \A x \in net' : x \in net \/ \E j \in Server : x = Heartbeat(i, j)
        BY <3>1 DEF CandidateWins, Leadership, Transmit
      <4>2. \A j : Silent(Heartbeat(i, j))
        BY DEF Silent, Heartbeat
      <4> QED BY <4>1, <4>2
    <3>2. CASE Consume(m)
      BY <3>2, SilentConsume
    <3> QED BY <1>3, <3>1, <3>2 DEF CandidateLoses, CandidateKeepsWaiting
  <2>4. \A x \in net' : x \in net \/ (GrantBacked(x)' /\ RequestBacked(x)')
    BY <2>3 DEF Silent, GrantBacked, RequestBacked
  <2>5. \A j \in Server : VotesWith(i, m)[j] = "yes" => Supports(j, i)
    BY <1>1, VotesWithSupport
  <2>6. \A h, j \in Server : votes'[h][j] = "yes" =>
           votes[h][j] = "yes" \/ Supports(j, h)'
    <3>1. \A h \in Server : h # i => votes'[h] = votes[h]
      BY <1>3 DEF TypeOK
    <3>2. votes'[i] = VotesWith(i, m)
      BY <1>3 DEF TypeOK
    <3> QED BY <3>1, <3>2, <2>2, <2>5, SupportStays
  <2>7. \A e \in elected' : e \in elected \/
           (e[1] \in Server /\ IsMajority({j \in Server : Supports(j, e[1])}))
    <3>1. CASE CandidateWins(i, m)
      <4> DEFINE S == Voted(VotesWith(i, m), "yes")
                 T == {j \in Server : Supports(j, i)}
      <4>1. S \subseteq T /\ T \in SUBSET Server
        BY <2>5 DEF Voted
      <4>2. IsMajority(S)
        BY <3>1 DEF CandidateWins
      <4>3. IsMajority(T)
        <5> HIDE DEF S, T
        <5> QED BY <4>1, <4>2, MajorityMonotonic
      <4>4. elected' = elected \cup {<<i, term[i]>>}
        BY <3>1 DEF CandidateWins, Leadership
      <4> QED BY <4>3, <4>4
    <3>2. CASE UNCHANGED elected
      BY <3>2
    <3> QED BY <1>3, <3>1, <3>2 DEF CandidateLoses, CandidateKeepsWaiting
  <2> QED BY <2>2, <2>4, <2>6, <2>7, VoteStep
<1> QED BY <1>2, <1>3 DEF CandidateVoteResp

\* The handlers that are not about votes.
LEMMA OtherHandlerVotes ==
    ASSUME TypeOK, VoteInv, NEW m \in net, NEW i \in Server,
           \/ FollowerAppendReq(i, m)   \/ FollowerResp(i, m)
           \/ CandidateAppendReq(i, m)  \/ CandidateAppendResp(i, m)
           \/ LeaderAppendReq(i, m)     \/ LeaderAppendResp(i, m)
           \/ LeaderVoteResp(i, m)
    PROVE  VoteInv'
<1>1. m.term \in Nat /\ NoServer \in Server \cup {NoServer}
  BY MessageKinds DEF TypeOK
<1>2. UNCHANGED <<votes, elected>>
  BY DEF FollowerAppendReq, FollowerResp, CandidateAppendReq,
         CandidateAppendResp, LeaderAppendReq, LeaderAppendResp, LeaderVoteResp,
         histVars
<1>3. StoreState(i, m.term, NoServer) \/ UNCHANGED stateLog
  <2>1. CASE FollowerAppendReq(i, m)
    BY <2>1 DEF FollowerAppendReq, FollowerStaleAppendReq, FollowerHeartbeat,
                FollowerRejectsEntries, FollowerAppendsEntries, FollowLeader,
                stateVars
  <2>2. CASE FollowerResp(i, m)
    BY <2>2 DEF FollowerResp, stateVars
  <2>3. CASE CandidateAppendReq(i, m)
    BY <2>3 DEF CandidateAppendReq, stateVars
  <2>4. CASE CandidateAppendResp(i, m)
    BY <2>4 DEF CandidateAppendResp, stateVars
  <2>5. CASE LeaderAppendReq(i, m)
    BY <2>5 DEF LeaderAppendReq, stateVars
  <2>6. CASE LeaderAppendResp(i, m)
    BY <2>6 DEF LeaderAppendResp, LeaderFailedResp, LeaderSuccessResp, stateVars
  <2>7. CASE LeaderVoteResp(i, m)
    BY <2>7 DEF LeaderVoteResp, stateVars
  <2> QED BY <2>1, <2>2, <2>3, <2>4, <2>5, <2>6, <2>7
<1>4. Consume(m) \/ \E t, s, n : Reply(m, AppendResp(i, m, t, s, n))
  <2>1. CASE FollowerAppendReq(i, m)
    BY <2>1 DEF FollowerAppendReq, FollowerStaleAppendReq, FollowerHeartbeat,
                FollowerRejectsEntries, FollowerAppendsEntries
  <2>2. CASE CandidateAppendReq(i, m)
    BY <2>2 DEF CandidateAppendReq, Consume, Reply
  <2>3. CASE LeaderAppendReq(i, m)
    BY <2>3 DEF LeaderAppendReq
  <2> QED BY <2>1, <2>2, <2>3 DEF FollowerResp, CandidateAppendResp,
                                 LeaderAppendResp, LeaderVoteResp
<1>5. \A x \in net' : x \in net \/ Silent(x)
  BY <1>4, SilentConsume, SilentReply, SilentResps
<1> QED BY <1>1, <1>2, <1>3, <1>5, SilentStep

LEMMA LeaderTimeoutVotes ==
    ASSUME TypeOK, VoteInv, NEW i \in Server, LeaderTimeout(i)
    PROVE  VoteInv'
<1>1. \A x \in net' : x \in net \/ \E j \in Server : x = Replication(i, j)
  BY DEF LeaderTimeout, Transmit
<1>2. ASSUME NEW j \in Server PROVE Silent(Replication(i, j))
  <2>1. Heartbeat(i, j).type = "AppendReq"
    BY DEF Heartbeat
  <2>2. Replication(i, j).type = Heartbeat(i, j).type
    BY DEF Replication, Heartbeat
  <2> QED BY <2>1, <2>2 DEF Silent
<1>3. \A x \in net' : x \in net \/ Silent(x)
  BY <1>1, <1>2
<1>4. UNCHANGED <<stateLog, votes, elected>>
  BY DEF LeaderTimeout, stateVars, histVars
<1> QED BY <1>3, <1>4, SameRecords, VoteStep DEF Silent, GrantBacked, RequestBacked

\* A client's command, a power-off and a restart.
LEMMA LocalVotes ==
    ASSUME TypeOK, VoteInv, NEW i \in Server,
           (\E c \in Command : LeaderAppendEvent(i, c)) \/ Shutdown(i) \/ New(i)
    PROVE  VoteInv'
<1>1. UNCHANGED <<net, stateLog, elected>>
  BY DEF LeaderAppendEvent, Shutdown, New, stateVars, histVars
<1>2. \A h, j \in Server : votes'[h][j] = "yes" => votes[h][j] = "yes"
  <2>1. CASE New(i)
    <3>1. votes' = [votes EXCEPT ![i] = [j \in Server |-> "none"]]
      BY <2>1 DEF New, ForEach
    <3>2. /\ votes'[i] = [j \in Server |-> "none"]
          /\ \A h \in Server : h # i => votes'[h] = votes[h]
      BY <3>1 DEF TypeOK
    <3> QED BY <3>2
  <2>2. CASE UNCHANGED votes
    BY <2>2
  <2> QED BY <2>1, <2>2 DEF LeaderAppendEvent, Shutdown
<1> QED BY <1>1, <1>2, SameRecords, VoteStep

LEMMA InitVotes == Init => VoteInv
BY DEF Init, ForEach, VoteInv

LEMMA NextVotes == TypeOK /\ VoteInv /\ [Next]_vars => VoteInv'
<1> SUFFICES ASSUME TypeOK, VoteInv, [Next]_vars PROVE VoteInv'
  OBVIOUS
<1>1. ASSUME NEW m \in net, Handle(m.to, m) PROVE VoteInv'
  <2>1. m.to \in Server
    BY MessageKinds DEF TypeOK
  <2> QED BY <1>1, <2>1, VoteReqVotes, CandidateVoteRespVotes,
             OtherHandlerVotes DEF Handle
<1>2. ASSUME NEW i \in Server,
             \/ FollowerTimeout(i) \/ CandidateTimeout(i) \/ LeaderTimeout(i)
             \/ \E c \in Command : LeaderAppendEvent(i, c)
             \/ Shutdown(i) \/ New(i)
      PROVE  VoteInv'
  BY <1>2, TimeoutVotes, LeaderTimeoutVotes, LocalVotes
<1>3. CASE UNCHANGED vars
  BY <1>3, SameRecords, VoteStep DEF vars, stateVars, histVars
<1> QED BY <1>1, <1>2, <1>3 DEF Next

LEMMA VoteInvariant == Spec => [](TypeOK /\ VoteInv)
<1>1. Init => TypeOK /\ VoteInv
  BY InitType, InitVotes
<1>2. (TypeOK /\ VoteInv) /\ [Next]_vars => (TypeOK /\ VoteInv)'
  BY NextType, NextVotes
<1> QED BY <1>1, <1>2, PTL DEF Spec

-----------------------------------------------------------------------------

\* A granted vote is on the voter's disk before the candidate hears of it.
THEOREM VotesDurable == Spec => []VoteDurable
<1>1. VoteInv => VoteDurable
  BY DEF VoteInv, VoteDurable, GrantBacked, Record
<1> QED BY <1>1, VoteInvariant, PTL

\* A node that won an election holds votes for its candidacy on the disks of a
\* majority, in every cluster and through every restart.
THEOREM LeadersVoted == Spec => []LeaderHasDurableVotes
<1>1. TypeOK /\ VoteInv => LeaderHasDurableVotes
  <2> SUFFICES ASSUME TypeOK, VoteInv, NEW e \in elected
               PROVE  IsMajority({j \in Server :
                         \E k \in 1..Len(stateLog[j]), h \in 1..Len(stateLog[e[1]]) :
                            /\ stateLog[j][k].votedFor = e[1]
                            /\ stateLog[j][k] = stateLog[e[1]][h]})
    BY DEF LeaderHasDurableVotes
  <2> DEFINE S == {j \in Server : Supports(j, e[1])}
             T == {j \in Server :
                     \E k \in 1..Len(stateLog[j]), h \in 1..Len(stateLog[e[1]]) :
                        /\ stateLog[j][k].votedFor = e[1]
                        /\ stateLog[j][k] = stateLog[e[1]][h]}
  <2>1. IsMajority(S)
    BY DEF VoteInv
  <2>2. S \subseteq T
    <3> SUFFICES ASSUME NEW j \in Server, Supports(j, e[1])
                 PROVE  j \in T
      OBVIOUS
    <3>1. PICK t \in Nat : Record(j, t, e[1]) /\ Record(e[1], t, e[1])
      BY DEF Supports
    <3>2. PICK k \in 1..Len(stateLog[j]) :
             stateLog[j][k] = [term |-> t, votedFor |-> e[1]]
      BY <3>1 DEF Record
    <3>3. PICK h \in 1..Len(stateLog[e[1]]) :
             stateLog[e[1]][h] = [term |-> t, votedFor |-> e[1]]
      BY <3>1 DEF Record
    <3> QED BY <3>2, <3>3
  <2>3. T \in SUBSET Server
    OBVIOUS
  <2>4. IsMajority(T)
    <3> HIDE DEF S, T
    <3> QED BY <2>1, <2>2, <2>3, MajorityMonotonic
  <2> QED BY <2>4
<1> QED BY <1>1, VoteInvariant, PTL

=============================================================================

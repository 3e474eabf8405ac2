-------------------------- MODULE RaftMatchProofs --------------------------
(***************************************************************************)
(* The Log Matching property of Raft, for every cluster: while no node     *)
(* goes down and every term has had one leader, two logs that agree on the *)
(* term of an entry agree on all entries up to it.                         *)
(*                                                                         *)
(* The argument needs every log a message was cut from, which no variable  *)
(* holds once its sender has gone on.  The inductive invariant therefore   *)
(* says that there is a set of logs, those of the nodes among them, such   *)
(* that any two match and every request is a slice of one.                 *)
(*                                                                         *)
(* The second half is about clusters in which one election was won at      *)
(* most.  There is one such log then, the leader's, and all others are its *)
(* beginnings: no two nodes commit different commands, and what the leader *)
(* counts as committed is on a majority.                                   *)
(*                                                                         *)
(* The last part is what a server on top of a node can rely on: what is    *)
(* delivered was submitted, and is only ever added to while nodes are up.  *)
(***************************************************************************)
EXTENDS RaftLogProofs

-----------------------------------------------------------------------------
(* Leaders and the terms they were elected in.                             *)

\* A leader was elected in its term; who was elected in a term leads in it or
\* has a higher term.
ElectedInv ==
    /\ \A i \in Server : role[i] # POWEROFF
    /\ \A i \in Server : role[i] = LEADER => <<i, term[i]>> \in elected
    /\ \A i \in Server : \A t \in Nat : <<i, t>> \in elected =>
         t <= term[i] /\ (t = term[i] => role[i] = LEADER)

\* What a step of node i that is not a failure does to its role: it keeps it,
\* in its term if it leads; it stops leading, in a higher term; it is elected.
RoleStep(i) ==
    \/ /\ UNCHANGED <<role, elected>>
       /\ role[i] = LEADER => UNCHANGED term
    \/ /\ UNCHANGED elected
       /\ \E r \in {FOLLOWER, CANDIDATE} : role' = [role EXCEPT ![i] = r]
       /\ role[i] = LEADER => term'[i] > term[i]
    \/ /\ role[i] = CANDIDATE
       /\ role' = [role EXCEPT ![i] = LEADER]
       /\ elected' = elected \cup {<<i, term[i]>>}
       /\ UNCHANGED term

LEMMA HandlerRoleStep ==
    ASSUME TypeOK, NEW m \in net, NEW i \in Server, Handle(i, m)
    PROVE  RoleStep(i)
<1>1. m.term \in Nat /\ term[i] \in Nat /\ term \in [Server -> Nat]
  BY MessageKinds DEF TypeOK
<1>2. ASSUME NEW v, StoreState(i, m.term, v), m.term > term[i]
      PROVE  term'[i] > term[i]
  BY <1>1, <1>2 DEF StoreState
<1>3. CASE FollowerVoteReq(i, m) \/ FollowerAppendReq(i, m) \/ FollowerResp(i, m)
  BY <1>3 DEF FollowerVoteReq, FollowerAppendReq, FollowerResp, RoleStep,
              histVars, FOLLOWER, LEADER
<1>4. CASE CandidateVoteReq(i, m) \/ CandidateAppendReq(i, m)
             \/ CandidateAppendResp(i, m)
  BY <1>4 DEF CandidateVoteReq, CandidateAppendReq, CandidateAppendResp,
              RoleStep, histVars, CANDIDATE, LEADER
<1>5. CASE CandidateVoteResp(i, m)
  <2>1. CASE CandidateWins(i, m)
    BY <1>5, <2>1 DEF CandidateVoteResp, CandidateWins, Leadership, RoleStep
  <2>2. CASE CandidateOutdated(i, m) \/ CandidateLoses(i, m)
               \/ CandidateKeepsWaiting(i, m)
    BY <1>5, <2>2 DEF CandidateVoteResp, CandidateOutdated, CandidateLoses,
                      CandidateKeepsWaiting, RoleStep, CANDIDATE, LEADER
  <2> QED BY <1>5, <2>1, <2>2 DEF CandidateVoteResp
<1>6. CASE LeaderVoteReq(i, m)
  <2>1. UNCHANGED elected
    BY <1>6 DEF LeaderVoteReq, histVars
  <2>2. CASE m.term <= term[i]
    BY <1>6, <2>1, <2>2 DEF LeaderVoteReq, RoleStep, stateVars
  <2>3. CASE ~(m.term <= term[i])
    <3>1. StepDown(i) /\ \E v : StoreState(i, m.term, v)
      BY <1>6, <2>3 DEF LeaderVoteReq
    <3>2. term'[i] > term[i]
      BY <1>1, <1>2, <2>3, <3>1
    <3> QED BY <2>1, <3>1, <3>2 DEF RoleStep, StepDown
  <2> QED BY <2>2, <2>3
<1>7. CASE LeaderVoteResp(i, m) \/ LeaderAppendReq(i, m)
  <2>1. UNCHANGED elected
    BY <1>7 DEF LeaderVoteResp, LeaderAppendReq, histVars
  <2>2. CASE ~(m.term > term[i])
    BY <1>7, <2>1, <2>2 DEF LeaderVoteResp, LeaderAppendReq, RoleStep, stateVars
  <2>3. CASE m.term > term[i]
    <3>1. StepDown(i) /\ StoreState(i, m.term, NoServer)
      BY <1>7, <2>3 DEF LeaderVoteResp, LeaderAppendReq
    <3>2. term'[i] > term[i]
      BY <1>2, <2>3, <3>1
    <3> QED BY <2>1, <3>1, <3>2 DEF RoleStep, StepDown
  <2> QED BY <2>2, <2>3
<1>8. CASE LeaderAppendResp(i, m)
  <2>1. UNCHANGED elected
    BY <1>8 DEF LeaderAppendResp, histVars
  <2>2. CASE LeaderSuccessResp(i, m)
    BY <2>1, <2>2 DEF LeaderSuccessResp, RoleStep, stateVars
  <2>3. CASE LeaderFailedResp(i, m) /\ ~(m.term > term[i])
    BY <2>1, <2>3 DEF LeaderFailedResp, RoleStep, stateVars
  <2>4. CASE LeaderFailedResp(i, m) /\ m.term > term[i]
    <3>1. StepDown(i) /\ StoreState(i, m.term, NoServer)
      BY <2>4 DEF LeaderFailedResp
    <3>2. term'[i] > term[i]
      BY <1>2, <2>4, <3>1
    <3> QED BY <2>1, <3>1, <3>2 DEF RoleStep, StepDown
  <2> QED BY <1>8, <2>2, <2>3, <2>4 DEF LeaderAppendResp
<1> QED BY <1>3, <1>4, <1>5, <1>6, <1>7, <1>8 DEF Handle

LEMMA ElectedStep ==
    ASSUME TypeOK, TypeOK', ElectedInv, NEW i \in Server,
           RoleStep(i), TermKept(i)
    PROVE  ElectedInv'
<1>1. /\ role \in [Server -> State] /\ term \in [Server -> Nat]
      /\ term' \in [Server -> Nat]
      /\ \A k \in Server : term'[k] >= term[k]
      /\ \A k \in Server \ {i} : term'[k] = term[k]
  BY TermKeptGrows DEF TypeOK, TermKept
<1>2. CASE UNCHANGED <<role, elected>> /\ (role[i] = LEADER => UNCHANGED term)
  BY <1>1, <1>2 DEF ElectedInv
<1>3. CASE /\ UNCHANGED elected
           /\ \E r \in {FOLLOWER, CANDIDATE} : role' = [role EXCEPT ![i] = r]
           /\ role[i] = LEADER => term'[i] > term[i]
  <2>1. /\ role'[i] # LEADER /\ role'[i] # POWEROFF
        /\ \A k \in Server \ {i} : role'[k] = role[k]
    BY <1>1, <1>3 DEF FOLLOWER, CANDIDATE, LEADER, POWEROFF
  <2>2. \A t \in Nat : <<i, t>> \in elected => t < term'[i]
    BY <1>1, <1>3 DEF ElectedInv
  <2> QED BY <1>1, <1>3, <2>1, <2>2 DEF ElectedInv
<1>4. CASE /\ role' = [role EXCEPT ![i] = LEADER]
           /\ elected' = elected \cup {<<i, term[i]>>}
           /\ UNCHANGED term
  <2>1. /\ role'[i] = LEADER /\ LEADER # POWEROFF
        /\ \A k \in Server \ {i} : role'[k] = role[k]
    BY <1>1, <1>4 DEF LEADER, POWEROFF
  <2> QED BY <1>1, <1>4, <2>1 DEF ElectedInv
<1> QED BY <1>2, <1>3, <1>4 DEF RoleStep

-----------------------------------------------------------------------------
(* Logs that match.                                                        *)

\* Where logs a and b have the same term, they are the same up to there.
Matching(a, b) ==
    \A k \in 1..Len(a) :
        k <= Len(b) /\ a[k].term = b[k].term => \A h \in 1..k : a[h] = b[h]

\* The entries of request m were cut from log l behind the preceding one.
Slice(m, l) ==
    /\ m.prevIndex + Len(m.entries) <= Len(l)
    /\ \A k \in 1..Len(m.entries) : m.entries[k] = l[m.prevIndex + k]
    /\ m.prevIndex > 0 => l[m.prevIndex].term = m.prevTerm

\* H is a set of logs that match, of entries that elected leaders appended,
\* and a leader's log has all of its term.  The nodes' logs are among them and
\* every request is a slice of one.
Sources(H) ==
    /\ \A a, b \in H : Matching(a, b)
    /\ \A a \in H : \A k \in 1..Len(a) :
         \E i \in Server : <<i, a[k].term>> \in elected
    /\ \A i \in Server : role[i] = LEADER =>
         \A a \in H : \A k \in 1..Len(a) :
            a[k].term = term[i] => k <= Len(log[i])
    /\ \A i \in Server : log[i] \in H
    /\ \A m \in net : m.type = "AppendReq" => \E a \in H : Slice(m, a)

MatchInv ==
    /\ ElectedInv
    /\ ElectionSafety => \E H \in SUBSET Seq(LogEntry) : Sources(H)

\* A leader that was just elected in its term finds no entry of it: no other
\* node had been elected, and it has not led in it before.
LEMMA NoEntryOfNewTerm ==
    ASSUME TypeOK, TypeOK', ElectedInv, ElectionSafety', NEW i \in Server,
           role[i] = CANDIDATE, elected' = elected \cup {<<i, term[i]>>},
           NEW j \in Server
    PROVE  <<j, term[i]>> \notin elected
<1> SUFFICES ASSUME <<j, term[i]>> \in elected PROVE FALSE
  OBVIOUS
<1>1. <<j, term[i]>> \in elected' /\ <<i, term[i]>> \in elected'
  OBVIOUS
<1>2. j = i
  BY <1>1 DEF ElectionSafety
<1>3. term[i] \in Nat
  BY DEF TypeOK
<1> QED BY <1>2, <1>3 DEF ElectedInv, CANDIDATE, LEADER

\* A step that leaves the logs alone and sends heartbeats or what Slice allows
\* needs no further log.
LEMMA QuietSources ==
    ASSUME TypeOK, TypeOK', ElectedInv, ElectionSafety',
           NEW H \in SUBSET Seq(LogEntry), Sources(H),
           NEW i \in Server, UNCHANGED log, RoleStep(i), TermKept(i),
           \A x \in net' : \/ x \in net
                           \/ x.type = "AppendReq" => \E a \in H : Slice(x, a)
    PROVE  Sources(H)'
<1>1. /\ role \in [Server -> State] /\ term \in [Server -> Nat]
      /\ \A k \in Server \ {i} : term'[k] = term[k]
      /\ elected \subseteq elected'
  BY DEF TypeOK, TermKept, RoleStep
<1>2. \A a \in H : \A k \in 1..Len(a) :
        \E j \in Server : <<j, a[k].term>> \in elected'
  BY <1>1 DEF Sources
<1>3. \A x \in net' : x.type = "AppendReq" => \E a \in H : Slice(x, a)
  BY DEF Sources
<1>4. ASSUME NEW j \in Server, role'[j] = LEADER, NEW a \in H,
             NEW k \in 1..Len(a), a[k].term = term'[j]
      PROVE  k <= Len(log[j])
  <2>1. CASE j # i
    <3>1. role'[j] = role[j]
      BY <1>1, <2>1 DEF RoleStep
    <3> QED BY <1>1, <1>4, <2>1, <3>1 DEF Sources
  <2>2. CASE j = i
    <3>1. CASE UNCHANGED <<role, elected>> /\ (role[i] = LEADER => UNCHANGED term)
      BY <1>4, <2>2, <3>1 DEF Sources
    <3>2. CASE \E r \in {FOLLOWER, CANDIDATE} : role' = [role EXCEPT ![i] = r]
      BY <1>1, <1>4, <2>2, <3>2 DEF FOLLOWER, CANDIDATE, LEADER
    <3>3. CASE /\ role[i] = CANDIDATE
               /\ elected' = elected \cup {<<i, term[i]>>}
               /\ UNCHANGED term
      <4>1. PICK n \in Server : <<n, a[k].term>> \in elected
        BY DEF Sources
      <4>2. <<n, term[i]>> \in elected
        BY <1>4, <2>2, <3>3, <4>1
      <4> QED BY <3>3, <4>2, NoEntryOfNewTerm
    <3> QED BY <3>1, <3>2, <3>3 DEF RoleStep
  <2> QED BY <2>1, <2>2
<1> QED BY <1>2, <1>3, <1>4 DEF Sources, Matching, Slice

\* A heartbeat is a slice, of no entries, of any log.
LEMMA HeartbeatSlice ==
    ASSUME NEW i \in Server, NEW j, NEW l \in Seq(LogEntry)
    PROVE  Slice(Heartbeat(i, j), l)
<1>1. /\ Heartbeat(i, j).prevIndex = 0
      /\ Heartbeat(i, j).entries = <<>> /\ Len(<<>>) = 0
  BY DEF Heartbeat
<1>2. Len(l) \in Nat
  BY LenProperties
<1> QED BY <1>1, <1>2 DEF Slice

LEMMA ReplicationSlice ==
    ASSUME TypeOK, NEW i \in Server, NEW j \in Server
    PROVE  Slice(Replication(i, j), log[i])
<1> DEFINE n == nextIndex[i][j]
           l == log[i]
<1>1. n \in Nat \ {0} /\ l \in Seq(LogEntry) /\ Len(l) \in Nat
  BY LenProperties DEF TypeOK
<1>2. CASE ~(n <= Len(l))
  BY <1>1, <1>2, HeartbeatSlice DEF Replication
<1>3. CASE n <= Len(l)
  <2> DEFINE es == SubSeq(l, n, Len(l))
             r  == Replication(i, j)
  <2>1. /\ r.entries = es /\ r.prevIndex = n - 1
        /\ r.prevIndex > 0 => r.prevTerm = l[n - 1].term
    BY <1>1, <1>3 DEF Replication, Heartbeat
  <2> HIDE DEF n, l, r
  <2>2. \A h \in n..Len(l) : l[h] \in LogEntry
    BY <1>1, ElementOfSeq
  <2>3. /\ Len(es) = IF n <= Len(l) THEN Len(l) - n + 1 ELSE 0
        /\ \A k \in 1..Len(l) - n + 1 : es[k] = l[n + k - 1]
    BY <1>1, <2>2, SubSeqProperties
  <2> HIDE DEF es
  <2>4. /\ Len(es) = Len(l) - n + 1 /\ (n - 1) + Len(es) <= Len(l)
        /\ \A k \in 1..Len(es) : es[k] = l[n + k - 1] /\ n + k - 1 = (n - 1) + k
    BY <1>1, <1>3, <2>3
  <2>5. Slice(r, l)
    BY <2>1, <2>4 DEF Slice
  <2> QED BY <2>5 DEF r, l
<1> QED BY <1>2, <1>3

LEMMA TimeoutSources ==
    ASSUME TypeOK, TypeOK', ElectedInv, ElectionSafety',
           NEW H \in SUBSET Seq(LogEntry), Sources(H), NEW i \in Server,
           FollowerTimeout(i) \/ CandidateTimeout(i) \/ LeaderTimeout(i),
           RoleStep(i), TermKept(i)
    PROVE  Sources(H)'
<1>1. UNCHANGED log
  BY DEF FollowerTimeout, CandidateTimeout, LeaderTimeout, logVars
<1>2. \A x \in net' : \/ x \in net
                      \/ x.type = "AppendReq" => \E a \in H : Slice(x, a)
  <2>1. CASE FollowerTimeout(i) \/ CandidateTimeout(i)
    BY <2>1 DEF FollowerTimeout, CandidateTimeout, Candidacy, Transmit, VoteReq
  <2>2. CASE LeaderTimeout(i)
    BY <2>2, ReplicationSlice DEF LeaderTimeout, Transmit, Sources
  <2> QED BY <2>1, <2>2
<1> QED BY <1>1, <1>2, QuietSources

\* A step in which node i's log becomes l, which matches all of H.
LEMMA GrowSources ==
    ASSUME TypeOK, TypeOK', NEW H \in SUBSET Seq(LogEntry), Sources(H),
           NEW i \in Server, NEW l \in Seq(LogEntry), log'[i] = l,
           \A j \in Server \ {i} : log'[j] = log[j],
           UNCHANGED <<role, elected>>,
           \A j \in Server : role[j] = LEADER => term'[j] = term[j],
           role[i] = LEADER => Len(log[i]) <= Len(l),
           \A a \in H : Matching(a, l) /\ Matching(l, a),
           \A k \in 1..Len(l) : \E j \in Server : <<j, l[k].term>> \in elected,
           \A j \in Server : role[j] = LEADER =>
              \A k \in 1..Len(l) : l[k].term = term[j] => k <= Len(log'[j]),
           \A x \in net' : x \in net \/ x.type # "AppendReq"
    PROVE  Sources(H \cup {l})'
<1> DEFINE G == H \cup {l}
<1>1. Matching(l, l)
  BY DEF Matching
<1>2. \A a, c \in G : Matching(a, c)
  BY <1>1 DEF Sources
<1>3. \A a \in G : \A k \in 1..Len(a) :
        \E j \in Server : <<j, a[k].term>> \in elected
  BY DEF Sources
<1>4. ASSUME NEW j \in Server, role[j] = LEADER, NEW a \in H,
             NEW k \in 1..Len(a), a[k].term = term[j]
      PROVE  k <= Len(log'[j])
  <2>1. k <= Len(log[j]) /\ k \in Nat
    BY <1>4 DEF Sources
  <2>2. Len(log[j]) \in Nat /\ Len(log'[j]) \in Nat
    BY LenProperties DEF TypeOK
  <2> QED BY <1>4, <2>1, <2>2
<1>5. \A j \in Server : role'[j] = LEADER =>
        \A a \in G : \A k \in 1..Len(a) :
           a[k].term = term'[j] => k <= Len(log'[j])
  BY <1>4
<1>6. \A j \in Server : log'[j] \in G
  BY DEF Sources
<1>7. \A x \in net' : x.type = "AppendReq" => \E a \in G : Slice(x, a)
  BY DEF Sources
<1> HIDE DEF G
<1>8. Sources(G)'
  BY <1>2, <1>3, <1>5, <1>6, <1>7 DEF Sources, Matching, Slice
<1> QED BY <1>8 DEF G

\* The entry a leader appends is the first at its place in its term.
LEMMA LeaderAppendEventSources ==
    ASSUME TypeOK, TypeOK', ElectedInv, ElectionSafety,
           NEW H \in SUBSET Seq(LogEntry), Sources(H), NEW i \in Server,
           NEW c \in Command, LeaderAppendEvent(i, c),
           NEW l \in Seq(LogEntry), l = log'[i]
    PROVE  Sources(H \cup {l})'
<1> DEFINE entry == [term |-> term[i], cmd |-> c]
           o == log[i]
           n == Len(log[i])
<1>1. /\ UNCHANGED <<role, elected, term, net>> /\ role[i] = LEADER
      /\ \A j \in Server \ {i} : log'[j] = log[j]
      /\ l = Append(o, entry)
  BY DEF LeaderAppendEvent, stateVars, TypeOK
<1>2. /\ o \in Seq(LogEntry) /\ n \in Nat
      /\ entry \in LogEntry
  BY LenProperties DEF TypeOK, LogEntry
<1>3. /\ Len(l) = n + 1 /\ \A k \in 1..n : l[k] = o[k]
      /\ l[n + 1] = entry /\ entry.term = term[i]
  BY <1>1, <1>2, AppendProperties
<1>4. o \in H /\ n = Len(o)
  BY DEF Sources
<1>5. <<i, term[i]>> \in elected
  BY <1>1 DEF ElectedInv
<1>6. \A a \in H : \A k \in 1..Len(a) : a[k].term = term[i] => k <= n
  BY <1>1 DEF Sources
<1>7. \A a \in H : Len(a) \in Nat
  BY LenProperties
<1> HIDE DEF entry, o, n
<1>8. ASSUME NEW a \in H PROVE Matching(a, l) /\ Matching(l, a)
  <2>1. Matching(a, o) /\ Matching(o, a) /\ Len(a) \in Nat
    BY <1>4, <1>7 DEF Sources
  <2>2. ASSUME NEW k \in 1..(n + 1), k <= Len(a), a[k].term = l[k].term
        PROVE  \A h \in 1..k : a[h] = l[h]
    <3>1. k \in 1..Len(a)
      BY <2>1, <2>2
    <3>2. k # n + 1
      BY <1>2, <1>3, <1>6, <2>2, <3>1
    <3>3. k \in 1..n
      BY <1>2, <3>2
    <3>4. \A h \in 1..k : h \in 1..n /\ a[h] = o[h]
      BY <1>2, <1>3, <1>4, <2>1, <2>2, <3>1, <3>3 DEF Matching
    <3> QED BY <1>3, <3>4
  <2> QED BY <1>2, <1>3, <2>1, <2>2 DEF Matching
<1>9. \A k \in 1..Len(l) : \E j \in Server : <<j, l[k].term>> \in elected
  <2> SUFFICES ASSUME NEW k \in 1..(n + 1)
               PROVE  \E j \in Server : <<j, l[k].term>> \in elected
    BY <1>3
  <2>1. CASE k = n + 1
    BY <1>3, <1>5, <2>1
  <2>2. CASE k \in 1..n
    <3>1. k \in 1..Len(o) /\ l[k] = o[k]
      BY <1>3, <1>4, <2>2
    <3> QED BY <1>4, <3>1 DEF Sources
  <2>3. k = n + 1 \/ k \in 1..n
    BY <1>2
  <2> QED BY <2>1, <2>2, <2>3
<1>10. ASSUME NEW j \in Server, role[j] = LEADER, NEW k \in 1..Len(l),
              l[k].term = term[j]
       PROVE  k <= Len(log'[j])
  <2>1. CASE j = i
    BY <1>2, <1>3, <2>1
  <2>2. CASE j # i
    <3>1. k # n + 1
      <4>1. <<j, term[j]>> \in elected
        BY <1>10 DEF ElectedInv
      <4> QED BY <1>3, <1>5, <1>10, <2>2, <4>1 DEF ElectionSafety
    <3>2. k \in 1..n /\ o[k].term = term[j]
      BY <1>2, <1>3, <1>10, <3>1
    <3> QED BY <1>1, <1>4, <1>10, <2>2, <3>2 DEF Sources
  <2> QED BY <2>1, <2>2
<1>11. n <= Len(l)
  BY <1>2, <1>3
<1>12. \A j \in Server : role[j] = LEADER =>
         \A k \in 1..Len(l) : l[k].term = term[j] => k <= Len(log'[j])
  BY <1>10
<1> QED BY <1>1, <1>8, <1>9, <1>11, <1>12, GrowSources DEF n

\* A log that begins a log of H matches what that log matches.
LEMMA PrefixMatches ==
    ASSUME NEW a \in Seq(LogEntry), NEW c \in Seq(LogEntry),
           NEW l \in Seq(LogEntry), Len(l) <= Len(a),
           \A h \in 1..Len(l) : l[h] = a[h],
           Matching(a, c), Matching(c, a)
    PROVE  Matching(l, c) /\ Matching(c, l)
<1>1. Len(a) \in Nat /\ Len(c) \in Nat /\ Len(l) \in Nat
  BY LenProperties
<1>2. ASSUME NEW k \in 1..Len(l), k <= Len(c), l[k].term = c[k].term
      PROVE  \A h \in 1..k : l[h] = c[h]
  <2>1. k \in 1..Len(a) /\ a[k].term = c[k].term
    BY <1>1, <1>2
  <2>2. \A h \in 1..k : a[h] = c[h] /\ h \in 1..Len(l)
    BY <1>1, <1>2, <2>1 DEF Matching
  <2> QED BY <2>2
<1>3. Matching(l, c)
  BY <1>2 DEF Matching
<1>4. ASSUME NEW k \in 1..Len(c), k <= Len(l), c[k].term = l[k].term
      PROVE  \A h \in 1..k : c[h] = l[h]
  <2>1. k \in 1..Len(l) /\ k <= Len(c)
    BY <1>1, <1>4
  <2> QED BY <1>2, <1>4, <2>1
<1>5. Matching(c, l)
  BY <1>4 DEF Matching
<1> QED BY <1>3, <1>5

\* Log l cut behind the first k entries of request m, and the rest of m.
Spliced(l, m, k) ==
    SubSeq(l, 1, m.prevIndex + k) \o SubSeq(m.entries, k + 1, Len(m.entries))

\* The log a follower is left with when it appends begins the log that the
\* entries were cut from: what it keeps agrees with it on its last term.
LEMMA SpliceIsPrefix ==
    ASSUME NEW l \in Seq(LogEntry), NEW a \in Seq(LogEntry),
           NEW m \in AppendEntriesReqEvent, Matching(l, a), Slice(m, a),
           PrevMatches(l, m), NEW k \in 0..Len(m.entries),
           \A h \in 1..k : Present(l, m, h)
    PROVE  /\ Len(Spliced(l, m, k)) <= Len(a)
           /\ \A h \in 1..Len(Spliced(l, m, k)) : Spliced(l, m, k)[h] = a[h]
<1> DEFINE es   == m.entries
           p    == m.prevIndex
           kept == SubSeq(l, 1, p + k)
           rest == SubSeq(es, k + 1, Len(es))
           new  == Spliced(l, m, k)
<1>1. /\ p \in Nat /\ es \in Seq(LogEntry) /\ Len(es) \in Nat /\ k \in Nat
      /\ k <= Len(es) /\ Len(l) \in Nat /\ Len(a) \in Nat
  BY LenProperties DEF AppendEntriesReqEvent
<1>2. /\ p + Len(es) <= Len(a)
      /\ \A y \in 1..Len(es) : es[y] = a[p + y]
      /\ p > 0 => a[p].term = m.prevTerm
  BY DEF Slice
<1>3. /\ p <= Len(l)
      /\ p > 0 => l[p].term = m.prevTerm
      /\ k > 0 => p + k <= Len(l) /\ l[p + k].term = es[k].term
  <2>1. k > 0 => k \in 1..k
    BY <1>1
  <2> QED BY <2>1 DEF PrevMatches, Present
<1> HIDE DEF es, p
<1>4. p + k \in Nat /\ p + k <= Len(l) /\ p + k <= Len(a) /\ k <= Len(es)
  BY <1>1, <1>2, <1>3
<1>5. p + k > 0 => l[p + k].term = a[p + k].term
  <2>1. CASE k = 0
    BY <1>1, <1>2, <1>3, <2>1
  <2>2. CASE k # 0
    <3>1. k > 0 /\ k \in 1..Len(es)
      BY <1>1, <2>2
    <3> QED BY <1>2, <1>3, <3>1
  <2> QED BY <2>1, <2>2
<1>6. \A h \in 1..(p + k) : l[h] = a[h]
  <2> SUFFICES ASSUME NEW h \in 1..(p + k) PROVE l[h] = a[h]
    OBVIOUS
  <2>1. p + k \in 1..Len(l) /\ p + k > 0
    BY <1>1, <1>4
  <2> QED BY <1>4, <1>5, <2>1 DEF Matching
<1>7. kept \in Seq(LogEntry) /\ Len(kept) = p + k
      /\ \A h \in 1..(p + k) : kept[h] = l[h]
  BY <1>4, PrefixEntries
<1>8. /\ rest \in Seq(LogEntry) /\ Len(rest) = Len(es) - k
      /\ \A y \in 1..(Len(es) - k) : rest[y] = es[k + y]
  <2>1. \A y \in (k + 1)..Len(es) : es[y] \in LogEntry
    BY <1>1, ElementOfSeq
  <2>2. /\ rest \in Seq(LogEntry)
        /\ Len(rest) = IF k + 1 <= Len(es) THEN Len(es) - (k + 1) + 1 ELSE 0
        /\ \A y \in 1..Len(es) - (k + 1) + 1 : rest[y] = es[k + 1 + y - 1]
    BY <1>1, <2>1, SubSeqProperties
  <2> HIDE DEF rest
  <2>3. \A y \in Int : k + 1 + y - 1 = k + y
    BY <1>1
  <2>4. Len(es) - (k + 1) + 1 = Len(es) - k
    BY <1>1
  <2>5. Len(rest) = Len(es) - k
    BY <1>1, <2>2
  <2>6. ASSUME NEW y \in 1..(Len(es) - k) PROVE rest[y] = es[k + y]
    <3>1. y \in 1..Len(es) - (k + 1) + 1 /\ y \in Int
      BY <2>4
    <3> QED BY <2>2, <2>3, <3>1
  <2> QED BY <2>2, <2>5, <2>6
<1> HIDE DEF kept, rest
<1>9. /\ Len(new) = Len(kept) + Len(rest)
      /\ \A h \in 1..Len(kept) + Len(rest) :
           new[h] = IF h <= Len(kept) THEN kept[h] ELSE rest[h - Len(kept)]
  <2>1. new = kept \o rest
    BY DEF Spliced, kept, rest, es, p
  <2> HIDE DEF new
  <2> QED BY <1>7, <1>8, <2>1, ConcatProperties
<1> HIDE DEF new
<1>10. Len(new) = p + Len(es)
  BY <1>1, <1>7, <1>8, <1>9
<1>11. ASSUME NEW h \in 1..Len(new) PROVE new[h] = a[h]
  <2>1. CASE h <= p + k
    <3>1. h \in 1..(p + k) /\ h \in 1..Len(kept) + Len(rest) /\ h <= Len(kept)
      BY <1>4, <1>7, <1>9, <2>1
    <3> QED BY <1>6, <1>7, <1>9, <3>1
  <2>2. CASE h > p + k
    <3>1. /\ h - (p + k) \in 1..(Len(es) - k)
          /\ k + (h - (p + k)) \in 1..Len(es)
          /\ p + (k + (h - (p + k))) = h
      BY <1>1, <1>4, <1>10, <2>2
    <3>2. new[h] = rest[h - (p + k)]
      BY <1>4, <1>7, <1>9, <1>11, <2>2
    <3> QED BY <1>2, <1>8, <3>1, <3>2
  <2> QED BY <1>1, <1>10, <2>1, <2>2
<1>12. Len(new) <= Len(a)
  BY <1>2, <1>10
<1> QED BY <1>11, <1>12 DEF new

LEMMA FollowerAppendsSources ==
    ASSUME TypeOK, TypeOK', ElectedInv, ElectionSafety',
           NEW H \in SUBSET Seq(LogEntry), Sources(H), NEW m \in net,
           NEW i \in Server, FollowerAppendReq(i, m),
           FollowerAppendsEntries(i, m), RoleStep(i), TermKept(i)
    PROVE  \E G \in SUBSET Seq(LogEntry) : Sources(G)'
<1> DEFINE rest(k) == SubSeq(m.entries, k + 1, Len(m.entries))
<1>1. m \in AppendEntriesReqEvent /\ m.type = "AppendReq"
  BY MessageKinds DEF TypeOK, FollowerAppendReq
<1>2. PICK a \in H : Slice(m, a)
  BY <1>1 DEF Sources
<1>3. PICK k \in 0..Len(m.entries) :
        /\ \A h \in 1..k : Present(log[i], m, h)
        /\ log' = [log EXCEPT ![i] = IF rest(k) = <<>> THEN log[i]
                                     ELSE Spliced(log[i], m, k)]
  BY DEF FollowerAppendsEntries, Spliced
<1>4. /\ log \in [Server -> Seq(LogEntry)] /\ log' \in [Server -> Seq(LogEntry)]
      /\ log[i] \in H
  BY DEF TypeOK, Sources
<1>5. \A x \in net' : x \in net \/ x.type # "AppendReq"
  BY DEF FollowerAppendsEntries, Reply, Transmit, AppendResp
<1>6. CASE rest(k) = <<>>
  <2>1. UNCHANGED log
    BY <1>3, <1>4, <1>6
  <2> QED BY <1>5, <2>1, QuietSources
<1>7. CASE rest(k) # <<>>
  <2>1. PICK l \in Seq(LogEntry) : l = log'[i]
    BY <1>4
  <2>2. l = Spliced(log[i], m, k)
    BY <1>3, <1>4, <1>7, <2>1
  <2>3. Matching(log[i], a) /\ PrevMatches(log[i], m)
    BY <1>4 DEF Sources, FollowerAppendsEntries
  <2>4. Len(l) <= Len(a) /\ \A h \in 1..Len(l) : l[h] = a[h]
    BY <1>1, <1>2, <1>3, <1>4, <2>2, <2>3, SpliceIsPrefix
  <2> HIDE DEF rest
  <2>5. \A c \in H : Matching(c, l) /\ Matching(l, c)
    BY <2>4, PrefixMatches DEF Sources
  <2>6. \A h \in 1..Len(l) : h \in 1..Len(a)
    BY <2>4, LenProperties
  <2>7. \A h \in 1..Len(l) : \E j \in Server : <<j, l[h].term>> \in elected
    BY <2>4, <2>6 DEF Sources
  <2>8. /\ UNCHANGED <<role, elected>> /\ role[i] # LEADER
        /\ \A j \in Server \ {i} : log'[j] = log[j] /\ term'[j] = term[j]
    BY <1>3, <1>4
    DEF FollowerAppendReq, histVars, FOLLOWER, LEADER, TermKept, TypeOK
  <2>9. \A j \in Server : role[j] = LEADER =>
          \A h \in 1..Len(l) : l[h].term = term[j] => h <= Len(log'[j])
    BY <2>4, <2>6, <2>8 DEF Sources
  <2>10. Sources(H \cup {l})'
    BY <1>5, <2>1, <2>5, <2>7, <2>8, <2>9, GrowSources
  <2> QED BY <2>10
<1> QED BY <1>6, <1>7

-----------------------------------------------------------------------------
(* Every step.                                                             *)

LEMMA OtherRoleStep ==
    ASSUME TypeOK, NEW i \in Server,
           \/ FollowerTimeout(i) \/ CandidateTimeout(i) \/ LeaderTimeout(i)
           \/ \E c \in Command : LeaderAppendEvent(i, c)
    PROVE  RoleStep(i) /\ TermKept(i)
<1>1. CASE FollowerTimeout(i) \/ CandidateTimeout(i)
  <2>1. Candidacy(i, term[i] + 1) /\ UNCHANGED elected /\ role[i] # LEADER
    BY <1>1 DEF FollowerTimeout, CandidateTimeout, histVars, FOLLOWER,
                CANDIDATE, LEADER
  <2>2. term[i] \in Nat
    BY DEF TypeOK
  <2>3. term[i] + 1 \in Nat /\ term[i] + 1 >= term[i]
    BY <2>2
  <2> QED BY <2>1, <2>3 DEF Candidacy, RoleStep, TermKept
<1>2. CASE LeaderTimeout(i) \/ \E c \in Command : LeaderAppendEvent(i, c)
  BY <1>2 DEF LeaderTimeout, LeaderAppendEvent, histVars, stateVars, RoleStep,
              TermKept
<1> QED BY <1>1, <1>2

LEMMA ElectedGrows ==
    ASSUME NEW i \in Server, RoleStep(i), ElectionSafety'
    PROVE  ElectionSafety
BY DEF RoleStep, ElectionSafety

LEMMA HandlerSources ==
    ASSUME TypeOK, TypeOK', ElectedInv, ElectionSafety',
           NEW H \in SUBSET Seq(LogEntry), Sources(H), NEW m \in net,
           NEW i \in Server, Handle(i, m), RoleStep(i), TermKept(i)
    PROVE  \E G \in SUBSET Seq(LogEntry) : Sources(G)'
<1>1. CASE FollowerAppendReq(i, m) /\ FollowerAppendsEntries(i, m)
  BY <1>1, FollowerAppendsSources
<1>2. CASE ~(FollowerAppendReq(i, m) /\ FollowerAppendsEntries(i, m))
  <2>1. UNCHANGED log
    BY <1>2
    DEF Handle, FollowerVoteReq, FollowerAppendReq, FollowerStaleAppendReq,
        FollowerHeartbeat, FollowerRejectsEntries, FollowerResp,
        CandidateVoteReq, CandidateVoteResp, CandidateAppendReq,
        CandidateAppendResp, LeaderVoteReq, LeaderVoteResp, LeaderAppendReq,
        LeaderAppendResp, logVars
  <2>2. log[i] \in H /\ log[i] \in Seq(LogEntry)
    BY DEF Sources, TypeOK
  <2>3. \A x \in net' : \/ x \in net
                        \/ x.type = "AppendReq" => \E a \in H : Slice(x, a)
    <3>1. \A j : Slice(Heartbeat(i, j), log[i])
      BY <2>2, HeartbeatSlice
    <3> QED BY <2>2, <3>1, HandlerRequests DEF Quiet
  <2> QED BY <2>1, <2>3, QuietSources
<1> QED BY <1>1, <1>2

LEMMA NextMatch ==
    ASSUME MaxPowerOffs = 0, TypeOK, TypeOK', MatchInv, [Next]_vars
    PROVE  MatchInv'
<1>1. ASSUME NEW m \in net, Handle(m.to, m) PROVE MatchInv'
  <2> DEFINE i == m.to
  <2>1. i \in Server
    BY MessageKinds DEF TypeOK
  <2>2. RoleStep(i) /\ TermKept(i)
    BY <1>1, <2>1, HandlerRoleStep, HandlerTerm
  <2>3. ElectedInv'
    BY <2>1, <2>2, ElectedStep DEF MatchInv
  <2>4. ASSUME ElectionSafety'
        PROVE  \E G \in SUBSET Seq(LogEntry) : Sources(G)'
    <3>1. PICK H \in SUBSET Seq(LogEntry) : Sources(H)
      BY <2>1, <2>2, <2>4, ElectedGrows DEF MatchInv
    <3> QED BY <1>1, <2>1, <2>2, <2>4, <3>1, HandlerSources DEF MatchInv
  <2> QED BY <2>3, <2>4 DEF MatchInv
<1>2. ASSUME NEW i \in Server,
             FollowerTimeout(i) \/ CandidateTimeout(i) \/ LeaderTimeout(i)
      PROVE  MatchInv'
  <2>1. RoleStep(i) /\ TermKept(i)
    BY <1>2, OtherRoleStep
  <2>2. ElectedInv'
    BY <2>1, ElectedStep DEF MatchInv
  <2>3. ASSUME ElectionSafety'
        PROVE  \E G \in SUBSET Seq(LogEntry) : Sources(G)'
    <3>1. PICK H \in SUBSET Seq(LogEntry) : Sources(H)
      BY <2>1, <2>3, ElectedGrows DEF MatchInv
    <3> QED BY <1>2, <2>1, <2>3, <3>1, TimeoutSources DEF MatchInv
  <2> QED BY <2>2, <2>3 DEF MatchInv
<1>3. ASSUME NEW i \in Server, NEW c \in Command, LeaderAppendEvent(i, c)
      PROVE  MatchInv'
  <2>1. RoleStep(i) /\ TermKept(i)
    BY <1>3, OtherRoleStep
  <2>2. ElectedInv'
    BY <2>1, ElectedStep DEF MatchInv
  <2>3. ASSUME ElectionSafety'
        PROVE  \E G \in SUBSET Seq(LogEntry) : Sources(G)'
    <3>1. ElectionSafety
      BY <2>1, <2>3, ElectedGrows
    <3>2. PICK H \in SUBSET Seq(LogEntry) : Sources(H)
      BY <3>1 DEF MatchInv
    <3>3. PICK l \in Seq(LogEntry) : l = log'[i]
      BY DEF TypeOK
    <3>4. Sources(H \cup {l})'
      BY <1>3, <3>1, <3>2, <3>3, LeaderAppendEventSources DEF MatchInv
    <3> QED BY <3>4
  <2> QED BY <2>2, <2>3 DEF MatchInv
<1>4. ASSUME NEW i \in Server PROVE ~Shutdown(i) /\ ~New(i)
  BY DEF Shutdown, New, MatchInv, ElectedInv, TypeOK
<1>5. CASE UNCHANGED vars
  <2>1. UNCHANGED <<role, term, log, net, elected>>
    BY <1>5 DEF vars, stateVars, logVars, histVars
  <2>2. ElectedInv' /\ (ElectionSafety' => ElectionSafety)
    BY <2>1 DEF MatchInv, ElectedInv, ElectionSafety
  <2>3. ASSUME NEW H \in SUBSET Seq(LogEntry), Sources(H) PROVE Sources(H)'
    BY <2>1, <2>3 DEF Sources, Matching, Slice
  <2> QED BY <2>2, <2>3 DEF MatchInv
<1> QED BY <1>1, <1>2, <1>3, <1>4, <1>5 DEF Next

LEMMA InitMatch == Init => MatchInv
<1> SUFFICES ASSUME Init PROVE MatchInv
  OBVIOUS
<1>1. ElectedInv
  BY DEF Init, ForEach, ElectedInv, FOLLOWER, LEADER, POWEROFF
<1>2. Sources({<<>>})
  <2>1. Len(<<>>) = 0
    OBVIOUS
  <2> QED BY <2>1 DEF Init, ForEach, Sources, Matching, FOLLOWER, LEADER
<1>3. {<<>>} \in SUBSET Seq(LogEntry)
  OBVIOUS
<1> QED BY <1>1, <1>2, <1>3 DEF MatchInv

\* Two logs that match have the same prefix up to an entry of equal terms.
LEMMA MatchInvImplies == TypeOK /\ MatchInv => LogMatchingUnderElectionSafety
<1> SUFFICES ASSUME TypeOK, MatchInv, ElectionSafety PROVE LogMatching
  BY DEF LogMatchingUnderElectionSafety
<1>1. PICK H \in SUBSET Seq(LogEntry) : Sources(H)
  BY DEF MatchInv
<1> SUFFICES ASSUME NEW i \in Server, NEW j \in Server,
                    NEW k \in 1..minimum(Len(log[i]), Len(log[j])),
                    log[i][k].term = log[j][k].term
             PROVE  SubSeq(log[i], 1, k) = SubSeq(log[j], 1, k)
  BY DEF LogMatching
<1>2. /\ log[i] \in Seq(LogEntry) /\ Len(log[i]) \in Nat
      /\ log[j] \in Seq(LogEntry) /\ Len(log[j]) \in Nat
  BY LenProperties DEF TypeOK
<1>3. k \in Nat /\ k \in 1..Len(log[i]) /\ k <= Len(log[i]) /\ k <= Len(log[j])
  BY <1>2 DEF minimum
<1>4. \A h \in 1..k : log[i][h] = log[j][h]
  BY <1>1, <1>3 DEF Sources, Matching
<1> DEFINE a == SubSeq(log[i], 1, k)
           c == SubSeq(log[j], 1, k)
<1>5. /\ a \in Seq(LogEntry) /\ Len(a) = k
      /\ \A h \in 1..k : a[h] = log[i][h]
  BY <1>2, <1>3, PrefixEntries
<1>6. /\ c \in Seq(LogEntry) /\ Len(c) = k
      /\ \A h \in 1..k : c[h] = log[j][h]
  BY <1>2, <1>3, PrefixEntries
<1> HIDE DEF a, c
<1>7. a = c
  BY <1>4, <1>5, <1>6, SeqEqual
<1> QED BY <1>7 DEF a, c

\* While no node goes down and every term has had one leader, the check of the
\* preceding entry (follower.go:153, 171) and the cut at the first entry that
\* differs (follower.go:182-195) keep all logs matching.
THEOREM LogsMatch ==
    ASSUME MaxPowerOffs = 0
    PROVE  Spec => []LogMatchingUnderElectionSafety
<1>1. TypeOK /\ TypeOK' /\ MatchInv /\ [Next]_vars => MatchInv'
  BY NextMatch
<1> QED BY <1>1, InitMatch, MatchInvImplies, TypeCorrect, PTL DEF Spec

-----------------------------------------------------------------------------
(* One leader.                                                             *)

\* Sequence l is the beginning of sequence a.
Begins(l, a) == Len(l) <= Len(a) /\ \A k \in 1..Len(l) : l[k] = a[k]

\* No node went down, and one election was won at most.
OneLeader == powerOffs = 0 /\ Cardinality(elected) <= 1

\* Log a is the leader's: all its entries are of its term, all logs begin it
\* and all requests are slices of it.
LeadersLog(a) ==
    /\ a # <<>> => elected # {}
    /\ \A e \in elected :
         log[e[1]] = a /\ \A k \in 1..Len(a) : a[k].term = e[2]
    /\ \A i \in Server : Begins(log[i], a)
    /\ \A m \in net : m.type = "AppendReq" => Slice(m, a)

\* What node i has delivered are the commands at the beginning of its log.
DeliversLog(i) ==
    /\ Len(delivered[i]) = commitIndex[i]
    /\ commitIndex[i] <= Len(log[i])
    /\ \A k \in 1..Len(delivered[i]) : delivered[i][k] = log[i][k].cmd

\* A node that reports entries has them: in a response and in matchIndex.
Reported ==
    /\ \A i, j \in Server : matchIndex[i][j] <= Len(log[j])
    /\ \A m \in net : m.type = "AppendResp" /\ m.success =>
         m.index <= Len(log[m.from])

SoloInv ==
    /\ IsFiniteSet(elected)
    /\ powerOffs = 0 => ElectedInv
    /\ OneLeader =>
         /\ \E a \in Seq(LogEntry) : LeadersLog(a)
         /\ \A i \in Server : DeliversLog(i)
         /\ Reported

LEMMA BeginsTransitive ==
    ASSUME NEW S, NEW a \in Seq(S), NEW b \in Seq(S), NEW c \in Seq(S),
           Begins(a, b), Begins(b, c)
    PROVE  Begins(a, c)
<1>1. Len(a) \in Nat /\ Len(b) \in Nat /\ Len(c) \in Nat
  BY LenProperties
<1> QED BY <1>1 DEF Begins

\* A set of one element at most has no two.
LEMMA AtMostOne ==
    ASSUME NEW S, IsFiniteSet(S), Cardinality(S) <= 1, NEW e \in S, NEW f \in S
    PROVE  e = f
<1> SUFFICES ASSUME e # f PROVE FALSE
  OBVIOUS
<1>1. IsFiniteSet({e}) /\ Cardinality({e}) = 1
  BY FS_Singleton
<1>2. IsFiniteSet({e} \cup {f}) /\ Cardinality({e} \cup {f}) = 2
  <2> DEFINE T == {e}
  <2>1. IsFiniteSet(T) /\ Cardinality(T) = 1 /\ f \notin T
    BY <1>1
  <2> HIDE DEF T
  <2>2. IsFiniteSet(T \cup {f}) /\ Cardinality(T \cup {f}) = 1 + 1
    BY <2>1, FS_AddElement
  <2> QED BY <2>2 DEF T
<1>3. {e} \cup {f} \subseteq S
  OBVIOUS
<1>4. 2 <= Cardinality(S)
  BY <1>2, <1>3, FS_Subset
<1> QED BY <1>4, FS_CardinalityType

-----------------------------------------------------------------------------
(* What the handlers do to logs, commits and reports.                      *)

\* Node i counts n entries as committed and delivers those it had not.
DeliversTo(i, n) ==
    /\ n >= commitIndex[i]
    /\ n > commitIndex[i] => n <= Len(log'[i])
    /\ commitIndex' = [commitIndex EXCEPT ![i] = n]
    /\ \E d \in Seq(Command) :
         /\ delivered' = [delivered EXCEPT ![i] = d]
         /\ Len(d) = Len(delivered[i]) + (n - commitIndex[i])
         /\ \A k \in 1..Len(delivered[i]) : d[k] = delivered[i][k]
         /\ \A k \in 1..(n - commitIndex[i]) :
              d[Len(delivered[i]) + k] = log'[i][commitIndex[i] + k].cmd

\* A step of node i leaves its commits alone or adds to them.
CommitStep(i) == UNCHANGED commitVars \/ \E n \in Nat : DeliversTo(i, n)

LEMMA CommitUpToStep ==
    ASSUME TypeOK, NEW i \in Server, NEW n \in Nat, UNCHANGED log,
           n >= commitIndex[i], n > commitIndex[i] => n <= Len(log[i]),
           CommitUpTo(i, n)
    PROVE  CommitStep(i)
<1> DEFINE c    == commitIndex[i]
           cmds == Commands(log[i], c, n)
           old  == delivered[i]
<1>1. /\ c \in Nat /\ log[i] \in Seq(LogEntry)
      /\ old \in Seq(Command) /\ Len(old) \in Nat
  BY LenProperties DEF TypeOK
<1>2. /\ cmds \in Seq(Command) /\ Len(cmds) = n - c
      /\ \A k \in 1..(n - c) : cmds[k] = log[i][c + k].cmd
  BY <1>1, CommandsType
<1>3. /\ commitIndex' = [commitIndex EXCEPT ![i] = n]
      /\ delivered' = [delivered EXCEPT ![i] = old \o cmds]
  BY DEF CommitUpTo
<1> HIDE DEF old, cmds
<1>4. /\ old \o cmds \in Seq(Command)
      /\ Len(old \o cmds) = Len(old) + Len(cmds)
      /\ \A d \in 1..Len(old) + Len(cmds) :
           (old \o cmds)[d] = IF d <= Len(old) THEN old[d] ELSE cmds[d - Len(old)]
  BY <1>1, <1>2, ConcatProperties
<1> HIDE DEF c
<1>5. \A k \in 1..Len(old) : (old \o cmds)[k] = old[k]
  BY <1>1, <1>2, <1>4
<1>6. ASSUME NEW k \in 1..(n - c)
      PROVE  (old \o cmds)[Len(old) + k] = log[i][c + k].cmd
  <2>1. /\ Len(old) + k \in 1..Len(old) + Len(cmds)
        /\ ~(Len(old) + k <= Len(old)) /\ (Len(old) + k) - Len(old) = k
    BY <1>1, <1>2
  <2> QED BY <1>2, <1>4, <2>1
<1>7. DeliversTo(i, n)
  BY <1>1, <1>2, <1>3, <1>4, <1>5, <1>6 DEF DeliversTo, c, old
<1> QED BY <1>7 DEF CommitStep

\* Two pushes in one step: of log[i]'s commands and of those of the log that
\* extends it.
LEMMA TwoPushes ==
    ASSUME TypeOK, NEW i \in Server, NEW c1 \in Nat, NEW c2 \in Nat,
           log'[i] \in Seq(LogEntry), Begins(log[i], log'[i]),
           c1 >= commitIndex[i], c1 > commitIndex[i] => c1 <= Len(log[i]),
           c2 >= c1, c2 > c1 => c2 <= Len(log'[i]),
           commitIndex' = [commitIndex EXCEPT ![i] = c2],
           delivered' = [delivered EXCEPT ![i] =
             @ \o Commands(log[i], commitIndex[i], c1)
               \o Commands(log'[i], c1, c2)]
    PROVE  CommitStep(i)
<1> DEFINE c   == commitIndex[i]
           one == Commands(log[i], c, c1)
           two == Commands(log'[i], c1, c2)
           old == delivered[i]
           d   == (old \o one) \o two
<1>1. /\ c \in Nat /\ log[i] \in Seq(LogEntry)
      /\ old \in Seq(Command) /\ Len(old) \in Nat
      /\ Len(log[i]) \in Nat /\ Len(log'[i]) \in Nat
  BY LenProperties DEF TypeOK
<1>2. /\ one \in Seq(Command) /\ Len(one) = c1 - c
      /\ \A k \in 1..(c1 - c) : one[k] = log[i][c + k].cmd
  BY <1>1, CommandsType
<1>3. /\ two \in Seq(Command) /\ Len(two) = c2 - c1
      /\ \A k \in 1..(c2 - c1) : two[k] = log'[i][c1 + k].cmd
  BY <1>1, CommandsType
<1>4. delivered' = [delivered EXCEPT ![i] = d]
  BY DEF TypeOK
<1> HIDE DEF one, two, old
<1> DEFINE b == old \o one
<1>5. /\ b \in Seq(Command) /\ Len(b) = Len(old) + Len(one)
      /\ \A k \in 1..Len(old) + Len(one) :
           b[k] = IF k <= Len(old) THEN old[k] ELSE one[k - Len(old)]
  BY <1>1, <1>2, ConcatProperties
<1> HIDE DEF b
<1>6. /\ d \in Seq(Command) /\ Len(d) = Len(b) + Len(two)
      /\ \A k \in 1..Len(b) + Len(two) :
           d[k] = IF k <= Len(b) THEN b[k] ELSE two[k - Len(b)]
  BY <1>3, <1>5, ConcatProperties DEF b
<1> HIDE DEF d
<1>11. c \in Nat /\ c1 \in Nat /\ c2 \in Nat /\ c <= c1 /\ c1 <= c2
  BY <1>1
<1>12. /\ Len(one) = c1 - c /\ Len(two) = c2 - c1 /\ Len(old) \in Nat
       /\ Len(b) = Len(old) + (c1 - c)
       /\ Len(d) = Len(b) + (c2 - c1)
  BY <1>1, <1>2, <1>3, <1>5, <1>6
<1>13. c1 > c => c1 <= Len(log[i])
  OBVIOUS
<1> HIDE DEF c
<1>7. Len(d) = Len(old) + (c2 - c) /\ c2 >= c
  BY <1>11, <1>12
<1>8. ASSUME NEW k \in 1..Len(old) PROVE d[k] = old[k]
  <2>1. k \in 1..Len(old) + Len(one) /\ k <= Len(b) /\ k \in 1..Len(b) + Len(two)
    BY <1>11, <1>12
  <2> QED BY <1>5, <1>6, <2>1
<1>9. ASSUME NEW k \in 1..(c2 - c)
      PROVE  d[Len(old) + k] = log'[i][c + k].cmd
  <2>1. CASE k <= c1 - c
    <3>1. /\ k \in 1..(c1 - c) /\ Len(old) + k \in 1..Len(old) + Len(one)
          /\ ~(Len(old) + k <= Len(old)) /\ (Len(old) + k) - Len(old) = k
          /\ Len(old) + k <= Len(b) /\ Len(old) + k \in 1..Len(b) + Len(two)
      BY <1>11, <1>12, <2>1
    <3>2. d[Len(old) + k] = one[k]
      BY <1>5, <1>6, <3>1
    <3>3. c + k \in 1..Len(log[i])
      BY <1>1, <1>11, <1>13, <3>1
    <3> QED BY <1>2, <3>1, <3>2, <3>3 DEF Begins
  <2>2. CASE k > c1 - c
    <3> DEFINE h == k - (c1 - c)
    <3>1. /\ h \in 1..(c2 - c1) /\ c1 + h = c + k
          /\ Len(old) + k \in 1..Len(b) + Len(two)
          /\ ~(Len(old) + k <= Len(b)) /\ (Len(old) + k) - Len(b) = h
      BY <1>11, <1>12, <2>2
    <3>2. d[Len(old) + k] = two[h]
      BY <1>6, <3>1
    <3> QED BY <1>3, <3>1, <3>2
  <2> QED BY <1>11, <2>1, <2>2
<1>10. DeliversTo(i, c2)
  <2>1. c2 > c => c2 <= Len(log'[i])
    BY <1>1 DEF Begins, c
  <2> QED BY <1>4, <1>6, <1>7, <1>8, <1>9, <2>1 DEF DeliversTo, c, old
<1> QED BY <1>10 DEF CommitStep

LEMMA FollowerAppendReqCommits ==
    ASSUME TypeOK, NEW m \in net, NEW i \in Server, FollowerAppendReq(i, m),
           log'[i] \in Seq(LogEntry), Begins(log[i], log'[i])
    PROVE  CommitStep(i)
<1>1. /\ m.commit \in Nat /\ log[i] \in Seq(LogEntry) /\ commitIndex[i] \in Nat
  BY MessageKinds DEF TypeOK, FollowerAppendReq, AppendEntriesReqEvent
<1>2. CASE FollowerStaleAppendReq(i, m)
  BY <1>2 DEF FollowerStaleAppendReq, CommitStep
<1>3. CASE FollowerHeartbeat(i, m) \/ FollowerRejectsEntries(i, m)
  <2>1. /\ CommitUpTo(i, FollowCommit(log[i], commitIndex[i], m.commit))
        /\ UNCHANGED log
    BY <1>3 DEF FollowerHeartbeat, FollowerRejectsEntries, logVars
  <2> QED BY <1>1, <2>1, FollowCommitType, CommitUpToStep
<1>4. CASE FollowerAppendsEntries(i, m)
  <2> DEFINE c1 == FollowCommit(log[i], commitIndex[i], m.commit)
             c2 == FollowCommit(log'[i], c1, m.commit)
  <2>1. /\ c1 \in Nat /\ c1 >= commitIndex[i]
        /\ c1 > commitIndex[i] => c1 <= Len(log[i])
    BY <1>1, FollowCommitType
  <2>2. /\ c2 \in Nat /\ c2 >= c1
        /\ c2 > c1 => c2 <= Len(log'[i])
    BY <1>1, <2>1, FollowCommitType
  <2>3. /\ commitIndex' = [commitIndex EXCEPT ![i] = c2]
        /\ delivered' = [delivered EXCEPT ![i] =
             @ \o Commands(log[i], commitIndex[i], c1)
               \o Commands(log'[i], c1, c2)]
    <3>1. PICK l : /\ log' = [log EXCEPT ![i] = l]
                   /\ commitIndex' = [commitIndex EXCEPT ![i] =
                                        FollowCommit(l, c1, m.commit)]
                   /\ delivered' = [delivered EXCEPT ![i] =
                        @ \o Commands(log[i], commitIndex[i], c1)
                          \o Commands(l, c1, FollowCommit(l, c1, m.commit))]
      BY <1>4 DEF FollowerAppendsEntries
    <3>2. log'[i] = l
      BY <3>1 DEF TypeOK
    <3> QED BY <3>1, <3>2
  <2> HIDE DEF c1, c2
  <2> QED BY <2>1, <2>2, <2>3, TwoPushes
<1> QED BY <1>2, <1>3, <1>4 DEF FollowerAppendReq

LEMMA LeaderAppendRespCommits ==
    ASSUME TypeOK, NEW m \in net, NEW i \in Server, LeaderAppendResp(i, m)
    PROVE  CommitStep(i)
<1>1. UNCHANGED log
  BY DEF LeaderAppendResp, logVars
<1>2. CASE UNCHANGED commitVars
  BY <1>2 DEF CommitStep
<1>3. CASE ~UNCHANGED commitVars
  <2> DEFINE match == [matchIndex[i] EXCEPT ![m.from] = m.index]
  <2>1. PICK n \in Committable(i, match) :
          /\ \A k \in Committable(i, match) : k <= n
          /\ CommitUpTo(i, n)
    BY <1>3 DEF LeaderAppendResp, LeaderFailedResp, LeaderSuccessResp
  <2> HIDE DEF match
  <2>2. commitIndex[i] \in Nat /\ Len(log[i]) \in Nat
    BY LenProperties DEF TypeOK
  <2>3. commitIndex[i] \in Committable(i, match)
    BY DEF Committable
  <2>4. n = commitIndex[i] \/ n \in 1..Len(log[i])
    BY <2>1 DEF Committable
  <2>5. /\ n \in Nat /\ n >= commitIndex[i]
        /\ n > commitIndex[i] => n <= Len(log[i])
    BY <2>1, <2>2, <2>3, <2>4
  <2> QED BY <1>1, <2>1, <2>5, CommitUpToStep
<1> QED BY <1>2, <1>3

LEMMA HandlerCommits ==
    ASSUME TypeOK, NEW m \in net, NEW i \in Server, Handle(i, m),
           log'[i] \in Seq(LogEntry), Begins(log[i], log'[i])
    PROVE  CommitStep(i)
<1>1. CASE FollowerAppendReq(i, m)
  BY <1>1, FollowerAppendReqCommits
<1>2. CASE LeaderAppendResp(i, m)
  BY <1>2, LeaderAppendRespCommits
<1>3. CASE ~FollowerAppendReq(i, m) /\ ~LeaderAppendResp(i, m)
  BY <1>3
  DEF Handle, FollowerVoteReq, FollowerResp, CandidateVoteReq,
      CandidateVoteResp, CandidateAppendReq, CandidateAppendResp,
      LeaderVoteReq, LeaderVoteResp, LeaderAppendReq, CommitStep
<1> QED BY <1>1, <1>2, <1>3

\* Message x reports no entries, or those of node i's log after the step.
Reports(i, x) ==
    x.type = "AppendResp" /\ x.success => x.from = i /\ x.index = Len(log'[i])

\* A handler that accepts a request answers with the length of its log.
LEMMA HandlerReports ==
    ASSUME TypeOK, NEW m \in net, NEW i \in Server, Handle(i, m)
    PROVE  \A x \in net' : x \in net \/ Reports(i, x)
<1>1. ASSUME NEW received, NEW sent, Transmit(received, sent),
             \A r \in sent : Reports(i, r)
      PROVE  \A x \in net' : x \in net \/ Reports(i, x)
  BY <1>1 DEF Transmit
<1>2. ASSUME NEW r, Reply(m, r), Reports(i, r)
      PROVE  \A x \in net' : x \in net \/ Reports(i, x)
  BY <1>1, <1>2 DEF Reply
<1>3. ASSUME Consume(m) PROVE \A x \in net' : x \in net \/ Reports(i, x)
  BY <1>1, <1>3 DEF Consume
<1>4. \A id, t, g : Reports(i, VoteResp(id, m, t, g))
  BY DEF Reports, VoteResp
<1>5. \A t, n : Reports(i, AppendResp(i, m, t, FALSE, n))
  BY DEF Reports, AppendResp
<1>6. \A t : Reports(i, AppendResp(i, m, t, TRUE, Len(log'[i])))
  BY DEF Reports, AppendResp
<1>7. CASE FollowerVoteReq(i, m) \/ CandidateVoteReq(i, m) \/ LeaderVoteReq(i, m)
  <2>1. \E id, t, g : Reply(m, VoteResp(id, m, t, g))
    <3>1. CASE FollowerVoteReq(i, m)
      BY <3>1 DEF FollowerVoteReq, FollowerStaleVoteReq, FollowerGrantsVote,
                  FollowerRejectsLog, FollowerAlreadyVoted
    <3>2. CASE CandidateVoteReq(i, m)
      BY <3>2 DEF CandidateVoteReq
    <3>3. CASE LeaderVoteReq(i, m)
      BY <3>3 DEF LeaderVoteReq
    <3> QED BY <1>7, <3>1, <3>2, <3>3
  <2> QED BY <1>2, <1>4, <2>1
<1>8. CASE FollowerAppendReq(i, m)
  <2>1. CASE FollowerStaleAppendReq(i, m) \/ FollowerRejectsEntries(i, m)
    <3>1. \E t, n : Reply(m, AppendResp(i, m, t, FALSE, n))
      BY <2>1 DEF FollowerStaleAppendReq, FollowerRejectsEntries
    <3> QED BY <1>2, <1>5, <3>1
  <2>2. CASE FollowerHeartbeat(i, m)
    <3>1. Reply(m, AppendResp(i, m, m.term, TRUE, Len(log'[i])))
      BY <2>2 DEF FollowerHeartbeat, logVars
    <3> QED BY <1>2, <1>6, <3>1
  <2>3. CASE FollowerAppendsEntries(i, m)
    <3>1. PICK l : /\ log' = [log EXCEPT ![i] = l]
                   /\ Reply(m, AppendResp(i, m, m.term, TRUE, Len(l)))
      BY <2>3 DEF FollowerAppendsEntries
    <3>2. log'[i] = l
      BY <3>1 DEF TypeOK
    <3> QED BY <1>2, <1>6, <3>1, <3>2
  <2> QED BY <1>8, <2>1, <2>2, <2>3 DEF FollowerAppendReq
<1>9. CASE LeaderAppendReq(i, m)
  <2>1. \E t, n : Reply(m, AppendResp(i, m, t, FALSE, n))
    BY <1>9 DEF LeaderAppendReq
  <2> QED BY <1>2, <1>5, <2>1
<1>10. CASE CandidateAppendReq(i, m)
  <2> DEFINE ok == AppendResp(i, m, m.term, TRUE, Len(log[i]))
             failed == AppendResp(i, m, term[i], FALSE, Len(log[i]))
  <2>1. Transmit({m}, {ok}) \/ Transmit({m}, {}) \/ Transmit({m}, {failed})
    BY <1>10 DEF CandidateAppendReq, Reply
  <2>2. UNCHANGED log
    BY <1>10 DEF CandidateAppendReq, logVars
  <2>3. Reports(i, ok) /\ Reports(i, failed)
    BY <1>5, <1>6, <2>2
  <2> HIDE DEF ok, failed
  <2> QED BY <1>1, <2>1, <2>3
<1>11. CASE FollowerResp(i, m) \/ CandidateAppendResp(i, m)
             \/ LeaderVoteResp(i, m) \/ LeaderAppendResp(i, m)
  BY <1>3, <1>11
  DEF FollowerResp, CandidateAppendResp, LeaderVoteResp, LeaderAppendResp
<1>12. CASE CandidateVoteResp(i, m)
  <2> DEFINE sent == {Heartbeat(i, j) : j \in Server \ {i}}
  <2>1. Consume(m) \/ Transmit({m}, sent)
    BY <1>12 DEF CandidateVoteResp, CandidateOutdated, CandidateWins,
                CandidateLoses, CandidateKeepsWaiting, Leadership
  <2>2. \A r \in sent : Reports(i, r)
    BY DEF Reports, Heartbeat
  <2> HIDE DEF sent
  <2> QED BY <1>1, <1>3, <2>1, <2>2
<1> QED BY <1>7, <1>8, <1>9, <1>10, <1>11, <1>12 DEF Handle

\* matchIndex is reset, kept or set to what its node reported.
MatchStep(i) ==
    \A a, j \in Server :
        \/ matchIndex'[a][j] \in {0, matchIndex[a][j]}
        \/ \E m \in net : /\ m.type = "AppendResp" /\ m.success /\ m.from = j
                          /\ matchIndex'[a][j] = m.index

LEMMA HandlerMatch ==
    ASSUME TypeOK, NEW m \in net, NEW i \in Server, Handle(i, m)
    PROVE  MatchStep(i)
<1>1. matchIndex \in [Server -> [Server -> Nat]]
  BY DEF TypeOK
<1>2. CASE UNCHANGED matchIndex
  BY <1>2 DEF MatchStep
<1>3. CASE matchIndex' = [matchIndex EXCEPT ![i] = ForEach(0)]
  BY <1>1, <1>3 DEF MatchStep, ForEach
<1>4. CASE FollowerVoteReq(i, m) \/ FollowerAppendReq(i, m) \/ FollowerResp(i, m)
             \/ CandidateVoteReq(i, m) \/ CandidateAppendReq(i, m)
             \/ CandidateAppendResp(i, m)
  BY <1>2, <1>4 DEF FollowerVoteReq, FollowerAppendReq, FollowerResp,
     CandidateVoteReq, CandidateAppendReq, CandidateAppendResp, leaderVars
<1>5. CASE CandidateVoteResp(i, m)
  BY <1>2, <1>3, <1>5
  DEF CandidateVoteResp, CandidateOutdated, CandidateWins, CandidateLoses,
      CandidateKeepsWaiting, Leadership, leaderVars
<1>6. CASE LeaderVoteReq(i, m) \/ LeaderVoteResp(i, m) \/ LeaderAppendReq(i, m)
  BY <1>2, <1>3, <1>6
  DEF LeaderVoteReq, LeaderVoteResp, LeaderAppendReq, StepDown,
      DropLeaderLocals, leaderVars
<1>7. CASE LeaderAppendResp(i, m)
  <2>1. CASE LeaderFailedResp(i, m)
    BY <1>2, <1>3, <2>1 DEF LeaderFailedResp, StepDown, DropLeaderLocals
  <2>2. CASE LeaderSuccessResp(i, m)
    <3>1. CASE m.index = 0
      BY <1>2, <2>2, <3>1 DEF LeaderSuccessResp
    <3>2. CASE m.index # 0
      <4>1. /\ m.type = "AppendResp" /\ m.success
            /\ matchIndex' = [matchIndex EXCEPT ![i] =
                                [matchIndex[i] EXCEPT ![m.from] = m.index]]
        BY <1>7, <2>2, <3>2 DEF LeaderAppendResp, LeaderSuccessResp
      <4> QED BY <1>1, <4>1 DEF MatchStep
    <3> QED BY <3>1, <3>2
  <2> QED BY <1>7, <2>1, <2>2 DEF LeaderAppendResp
<1> QED BY <1>4, <1>5, <1>6, <1>7 DEF Handle

LEMMA ReportedStep ==
    ASSUME TypeOK, TypeOK', Reported, NEW i \in Server, MatchStep(i),
           \A j \in Server : Begins(log[j], log'[j]),
           \A x \in net' : x \in net \/ Reports(i, x)
    PROVE  Reported'
<1>1. \A j \in Server : /\ Len(log[j]) \in Nat /\ Len(log'[j]) \in Nat
                        /\ Len(log[j]) <= Len(log'[j])
  BY LenProperties DEF TypeOK, Begins
<1>2. \A m \in net : m.type = "AppendResp" =>
        m.from \in Server /\ m.index \in Nat
  BY MessageKinds DEF TypeOK, AppendEntriesRespEvent
<1>3. ASSUME NEW a \in Server, NEW j \in Server
      PROVE  matchIndex'[a][j] <= Len(log'[j])
  <2>1. matchIndex[a][j] \in Nat
    BY DEF TypeOK
  <2>2. matchIndex'[a][j] \in Nat /\ matchIndex'[a][j] <= Len(log[j])
    BY <1>1, <1>2, <2>1 DEF MatchStep, Reported
  <2> QED BY <1>1, <2>2
<1>4. ASSUME NEW m \in net', m.type = "AppendResp", m.success
      PROVE  m.index <= Len(log'[m.from])
  <2>1. CASE m \in net
    <3>1. m.index <= Len(log[m.from])
      BY <1>4, <2>1 DEF Reported
    <3> QED BY <1>1, <1>2, <1>4, <2>1, <3>1
  <2>2. CASE Reports(i, m)
    BY <1>1, <1>4, <2>2 DEF Reports
  <2> QED BY <2>1, <2>2
<1> QED BY <1>3, <1>4 DEF Reported

LEMMA DeliversStep ==
    ASSUME TypeOK, TypeOK', NEW i \in Server, CommitStep(i),
           NEW j \in Server, Begins(log[j], log'[j]), DeliversLog(j)
    PROVE  DeliversLog(j)'
<1>1. /\ Len(log[j]) \in Nat /\ Len(log'[j]) \in Nat
      /\ commitIndex[j] \in Nat /\ Len(delivered[j]) \in Nat
      /\ Len(log[j]) <= Len(log'[j])
      /\ \A k \in 1..Len(log[j]) : log'[j][k] = log[j][k]
  BY LenProperties DEF TypeOK, Begins
<1>2. \A k \in 1..Len(delivered[j]) : k \in 1..Len(log[j])
  BY <1>1 DEF DeliversLog
<1>3. CASE commitIndex'[j] = commitIndex[j] /\ delivered'[j] = delivered[j]
  BY <1>1, <1>2, <1>3 DEF DeliversLog
<1>4. CASE j # i \/ UNCHANGED commitVars
  BY <1>3, <1>4 DEF CommitStep, DeliversTo, TypeOK, commitVars
<1>5. CASE j = i /\ ~UNCHANGED commitVars
  <2>1. PICK n \in Nat : DeliversTo(i, n)
    BY <1>5 DEF CommitStep
  <2> DEFINE c == commitIndex[i]
             d == delivered'[i]
  <2>2. /\ n >= c /\ (n > c => n <= Len(log'[i])) /\ commitIndex'[i] = n
        /\ Len(d) = Len(delivered[i]) + (n - c)
        /\ \A k \in 1..Len(delivered[i]) : d[k] = delivered[i][k]
        /\ \A k \in 1..(n - c) :
              d[Len(delivered[i]) + k] = log'[i][c + k].cmd
    BY <2>1 DEF DeliversTo, TypeOK
  <2>3. Len(delivered[i]) = c /\ c <= Len(log[i]) /\ c \in Nat
    BY <1>1, <1>5 DEF DeliversLog
  <2> HIDE DEF d, c
  <2>4. Len(d) = n /\ n <= Len(log'[i])
    BY <1>1, <1>5, <2>2, <2>3
  <2>5. ASSUME NEW k \in 1..Len(d) PROVE d[k] = log'[i][k].cmd
    <3>1. CASE k <= c
      <4>1. k \in 1..Len(delivered[i]) /\ k \in 1..Len(log[i])
        BY <1>2, <1>5, <2>3, <3>1
      <4> QED BY <1>1, <1>5, <2>2, <4>1 DEF DeliversLog
    <3>2. CASE k > c
      <4>1. k - c \in 1..(n - c) /\ c + (k - c) = k
        BY <2>3, <2>4, <3>2
      <4> QED BY <2>2, <2>3, <4>1
    <3> QED BY <2>3, <2>4, <3>1, <3>2
  <2> QED BY <1>5, <2>2, <2>4, <2>5 DEF DeliversLog, d
<1> QED BY <1>4, <1>5

\* Who wins the only election finds nothing in its log.
LEMMA FirstElection ==
    ASSUME ElectedInv, NEW i \in Server, role[i] = CANDIDATE, term[i] \in Nat,
           elected' = elected \cup {<<i, term[i]>>},
           IsFiniteSet(elected)', Cardinality(elected') <= 1
    PROVE  elected = {}
<1> SUFFICES ASSUME NEW e \in elected PROVE FALSE
  OBVIOUS
<1>1. e \in elected' /\ <<i, term[i]>> \in elected'
  OBVIOUS
<1>2. e = <<i, term[i]>>
  <2>1. \A f, g \in elected' : f = g
    BY AtMostOne
  <2> QED BY <1>1, <2>1
<1> QED BY <1>2 DEF ElectedInv, CANDIDATE, LEADER

\* A step that touches no log and sends slices of the leader's.
LEMMA QuietLeadersLog ==
    ASSUME TypeOK, TypeOK', ElectedInv, NEW a \in Seq(LogEntry), LeadersLog(a),
           NEW i \in Server, UNCHANGED log, RoleStep(i),
           IsFiniteSet(elected)', Cardinality(elected') <= 1,
           \A x \in net' : x \in net \/ (x.type = "AppendReq" => Slice(x, a))
    PROVE  LeadersLog(a)'
<1>1. \A x \in net' : x.type = "AppendReq" => Slice(x, a)
  BY DEF LeadersLog
<1>2. CASE UNCHANGED elected
  BY <1>1, <1>2 DEF LeadersLog, Begins, Slice
<1>3. CASE ~UNCHANGED elected
  <2>1. role[i] = CANDIDATE /\ elected' = elected \cup {<<i, term[i]>>}
    BY <1>3 DEF RoleStep
  <2>2. elected = {}
    BY <2>1, FirstElection DEF TypeOK
  <2>3. a = <<>> /\ Len(a) = 0
    BY <2>2 DEF LeadersLog
  <2>4. log[i] = <<>>
    <3>1. log[i] \in Seq(LogEntry) /\ Len(log[i]) \in Nat /\ Len(log[i]) <= 0
      BY <2>3, LenProperties DEF TypeOK, LeadersLog, Begins
    <3>2. Len(log[i]) = 0
      BY <3>1
    <3> QED BY <3>1, <3>2, EmptySeq
  <2>5. elected' = {<<i, term[i]>>}
    BY <2>1, <2>2
  <2> QED BY <1>1, <2>3, <2>4, <2>5 DEF LeadersLog, Begins, Slice
<1> QED BY <1>2, <1>3

\* The leader's log grows by what it appends.
LEMMA LeaderAppendEventLeadersLog ==
    ASSUME TypeOK, TypeOK', ElectedInv, NEW a \in Seq(LogEntry), LeadersLog(a),
           NEW i \in Server, NEW c \in Command, LeaderAppendEvent(i, c),
           IsFiniteSet(elected), Cardinality(elected) <= 1
    PROVE  /\ \A j \in Server : Begins(log[j], log'[j])
           /\ \E l \in Seq(LogEntry) : LeadersLog(l)'
<1> DEFINE entry == [term |-> term[i], cmd |-> c]
           e == <<i, term[i]>>
<1>1. /\ UNCHANGED <<role, elected, net>> /\ role[i] = LEADER
      /\ \A j \in Server \ {i} : log'[j] = log[j]
      /\ log'[i] = Append(log[i], entry)
  BY DEF LeaderAppendEvent, TypeOK
<1>2. e \in elected /\ \A f \in elected : f = e
  <2>1. e \in elected
    BY <1>1 DEF ElectedInv
  <2> QED BY <2>1, AtMostOne
<1>3. log[i] = a
  BY <1>2 DEF LeadersLog
<1>4. /\ entry \in LogEntry /\ a \in Seq(LogEntry) /\ Len(a) \in Nat
      /\ entry.term = term[i]
  BY LenProperties DEF TypeOK, LogEntry
<1>5. PICK l \in Seq(LogEntry) : l = log'[i]
  BY DEF TypeOK
<1>6. /\ Len(l) = Len(a) + 1 /\ \A k \in 1..Len(a) : l[k] = a[k]
      /\ l[Len(a) + 1] = entry
  BY <1>1, <1>3, <1>4, <1>5, AppendProperties
<1> HIDE DEF entry
<1>7. Begins(a, l) /\ Begins(l, l)
  BY <1>4, <1>6 DEF Begins
<1>8. \A j \in Server : log[j] \in Seq(LogEntry) /\ Begins(log[j], a)
  BY DEF TypeOK, LeadersLog
<1>9. \A j \in Server : Begins(log[j], l)
  BY <1>7, <1>8, BeginsTransitive
<1>10. \A j \in Server : Begins(log[j], log'[j])
  <2>1. \A j \in Server : Begins(log[j], log[j])
    BY <1>8, LenProperties DEF Begins
  <2> QED BY <1>1, <1>3, <1>5, <1>7, <2>1
<1>11. \A j \in Server : Begins(log'[j], l)
  BY <1>1, <1>5, <1>7, <1>9
<1>12. \A k \in 1..Len(l) : l[k].term = term[i]
  <2>1. \A k \in 1..Len(a) : a[k].term = term[i]
    BY <1>2 DEF LeadersLog
  <2>2. \A k \in 1..Len(l) : k \in 1..Len(a) \/ k = Len(a) + 1
    BY <1>4, <1>6
  <2> QED BY <1>4, <1>6, <2>1, <2>2
<1>13. \A m \in net : m.type = "AppendReq" => Slice(m, l)
  <2> SUFFICES ASSUME NEW m \in net, m.type = "AppendReq" PROVE Slice(m, l)
    OBVIOUS
  <2>1. m.prevIndex \in Nat /\ Len(m.entries) \in Nat
    <3>1. m \in AppendEntriesReqEvent
      BY MessageKinds DEF TypeOK
    <3> QED BY <3>1, LenProperties DEF AppendEntriesReqEvent
  <2>2. Slice(m, a)
    BY DEF LeadersLog
  <2>3. /\ m.prevIndex + Len(m.entries) <= Len(a)
        /\ \A k \in 1..Len(m.entries) : m.entries[k] = a[m.prevIndex + k]
        /\ m.prevIndex > 0 => a[m.prevIndex].term = m.prevTerm
    BY <2>2 DEF Slice
  <2>4. \A k \in 1..Len(m.entries) : m.prevIndex + k \in 1..Len(a)
    BY <1>4, <2>1, <2>3
  <2>5. m.prevIndex > 0 => m.prevIndex \in 1..Len(a)
    BY <1>4, <2>1, <2>3
  <2>6. m.prevIndex + Len(m.entries) <= Len(l)
    BY <1>4, <1>6, <2>1, <2>3
  <2> QED BY <1>6, <2>3, <2>4, <2>5, <2>6 DEF Slice
<1>14. LeadersLog(l)'
  <2>1. elected' # {}
    BY <1>1, <1>2
  <2>2. \A f \in elected' : log'[f[1]] = l /\ \A k \in 1..Len(l) : l[k].term = f[2]
    BY <1>1, <1>2, <1>5, <1>12
  <2>3. (\A j \in Server : Begins(log[j], l))'
    BY <1>11 DEF Begins
  <2>4. (\A m \in net : m.type = "AppendReq" => Slice(m, l))'
    BY <1>1, <1>13 DEF Slice
  <2> QED BY <2>1, <2>2, <2>3, <2>4 DEF LeadersLog
<1> QED BY <1>10, <1>14

\* A follower's log only gets longer: what it has of the request is the
\* leader's, of the leader's term, so nothing is cut.
LEMMA FollowerAppendsLeadersLog ==
    ASSUME TypeOK, TypeOK', NEW a \in Seq(LogEntry), LeadersLog(a),
           NEW m \in net, NEW i \in Server, FollowerAppendReq(i, m),
           FollowerAppendsEntries(i, m)
    PROVE  /\ \A j \in Server : Begins(log[j], log'[j])
           /\ LeadersLog(a)'
<1> DEFINE es      == m.entries
           p       == m.prevIndex
           rest(k) == SubSeq(m.entries, k + 1, Len(m.entries))
<1>1. m \in AppendEntriesReqEvent /\ m.type = "AppendReq"
  BY MessageKinds DEF TypeOK, FollowerAppendReq
<1>2. /\ p \in Nat /\ es \in Seq(LogEntry) /\ Len(es) \in Nat
      /\ log[i] \in Seq(LogEntry) /\ Len(log[i]) \in Nat /\ Len(a) \in Nat
      /\ log \in [Server -> Seq(LogEntry)]
  BY <1>1, LenProperties DEF AppendEntriesReqEvent, TypeOK
<1>3. Slice(m, a) /\ Begins(log[i], a)
  BY <1>1 DEF LeadersLog
<1>4. PICK k \in 0..Len(m.entries) :
        /\ \A h \in 1..k : Present(log[i], m, h)
        /\ k < Len(m.entries) => ~Present(log[i], m, k + 1)
        /\ log' = [log EXCEPT ![i] = IF rest(k) = <<>> THEN log[i]
                                     ELSE Spliced(log[i], m, k)]
  BY DEF FollowerAppendsEntries, Spliced
<1>5. k \in Nat /\ k <= Len(es) /\ p + k <= Len(log[i])
  <2>1. CASE k = 0
    BY <1>2, <2>1 DEF FollowerAppendsEntries, PrevMatches
  <2>2. CASE k # 0
    <3>1. k \in 1..k
      BY <1>2, <2>2
    <3> QED BY <1>2, <1>4, <3>1 DEF Present
  <2> QED BY <2>1, <2>2
<1>6. \A j \in Server : Begins(log[j], log[j])
  BY LenProperties DEF TypeOK, Begins
<1>7. UNCHANGED elected
  BY DEF FollowerAppendReq, histVars
<1>8. \A x \in net' : x.type = "AppendReq" => x \in net
  BY DEF FollowerAppendsEntries, Reply, Transmit, AppendResp
<1>9. CASE rest(k) = <<>>
  <2>1. UNCHANGED log
    BY <1>2, <1>4, <1>9
  <2> QED BY <1>6, <1>7, <1>8, <2>1 DEF LeadersLog, Begins, Slice
<1>10. CASE rest(k) # <<>>
  <2> DEFINE l == Spliced(log[i], m, k)
  <2>1. /\ log' = [log EXCEPT ![i] = l] /\ log'[i] = l
        /\ \A j \in Server \ {i} : log'[j] = log[j]
    BY <1>2, <1>4, <1>10
  <2>2. l \in Seq(LogEntry)
    BY <2>1 DEF TypeOK
  <2>3. k < Len(es)
    <3>1. k # Len(es)
      <4>1. rest(Len(es)) = <<>>
        <5>1. Len(es) + 1 > Len(es) /\ Len(es) \in Int /\ Len(es) + 1 \in Int
          BY <1>2
        <5> QED BY <1>2, <5>1, SubSeqEmpty
      <4> QED BY <1>10, <4>1
    <3> QED BY <1>2, <1>5, <3>1
  <2>4. p + k = Len(log[i])
    <3> SUFFICES ASSUME p + k < Len(log[i]) PROVE FALSE
      BY <1>2, <1>5
    <3>1. /\ p + (k + 1) \in 1..Len(log[i]) /\ k + 1 \in 1..Len(es)
          /\ p + (k + 1) \in 1..Len(a)
      BY <1>2, <1>3, <1>5, <2>3 DEF Slice
    <3>2. /\ log[i][p + (k + 1)] = a[p + (k + 1)]
          /\ es[k + 1] = a[p + (k + 1)]
      BY <1>3, <3>1 DEF Begins, Slice
    <3>3. Present(log[i], m, k + 1)
      BY <3>1, <3>2 DEF Present
    <3> QED BY <1>4, <2>3, <3>3
  <2>5. Matching(log[i], a) /\ PrevMatches(log[i], m)
    <3>1. Matching(log[i], a)
      BY <1>2, <1>3 DEF Matching, Begins
    <3> QED BY <3>1 DEF FollowerAppendsEntries
  <2>6. Begins(l, a)
    BY <1>1, <1>2, <1>3, <1>4, <2>5, SpliceIsPrefix DEF Begins
  <2>7. Len(l) = p + Len(es)
    BY <1>2, <1>5, SplicedLog DEF Spliced
  <2> HIDE DEF l
  <2>8. Begins(log[i], l)
    <3>1. Len(log[i]) <= Len(l)
      BY <1>2, <1>5, <2>3, <2>4, <2>7
    <3>2. \A h \in 1..Len(log[i]) : h \in 1..Len(l)
      BY <1>2, <2>2, <3>1, LenProperties
    <3> QED BY <1>3, <2>6, <3>1, <3>2 DEF Begins
  <2>9. \A f \in elected : log'[f[1]] = a
    <3> SUFFICES ASSUME NEW f \in elected PROVE log'[f[1]] = a
      OBVIOUS
    <3>1. log[f[1]] = a
      BY DEF LeadersLog
    <3>2. f[1] # i
      BY <1>2, <1>3, <2>3, <2>4, <3>1 DEF Slice
    <3>3. f[1] \in Server
      BY DEF TypeOK
    <3> QED BY <2>1, <3>1, <3>2, <3>3
  <2>10. \A j \in Server : Begins(log'[j], a)
    BY <2>1, <2>6 DEF LeadersLog
  <2>11. LeadersLog(a)'
    <3>1. (\A j \in Server : Begins(log[j], a))'
      BY <2>10 DEF Begins
    <3>2. (\A x \in net : x.type = "AppendReq" => Slice(x, a))'
      BY <1>8 DEF LeadersLog, Slice
    <3> QED BY <1>7, <2>9, <3>1, <3>2 DEF LeadersLog
  <2> QED BY <1>6, <2>1, <2>8, <2>11
<1> QED BY <1>9, <1>10

-----------------------------------------------------------------------------
(* Every step of a cluster with one leader.                                *)

LEMMA HandlerSolo ==
    ASSUME TypeOK, TypeOK', ElectedInv, NEW a \in Seq(LogEntry), LeadersLog(a),
           \A j \in Server : DeliversLog(j), Reported,
           NEW m \in net, NEW i \in Server, Handle(i, m), RoleStep(i),
           IsFiniteSet(elected)', Cardinality(elected') <= 1
    PROVE  /\ LeadersLog(a)'
           /\ \A j \in Server : DeliversLog(j)'
           /\ Reported'
<1>1. LeadersLog(a)' /\ \A j \in Server : Begins(log[j], log'[j])
  <2>1. CASE FollowerAppendReq(i, m) /\ FollowerAppendsEntries(i, m)
    BY <2>1, FollowerAppendsLeadersLog
  <2>2. CASE ~(FollowerAppendReq(i, m) /\ FollowerAppendsEntries(i, m))
    <3>1. UNCHANGED log
      BY <2>2
      DEF Handle, FollowerVoteReq, FollowerAppendReq, FollowerStaleAppendReq,
          FollowerHeartbeat, FollowerRejectsEntries, FollowerResp,
          CandidateVoteReq, CandidateVoteResp, CandidateAppendReq,
          CandidateAppendResp, LeaderVoteReq, LeaderVoteResp, LeaderAppendReq,
          LeaderAppendResp, logVars
    <3>2. \A j : Slice(Heartbeat(i, j), a)
      BY HeartbeatSlice
    <3>3. \A x \in net' : x \in net \/ (x.type = "AppendReq" => Slice(x, a))
      BY <3>2, HandlerRequests DEF Quiet
    <3>4. LeadersLog(a)'
      BY <3>1, <3>3, QuietLeadersLog
    <3>5. \A j \in Server : Begins(log[j], log'[j])
      BY <3>1, LenProperties DEF TypeOK, Begins
    <3> QED BY <3>4, <3>5
  <2> QED BY <2>1, <2>2
<1>2. MatchStep(i) /\ \A x \in net' : x \in net \/ Reports(i, x)
  BY HandlerMatch, HandlerReports
<1>3. CommitStep(i)
  BY <1>1, HandlerCommits DEF TypeOK
<1>4. \A j \in Server : DeliversLog(j)'
  BY <1>1, <1>3, DeliversStep
<1>5. Reported'
  BY <1>1, <1>2, ReportedStep
<1> QED BY <1>1, <1>4, <1>5

LEMMA TimeoutSolo ==
    ASSUME TypeOK, TypeOK', ElectedInv, NEW a \in Seq(LogEntry), LeadersLog(a),
           \A j \in Server : DeliversLog(j), Reported, NEW i \in Server,
           FollowerTimeout(i) \/ CandidateTimeout(i) \/ LeaderTimeout(i),
           RoleStep(i), IsFiniteSet(elected)', Cardinality(elected') <= 1
    PROVE  /\ LeadersLog(a)'
           /\ \A j \in Server : DeliversLog(j)'
           /\ Reported'
<1>1. UNCHANGED <<log, commitIndex, delivered, matchIndex, elected>>
  BY DEF FollowerTimeout, CandidateTimeout, LeaderTimeout, logVars, commitVars,
         leaderVars, histVars
<1>2. \A x \in net' : \/ x \in net
                      \/ /\ x.type # "AppendResp"
                         /\ x.type = "AppendReq" => Slice(x, a)
  <2>1. CASE FollowerTimeout(i) \/ CandidateTimeout(i)
    BY <2>1 DEF FollowerTimeout, CandidateTimeout, Candidacy, Transmit, VoteReq
  <2>2. CASE LeaderTimeout(i)
    <3>1. \A x \in net' : x \in net \/ \E j \in Server : x = Replication(i, j)
      BY <2>2 DEF LeaderTimeout, Transmit
    <3>2. \A j \in Server : Replication(i, j).type = "AppendReq"
      BY DEF Replication, Heartbeat
    <3>3. log[i] = a
      <4>1. <<i, term[i]>> \in elected
        BY <2>2 DEF LeaderTimeout, ElectedInv
      <4> QED BY <4>1 DEF LeadersLog
    <3>4. \A j \in Server : Slice(Replication(i, j), a)
      BY <3>3, ReplicationSlice
    <3> QED BY <3>1, <3>2, <3>4
  <2> QED BY <2>1, <2>2
<1>3. LeadersLog(a)'
  BY <1>1, <1>2, QuietLeadersLog
<1>4. \A j \in Server : DeliversLog(j)'
  BY <1>1 DEF DeliversLog
<1>5. Reported'
  BY <1>1, <1>2 DEF Reported
<1> QED BY <1>3, <1>4, <1>5

LEMMA LeaderAppendEventSolo ==
    ASSUME TypeOK, TypeOK', ElectedInv, NEW a \in Seq(LogEntry), LeadersLog(a),
           \A j \in Server : DeliversLog(j), Reported, NEW i \in Server,
           NEW c \in Command, LeaderAppendEvent(i, c),
           IsFiniteSet(elected), Cardinality(elected) <= 1
    PROVE  /\ \E l \in Seq(LogEntry) : LeadersLog(l)'
           /\ \A j \in Server : DeliversLog(j)'
           /\ Reported'
<1>1. /\ \A j \in Server : Begins(log[j], log'[j])
      /\ \E l \in Seq(LogEntry) : LeadersLog(l)'
  BY LeaderAppendEventLeadersLog
<1>2. CommitStep(i) /\ MatchStep(i) /\ UNCHANGED net
  BY DEF LeaderAppendEvent, CommitStep, MatchStep, leaderVars, commitVars
<1>3. \A j \in Server : DeliversLog(j)'
  BY <1>1, <1>2, DeliversStep
<1>4. Reported'
  BY <1>1, <1>2, ReportedStep
<1> QED BY <1>1, <1>3, <1>4

\* What a step that is no failure does to elections.
LEMMA ElectionsGrow ==
    ASSUME TypeOK, IsFiniteSet(elected), NEW i \in Server, RoleStep(i)
    PROVE  /\ IsFiniteSet(elected)'
           /\ elected \subseteq elected'
           /\ Cardinality(elected') <= 1 => Cardinality(elected) <= 1
<1>1. elected' = elected \/ elected' = elected \cup {<<i, term[i]>>}
  BY DEF RoleStep
<1>2. IsFiniteSet(elected)' /\ elected \subseteq elected'
  BY <1>1, FS_AddElement
<1>3. Cardinality(elected) <= Cardinality(elected')
  BY <1>2, FS_Subset
<1>4. Cardinality(elected) \in Nat /\ Cardinality(elected') \in Nat
  BY <1>2, FS_CardinalityType
<1> QED BY <1>2, <1>3, <1>4

\* A step of node i that is no failure and keeps what one leader guarantees.
LEMMA SoloStep ==
    ASSUME TypeOK, TypeOK', SoloInv, NEW i \in Server,
           RoleStep(i), TermKept(i), UNCHANGED powerOffs,
           \A a \in Seq(LogEntry) :
              /\ ElectedInv /\ LeadersLog(a) /\ Reported
              /\ \A j \in Server : DeliversLog(j)
              /\ IsFiniteSet(elected) /\ Cardinality(elected) <= 1
              /\ IsFiniteSet(elected)' /\ Cardinality(elected') <= 1
              => /\ \E l \in Seq(LogEntry) : LeadersLog(l)'
                 /\ \A j \in Server : DeliversLog(j)'
                 /\ Reported'
    PROVE  SoloInv'
<1>1. /\ IsFiniteSet(elected)'
      /\ Cardinality(elected') <= 1 => Cardinality(elected) <= 1
  BY ElectionsGrow DEF SoloInv
<1>2. powerOffs' = 0 => ElectedInv'
  BY ElectedStep DEF SoloInv
<1>3. ASSUME OneLeader'
      PROVE  /\ (\E a \in Seq(LogEntry) : LeadersLog(a))'
             /\ (\A j \in Server : DeliversLog(j))'
             /\ Reported'
  <2>1. OneLeader /\ ElectedInv /\ Cardinality(elected') <= 1
    BY <1>1, <1>3 DEF OneLeader, SoloInv
  <2>2. PICK a \in Seq(LogEntry) : LeadersLog(a)
    BY <2>1 DEF SoloInv
  <2>3. Reported /\ \A j \in Server : DeliversLog(j)
    BY <2>1 DEF SoloInv
  <2> QED BY <1>1, <2>1, <2>2, <2>3 DEF SoloInv, OneLeader
<1> QED BY <1>1, <1>2, <1>3 DEF SoloInv

LEMMA NextSolo ==
    ASSUME TypeOK, TypeOK', SoloInv, [Next]_vars
    PROVE  SoloInv'
<1>1. ASSUME NEW m \in net, Handle(m.to, m) PROVE SoloInv'
  <2> DEFINE i == m.to
  <2>1. i \in Server
    BY MessageKinds DEF TypeOK
  <2>2. RoleStep(i) /\ TermKept(i)
    BY <1>1, <2>1, HandlerRoleStep, HandlerTerm
  <2>3. UNCHANGED powerOffs
    BY <1>1
    DEF Handle, FollowerVoteReq, FollowerAppendReq, FollowerResp,
        CandidateVoteReq, CandidateVoteResp, CandidateAppendReq,
        CandidateAppendResp, LeaderVoteReq, LeaderVoteResp, LeaderAppendReq,
        LeaderAppendResp, histVars
  <2> QED BY <1>1, <2>1, <2>2, <2>3, HandlerSolo, SoloStep
<1>2. ASSUME NEW i \in Server,
             FollowerTimeout(i) \/ CandidateTimeout(i) \/ LeaderTimeout(i)
      PROVE  SoloInv'
  <2>1. RoleStep(i) /\ TermKept(i)
    BY <1>2, OtherRoleStep
  <2>2. UNCHANGED powerOffs
    BY <1>2 DEF FollowerTimeout, CandidateTimeout, LeaderTimeout, histVars
  <2> QED BY <1>2, <2>1, <2>2, TimeoutSolo, SoloStep
<1>3. ASSUME NEW i \in Server, NEW c \in Command, LeaderAppendEvent(i, c)
      PROVE  SoloInv'
  <2>1. RoleStep(i) /\ TermKept(i)
    BY <1>3, OtherRoleStep
  <2>2. UNCHANGED powerOffs
    BY <1>3 DEF LeaderAppendEvent
  <2> QED BY <1>3, <2>1, <2>2, LeaderAppendEventSolo, SoloStep
<1>4. ASSUME NEW i \in Server, Shutdown(i) PROVE SoloInv'
  <2>1. powerOffs' # 0 /\ UNCHANGED elected
    BY <1>4 DEF Shutdown, TypeOK
  <2> QED BY <2>1 DEF SoloInv, OneLeader
<1>5. ASSUME NEW i \in Server, New(i) PROVE SoloInv'
  <2>1. role[i] = POWEROFF /\ UNCHANGED <<elected, powerOffs>>
    BY <1>5 DEF New, histVars
  <2>2. powerOffs' # 0
    BY <2>1 DEF SoloInv, ElectedInv
  <2> QED BY <2>1, <2>2 DEF SoloInv, OneLeader
<1>6. CASE UNCHANGED vars
  <2>1. UNCHANGED <<role, term, log, net, elected, powerOffs, commitIndex,
                    delivered, matchIndex>>
    BY <1>6 DEF vars, stateVars, logVars, histVars, commitVars, leaderVars
  <2>2. (powerOffs = 0 => ElectedInv)' /\ IsFiniteSet(elected)'
    BY <2>1 DEF SoloInv, ElectedInv
  <2>3. OneLeader' => OneLeader
    BY <2>1 DEF OneLeader
  <2>4. Reported => Reported'
    BY <2>1 DEF Reported
  <2>5. (\A j \in Server : DeliversLog(j)) => (\A j \in Server : DeliversLog(j))'
    BY <2>1 DEF DeliversLog
  <2>6. ASSUME NEW a \in Seq(LogEntry), LeadersLog(a) PROVE LeadersLog(a)'
    BY <2>1, <2>6 DEF LeadersLog, Begins, Slice
  <2> QED BY <2>2, <2>3, <2>4, <2>5, <2>6 DEF SoloInv
<1> QED BY <1>1, <1>2, <1>3, <1>4, <1>5, <1>6 DEF Next

LEMMA InitSolo == Init => SoloInv
<1> SUFFICES ASSUME Init PROVE SoloInv
  OBVIOUS
<1>1. ElectedInv
  BY DEF Init, ForEach, ElectedInv, FOLLOWER, LEADER, POWEROFF
<1>2. IsFiniteSet(elected)
  BY FS_EmptySet DEF Init
<1>3. Len(<<>>) = 0 /\ <<>> \in Seq(LogEntry)
  OBVIOUS
<1>4. LeadersLog(<<>>)
  BY <1>3 DEF Init, ForEach, LeadersLog, Begins
<1>5. (\A j \in Server : DeliversLog(j)) /\ Reported
  BY <1>3 DEF Init, ForEach, DeliversLog, Reported
<1> QED BY <1>1, <1>2, <1>3, <1>4, <1>5 DEF SoloInv

LEMMA SoloInvariant == Spec => [](TypeOK /\ SoloInv)
<1>1. TypeOK /\ TypeOK' /\ SoloInv /\ [Next]_vars => SoloInv'
  BY NextSolo
<1> QED BY <1>1, InitSolo, TypeCorrect, PTL DEF Spec

\* What nodes deliver begins the commands of one log.
LEMMA SoloAgrees == TypeOK /\ SoloInv /\ OneLeader => StateMachineSafety
<1> SUFFICES ASSUME TypeOK, SoloInv, OneLeader,
                    NEW i \in Server, NEW j \in Server,
                    NEW k \in 1..minimum(Len(delivered[i]), Len(delivered[j]))
             PROVE  delivered[i][k] = delivered[j][k]
  BY DEF StateMachineSafety
<1>1. PICK a \in Seq(LogEntry) : LeadersLog(a)
  BY DEF SoloInv
<1>2. /\ Len(delivered[i]) \in Nat /\ Len(delivered[j]) \in Nat
      /\ Len(log[i]) \in Nat /\ Len(log[j]) \in Nat
  BY LenProperties DEF TypeOK
<1>3. k \in 1..Len(delivered[i]) /\ k \in 1..Len(delivered[j])
  BY <1>2 DEF minimum
<1>4. DeliversLog(i) /\ DeliversLog(j)
  BY DEF SoloInv
<1>5. k \in 1..Len(log[i]) /\ k \in 1..Len(log[j])
  BY <1>2, <1>3, <1>4 DEF DeliversLog
<1>6. log[i][k] = a[k] /\ log[j][k] = a[k]
  BY <1>1, <1>5 DEF LeadersLog, Begins
<1> QED BY <1>3, <1>4, <1>6 DEF DeliversLog

\* As long as one election was won and no node went down, nodes deliver the same
\* commands in the same order: a follower that takes over the leader's commit
\* index before it compares logs (follower.go:139-150) has nothing else in its
\* log, and late, repeated or reordered requests cut nothing away.
THEOREM OneLeaderAgreement ==
    Spec => [](powerOffs = 0 /\ Cardinality(elected) <= 1 => StateMachineSafety)
<1>1. TypeOK /\ SoloInv =>
        (powerOffs = 0 /\ Cardinality(elected) <= 1 => StateMachineSafety)
  BY SoloAgrees DEF OneLeader
<1> QED BY <1>1, SoloInvariant, PTL

-----------------------------------------------------------------------------
(* What a leader counts as committed is on a majority.                     *)

\* The entries that i newly counts as committed in this step are on a majority.
StoresCommits(i) ==
    \A k \in (commitIndex[i] + 1)..commitIndex'[i] :
        IsMajority({j \in Server : /\ Len(log[j]) >= k
                                   /\ log[j][k] = log[i][k]})

LEMMA LeaderCommitStored ==
    ASSUME TypeOK, ElectedInv, NEW a \in Seq(LogEntry), LeadersLog(a), Reported,
           NEW m \in net, NEW i \in Server, LeaderAppendResp(i, m),
           commitIndex'[i] > commitIndex[i]
    PROVE  StoresCommits(i)
<1> DEFINE match == [matchIndex[i] EXCEPT ![m.from] = m.index]
<1>1. m.from \in Server /\ m.index \in Nat /\ m.type = "AppendResp"
  <2>1. m \in AppendEntriesRespEvent /\ m.type = "AppendResp"
    BY MessageKinds DEF TypeOK, LeaderAppendResp
  <2> QED BY <2>1 DEF AppendEntriesRespEvent
<1>2. commitIndex[i] \in Nat /\ commitIndex \in [Server -> Nat]
  BY DEF TypeOK
<1>3. ~UNCHANGED commitVars
  BY <1>2 DEF commitVars
<1>4. LeaderSuccessResp(i, m) /\ m.success /\ m.index # 0
  BY <1>3 DEF LeaderAppendResp, LeaderFailedResp, LeaderSuccessResp
<1>5. PICK n \in Committable(i, match) : CommitUpTo(i, n)
  BY <1>4 DEF LeaderSuccessResp
<1>6. commitIndex'[i] = n
  BY <1>2, <1>5 DEF CommitUpTo
<1>7. log[i] = a
  <2>1. <<i, term[i]>> \in elected
    BY DEF LeaderAppendResp, ElectedInv
  <2> QED BY <2>1 DEF LeadersLog
<1>8. \A j \in Server : match[j] <= Len(log[j]) /\ match[j] \in Nat
  BY <1>1, <1>4 DEF Reported, TypeOK
<1> HIDE DEF match
<1>9. /\ n \in 1..Len(log[i])
      /\ IsMajority({j \in Server : j = i \/ match[j] >= n})
  BY <1>2, <1>5, <1>6 DEF Committable
<1> SUFFICES ASSUME NEW k \in (commitIndex[i] + 1)..n
             PROVE  IsMajority({j \in Server : /\ Len(log[j]) >= k
                                               /\ log[j][k] = log[i][k]})
  BY <1>6 DEF StoresCommits
<1>10. \A j \in Server : Len(log[j]) \in Nat
  BY LenProperties DEF TypeOK
<1>11. k \in Nat /\ k >= 1 /\ k <= n /\ n \in Nat
  BY <1>2, <1>9, <1>10
<1>12. ASSUME NEW j \in Server, j = i \/ match[j] >= n
       PROVE  Len(log[j]) >= k /\ log[j][k] = log[i][k]
  <2>1. Len(log[j]) >= k
    BY <1>8, <1>9, <1>10, <1>11, <1>12
  <2>2. k \in 1..Len(log[j])
    BY <1>10, <1>11, <2>1
  <2> QED BY <1>7, <2>1, <2>2 DEF LeadersLog, Begins
<1>13. {j \in Server : j = i \/ match[j] >= n} \subseteq
         {j \in Server : Len(log[j]) >= k /\ log[j][k] = log[i][k]}
  BY <1>12
<1> QED BY <1>9, <1>13, MajorityMonotonic

LEMMA NextStored ==
    ASSUME TypeOK, TypeOK', SoloInv, OneLeader, Next, NEW i \in Server,
           role[i] = LEADER, commitIndex'[i] > commitIndex[i]
    PROVE  StoresCommits(i)
<1>1. PICK a \in Seq(LogEntry) : LeadersLog(a)
  BY DEF SoloInv
<1>2. ElectedInv /\ Reported /\ commitIndex[i] \in Nat
      /\ commitIndex \in [Server -> Nat]
  BY DEF SoloInv, OneLeader, TypeOK
<1>3. commitIndex'[i] # commitIndex[i]
  BY <1>2
<1>4. ASSUME NEW m \in net, Handle(m.to, m) PROVE StoresCommits(i)
  <2>1. CASE LeaderAppendResp(m.to, m)
    <3>1. commitIndex' # commitIndex
      BY <1>3
    <3>2. m.to \in Server
      BY MessageKinds DEF TypeOK
    <3>3. CommitStep(m.to)
      BY <2>1, <3>2, LeaderAppendRespCommits
    <3>4. m.to = i
      BY <1>2, <1>3, <3>1, <3>3 DEF CommitStep, DeliversTo, commitVars
    <3> QED BY <1>1, <1>2, <2>1, <3>4, LeaderCommitStored
  <2>2. CASE FollowerAppendReq(m.to, m)
    <3>1. m.to # i
      BY <2>2 DEF FollowerAppendReq, FOLLOWER, LEADER
    <3>2. \/ UNCHANGED commitVars
          \/ \E n : commitIndex' = [commitIndex EXCEPT ![m.to] = n]
      BY <2>2 DEF FollowerAppendReq, FollowerStaleAppendReq, FollowerHeartbeat,
                  FollowerRejectsEntries, FollowerAppendsEntries, CommitUpTo
    <3> QED BY <1>2, <1>3, <3>1, <3>2 DEF commitVars
  <2>3. CASE ~LeaderAppendResp(m.to, m) /\ ~FollowerAppendReq(m.to, m)
    <3>1. UNCHANGED commitVars
      BY <1>4, <2>3
      DEF Handle, FollowerVoteReq, FollowerResp, CandidateVoteReq,
          CandidateVoteResp, CandidateAppendReq, CandidateAppendResp,
          LeaderVoteReq, LeaderVoteResp, LeaderAppendReq
    <3> QED BY <1>3, <3>1 DEF commitVars
  <2> QED BY <2>1, <2>2, <2>3
<1>5. ASSUME NEW j \in Server,
             \/ FollowerTimeout(j) \/ CandidateTimeout(j) \/ LeaderTimeout(j)
             \/ \E c \in Command : LeaderAppendEvent(j, c)
             \/ Shutdown(j)
      PROVE  FALSE
  BY <1>3, <1>5 DEF FollowerTimeout, CandidateTimeout, LeaderTimeout,
     LeaderAppendEvent, Shutdown, commitVars
<1>6. ASSUME NEW j \in Server, New(j) PROVE FALSE
  BY <1>2, <1>6 DEF New, ElectedInv
<1> QED BY <1>4, <1>5, <1>6 DEF Next

\* As long as one election was won and no node went down, each entry a leader
\* newly counts as committed is in the logs of a majority at that moment
\* (leader.go:246): what a node once reported stays in its log.
THEOREM OneLeaderCommits ==
    Spec /\ [](powerOffs = 0 /\ Cardinality(elected) <= 1)
      => CommitStoredOnMajority
<1> DEFINE Calm == powerOffs = 0 /\ Cardinality(elected) <= 1
<1>1. TypeOK /\ TypeOK' /\ SoloInv /\ Calm /\ [Next]_vars =>
        [\A i \in Server : role[i] = LEADER /\ commitIndex'[i] > commitIndex[i]
                             => StoresCommits(i)]_vars
  BY NextStored DEF OneLeader
<1>2. (\A i \in Server : role[i] = LEADER /\ commitIndex'[i] > commitIndex[i]
                           => StoresCommits(i)) <=>
      (\A i \in Server : role[i] = LEADER /\ commitIndex'[i] > commitIndex[i] =>
         \A k \in (commitIndex[i] + 1)..commitIndex'[i] :
            IsMajority({j \in Server : /\ Len(log[j]) >= k
                                       /\ log[j][k] = log[i][k]}))
  BY DEF StoresCommits
<1> HIDE DEF Calm
<1>3. Spec /\ []Calm => CommitStoredOnMajority
  BY <1>1, <1>2, SoloInvariant, PTL DEF Spec, CommitStoredOnMajority
<1> QED BY <1>3 DEF Calm

-----------------------------------------------------------------------------
(* What a server on top of a node can rely on.                             *)

\* The entries of l are commands that a leader has appended.
Known(l) == \A k \in 1..Len(l) : l[k].cmd \in submitted

\* Nothing is stored, sent or delivered but what leaders have appended.
SubmittedInv ==
    /\ LogDurable
    /\ \A i \in Server : Known(diskLog[i])
    /\ \A i \in Server : delivered[i] \in Seq(submitted)
    /\ \A m \in net : m.type = "AppendReq" => Known(m.entries)

\* A step of node i pushes such commands on its commit channel, if any.
PushStep(i) ==
    \/ UNCHANGED delivered
    \/ \E d \in Seq(submitted) : /\ delivered' = [delivered EXCEPT ![i] = d]
                                 /\ Begins(delivered[i], d)

LEMMA BeginsConcat ==
    ASSUME NEW S, NEW a \in Seq(S), NEW b \in Seq(S)
    PROVE  a \o b \in Seq(S) /\ Begins(a, a \o b)
<1>1. Len(a) \in Nat /\ Len(b) \in Nat
  BY LenProperties
<1>2. /\ a \o b \in Seq(S) /\ Len(a \o b) = Len(a) + Len(b)
      /\ \A k \in 1..Len(a) + Len(b) :
           (a \o b)[k] = IF k <= Len(a) THEN a[k] ELSE b[k - Len(a)]
  BY ConcatProperties
<1> QED BY <1>1, <1>2 DEF Begins

LEMMA DurableKnown ==
    ASSUME NEW l, NEW d, OnDisk(l, d), Known(d)
    PROVE  Known(l)
BY DEF OnDisk, Known

LEMMA LogKnown ==
    ASSUME SubmittedInv, NEW i \in Server
    PROVE  Known(log[i])
BY DurableKnown DEF SubmittedInv, LogDurable, OnDisk

LEMMA CommandsKnown ==
    ASSUME NEW l \in Seq(LogEntry), NEW lo \in Nat, NEW hi \in Nat,
           lo <= hi, lo < hi => hi <= Len(l), Known(l)
    PROVE  Commands(l, lo, hi) \in Seq(submitted)
<1> DEFINE c == Commands(l, lo, hi)
<1>1. /\ c \in Seq(Command) /\ Len(c) = hi - lo
      /\ \A k \in 1..(hi - lo) : c[k] = l[lo + k].cmd
  BY CommandsType
<1>2. ASSUME NEW k \in 1..Len(c) PROVE c[k] \in submitted
  <2>1. k \in 1..(hi - lo) /\ Len(l) \in Nat
    BY <1>1, <1>2, LenProperties
  <2>2. lo + k \in 1..Len(l)
    BY <2>1
  <2> QED BY <1>1, <2>1, <2>2 DEF Known
<1> HIDE DEF c
<1>3. c \in [1..Len(c) -> submitted]
  BY <1>1, <1>2, LenProperties
<1>4. [1..Len(c) -> submitted] \subseteq Seq(submitted)
  BY <1>1, LenProperties, SeqDef
<1> QED BY <1>3, <1>4 DEF c

LEMMA CommitUpToPushes ==
    ASSUME TypeOK, SubmittedInv, NEW i \in Server, NEW n \in Nat,
           n >= commitIndex[i], n > commitIndex[i] => n <= Len(log[i]),
           CommitUpTo(i, n)
    PROVE  PushStep(i)
<1>1. commitIndex[i] \in Nat /\ log[i] \in Seq(LogEntry)
  BY DEF TypeOK
<1>2. Commands(log[i], commitIndex[i], n) \in Seq(submitted)
  BY <1>1, LogKnown, CommandsKnown
<1> DEFINE d == delivered[i] \o Commands(log[i], commitIndex[i], n)
<1>3. delivered[i] \in Seq(submitted)
  BY DEF SubmittedInv
<1>4. d \in Seq(submitted) /\ Begins(delivered[i], d)
  BY <1>2, <1>3, BeginsConcat
<1>5. delivered' = [delivered EXCEPT ![i] = d]
  BY DEF CommitUpTo
<1> QED BY <1>4, <1>5 DEF PushStep

LEMMA FollowerAppendReqPushes ==
    ASSUME TypeOK, TypeOK', SubmittedInv, NEW m \in net, NEW i \in Server,
           FollowerAppendReq(i, m), Known(log'[i])
    PROVE  PushStep(i)
<1>1. /\ m.commit \in Nat /\ log[i] \in Seq(LogEntry) /\ commitIndex[i] \in Nat
      /\ log'[i] \in Seq(LogEntry) /\ delivered[i] \in Seq(submitted)
  BY MessageKinds
  DEF TypeOK, FollowerAppendReq, AppendEntriesReqEvent, SubmittedInv
<1>2. CASE FollowerStaleAppendReq(i, m)
  BY <1>2 DEF FollowerStaleAppendReq, PushStep, commitVars
<1>3. CASE FollowerHeartbeat(i, m) \/ FollowerRejectsEntries(i, m)
  <2>1. CommitUpTo(i, FollowCommit(log[i], commitIndex[i], m.commit))
    BY <1>3 DEF FollowerHeartbeat, FollowerRejectsEntries
  <2> QED BY <1>1, <2>1, FollowCommitType, CommitUpToPushes
<1>4. CASE FollowerAppendsEntries(i, m)
  <2> DEFINE c1  == FollowCommit(log[i], commitIndex[i], m.commit)
             c2  == FollowCommit(log'[i], c1, m.commit)
             one == Commands(log[i], commitIndex[i], c1)
             two == Commands(log'[i], c1, c2)
  <2>1. /\ c1 \in Nat /\ c1 >= commitIndex[i]
        /\ c1 > commitIndex[i] => c1 <= Len(log[i])
    BY <1>1, FollowCommitType
  <2>2. /\ c2 \in Nat /\ c2 >= c1
        /\ c2 > c1 => c2 <= Len(log'[i])
    BY <1>1, <2>1, FollowCommitType
  <2>3. delivered' = [delivered EXCEPT ![i] = (@ \o one) \o two]
    <3>1. PICK l : /\ log' = [log EXCEPT ![i] = l]
                   /\ delivered' = [delivered EXCEPT ![i] =
                        @ \o Commands(log[i], commitIndex[i], c1)
                          \o Commands(l, c1, FollowCommit(l, c1, m.commit))]
      BY <1>4 DEF FollowerAppendsEntries
    <3>2. log'[i] = l
      BY <3>1 DEF TypeOK
    <3> QED BY <3>1, <3>2
  <2> HIDE DEF c1, c2
  <2>4. one \in Seq(submitted) /\ two \in Seq(submitted)
    BY <1>1, <2>1, <2>2, LogKnown, CommandsKnown
  <2> DEFINE b == delivered[i] \o one
             d == b \o two
  <2>5. delivered' = [delivered EXCEPT ![i] = d]
    BY <2>3
  <2> HIDE DEF one, two
  <2>6. b \in Seq(submitted) /\ Begins(delivered[i], b)
    BY <1>1, <2>4, BeginsConcat
  <2> HIDE DEF b
  <2>7. d \in Seq(submitted) /\ Begins(b, d)
    BY <2>4, <2>6, BeginsConcat
  <2> HIDE DEF d
  <2>8. Begins(delivered[i], d)
    BY <1>1, <2>6, <2>7, BeginsTransitive
  <2> QED BY <2>5, <2>7, <2>8 DEF PushStep
<1> QED BY <1>2, <1>3, <1>4 DEF FollowerAppendReq

LEMMA HandlerPushes ==
    ASSUME TypeOK, TypeOK', SubmittedInv, NEW m \in net, NEW i \in Server,
           Handle(i, m), Known(log'[i])
    PROVE  PushStep(i)
<1>1. CASE FollowerAppendReq(i, m)
  BY <1>1, FollowerAppendReqPushes
<1>2. CASE LeaderAppendResp(i, m)
  <2>1. CASE UNCHANGED commitVars
    BY <2>1 DEF PushStep, commitVars
  <2>2. CASE ~UNCHANGED commitVars
    <3> DEFINE match == [matchIndex[i] EXCEPT ![m.from] = m.index]
    <3>1. PICK n \in Committable(i, match) :
            /\ \A k \in Committable(i, match) : k <= n
            /\ CommitUpTo(i, n)
      BY <1>2, <2>2 DEF LeaderAppendResp, LeaderFailedResp, LeaderSuccessResp
    <3> HIDE DEF match
    <3>2. /\ commitIndex[i] \in Nat /\ Len(log[i]) \in Nat
          /\ commitIndex[i] \in Committable(i, match)
      BY LenProperties DEF TypeOK, Committable
    <3>3. n = commitIndex[i] \/ n \in 1..Len(log[i])
      BY <3>1 DEF Committable
    <3>4. /\ n \in Nat /\ n >= commitIndex[i]
          /\ n > commitIndex[i] => n <= Len(log[i])
      BY <3>1, <3>2, <3>3
    <3> QED BY <3>1, <3>4, CommitUpToPushes
  <2> QED BY <2>1, <2>2
<1>3. CASE ~FollowerAppendReq(i, m) /\ ~LeaderAppendResp(i, m)
  BY <1>3
  DEF Handle, FollowerVoteReq, FollowerResp, CandidateVoteReq,
      CandidateVoteResp, CandidateAppendReq, CandidateAppendResp,
      LeaderVoteReq, LeaderVoteResp, LeaderAppendReq, PushStep, commitVars
<1> QED BY <1>1, <1>2, <1>3

\* A step after which only appended commands are on disks and in requests.
LEMMA SubmittedStep ==
    ASSUME TypeOK, TypeOK', SubmittedInv, LogDurable',
           submitted \subseteq submitted', NEW i \in Server, PushStep(i),
           \A j \in Server : \A k \in 1..Len(diskLog'[j]) :
              diskLog'[j][k].cmd \in submitted',
           \A x \in net' : \/ x \in net
                           \/ x.type = "AppendReq" => Known(x.entries)
    PROVE  SubmittedInv'
<1>1. (\A j \in Server : Known(diskLog[j]))'
  BY DEF Known
<1>2. (\A x \in net : x.type = "AppendReq" => Known(x.entries))'
  BY DEF SubmittedInv, Known
<1>3. ASSUME NEW j \in Server PROVE delivered'[j] \in Seq(submitted')
  <2>1. delivered'[j] \in Seq(submitted)
    BY DEF PushStep, SubmittedInv, TypeOK
  <2> QED BY <2>1, SeqMonotonic
<1>4. (\A j \in Server : delivered[j] \in Seq(submitted))'
  BY <1>3
<1> QED BY <1>1, <1>2, <1>4 DEF SubmittedInv

LEMMA HeartbeatKnown ==
    ASSUME NEW i \in Server, NEW j
    PROVE  Known(Heartbeat(i, j).entries)
<1>1. Heartbeat(i, j).entries = <<>> /\ Len(<<>>) = 0
  BY DEF Heartbeat
<1> QED BY <1>1 DEF Known

LEMMA ReplicationKnown ==
    ASSUME TypeOK, SubmittedInv, NEW i \in Server, NEW j \in Server
    PROVE  Known(Replication(i, j).entries)
<1>1. Replication(i, j) \in AppendEntriesReqEvent
  BY ReplicationType, MessageKinds DEF Replication, Heartbeat
<1>2. Slice(Replication(i, j), log[i])
  BY ReplicationSlice
<1> DEFINE m == Replication(i, j)
<1>3. Len(m.entries) \in Nat /\ m.prevIndex \in Nat /\ Len(log[i]) \in Nat
  BY <1>1, LenProperties DEF AppendEntriesReqEvent, TypeOK
<1>4. Known(log[i])
  BY LogKnown
<1> HIDE DEF m
<1>5. ASSUME NEW k \in 1..Len(m.entries) PROVE m.entries[k].cmd \in submitted
  <2>1. k <= Len(m.entries) /\ k \in 1..Len(m.entries)
    OBVIOUS
  <2> QED BY <1>2, <1>3, <1>4, <2>1 DEF Slice, Known, m
<1> QED BY <1>5 DEF Known, m

\* What a handler adds to a disk log was in the message.
LEMMA HandlerDisk ==
    ASSUME TypeOK, SubmittedInv, NEW m \in net, NEW i \in Server, Handle(i, m)
    PROVE  \A j \in Server : Known(diskLog'[j])
<1>1. CASE UNCHANGED diskLog
  BY <1>1 DEF SubmittedInv
<1>2. CASE FollowerAppendReq(i, m) /\ FollowerAppendsEntries(i, m)
  <2>1. m.entries \in Seq(LogEntry) /\ Known(m.entries)
    BY <1>2, MessageKinds
    DEF TypeOK, FollowerAppendReq, AppendEntriesReqEvent, SubmittedInv
  <2> DEFINE rest(k) == SubSeq(m.entries, k + 1, Len(m.entries))
  <2>2. PICK k \in 0..Len(m.entries) :
          diskLog' = [diskLog EXCEPT ![i] = @ \o rest(k)]
    BY <1>2 DEF FollowerAppendsEntries, LogStore
  <2> DEFINE r == rest(k)
             n == Len(m.entries)
  <2>3. n \in Nat /\ k \in Nat /\ k <= n
    BY <2>1, LenProperties
  <2>4. \A h \in (k + 1)..n : m.entries[h] \in LogEntry
    BY <2>1, <2>3, ElementOfSeq
  <2>5. /\ r \in Seq(LogEntry)
        /\ Len(r) = IF k + 1 <= n THEN n - (k + 1) + 1 ELSE 0
        /\ \A h \in 1..n - (k + 1) + 1 : r[h] = m.entries[k + 1 + h - 1]
    BY <2>3, <2>4, SubSeqProperties
  <2> HIDE DEF r
  <2>6. ASSUME NEW h \in 1..Len(r) PROVE r[h].cmd \in submitted
    <3>1. h \in 1..n - (k + 1) + 1 /\ k + 1 + h - 1 \in 1..n
      BY <2>3, <2>5
    <3> QED BY <2>1, <2>5, <3>1 DEF Known
  <2>7. diskLog[i] \in Seq(LogEntry) /\ Known(diskLog[i])
    BY DEF TypeOK, SubmittedInv
  <2>8. Known(diskLog[i] \o r)
    <3> DEFINE d == diskLog[i]
    <3>1. Len(d) \in Nat /\ Len(r) \in Nat
      BY <2>5, <2>7, LenProperties
    <3>2. /\ Len(d \o r) = Len(d) + Len(r)
          /\ \A h \in 1..Len(d) + Len(r) :
               (d \o r)[h] = IF h <= Len(d) THEN d[h] ELSE r[h - Len(d)]
      BY <2>5, <2>7, ConcatProperties
    <3>3. \A h \in 1..Len(d) : d[h].cmd \in submitted
      BY <2>7 DEF Known
    <3> HIDE DEF d
    <3>4. ASSUME NEW h \in 1..Len(d) + Len(r)
          PROVE  (d \o r)[h].cmd \in submitted
      <4>1. CASE h <= Len(d)
        BY <3>1, <3>2, <3>3, <4>1
      <4>2. CASE ~(h <= Len(d))
        <5>1. h - Len(d) \in 1..Len(r)
          BY <3>1, <4>2
        <5> QED BY <2>6, <3>2, <4>2, <5>1
      <4> QED BY <4>1, <4>2
    <3>5. Known(d \o r)
      BY <3>1, <3>2, <3>4 DEF Known
    <3> QED BY <3>5 DEF d
  <2>9. \A j \in Server :
          diskLog'[j] = IF j = i THEN diskLog[i] \o r ELSE diskLog[j]
    BY <2>2 DEF TypeOK, r
  <2> QED BY <2>8, <2>9 DEF SubmittedInv
<1> QED
  BY <1>1, <1>2
  DEF Handle, FollowerVoteReq, FollowerAppendReq, FollowerStaleAppendReq,
      FollowerHeartbeat, FollowerRejectsEntries, FollowerResp,
      CandidateVoteReq, CandidateVoteResp, CandidateAppendReq,
      CandidateAppendResp, LeaderVoteReq, LeaderVoteResp, LeaderAppendReq,
      LeaderAppendResp, logVars

\* Handlers submit nothing and have no node go down.
LEMMA HandlerHistory ==
    ASSUME NEW m \in net, NEW i \in Server, Handle(i, m)
    PROVE  UNCHANGED <<submitted, powerOffs>>
BY DEF Handle, FollowerVoteReq, FollowerAppendReq, FollowerResp,
       CandidateVoteReq, CandidateVoteResp, CandidateAppendReq,
       CandidateAppendResp, LeaderVoteReq, LeaderVoteResp, LeaderAppendReq,
       LeaderAppendResp, histVars

LEMMA HandlerDurable ==
    ASSUME TypeOK, LogDurable, NEW m \in net, NEW i \in Server, Handle(i, m)
    PROVE  LogDurable'
<1>1. CASE FollowerAppendReq(i, m)
  BY <1>1, FollowerAppendReqDurable
<1>2. CASE ~FollowerAppendReq(i, m)
  <2>1. UNCHANGED logVars
    BY <1>2
    DEF Handle, FollowerVoteReq, FollowerResp, CandidateVoteReq,
        CandidateVoteResp, CandidateAppendReq, CandidateAppendResp,
        LeaderVoteReq, LeaderVoteResp, LeaderAppendReq, LeaderAppendResp
  <2> QED BY <2>1, LogsUnchanged
<1> QED BY <1>1, <1>2

LEMMA HandlerSubmitted ==
    ASSUME TypeOK, TypeOK', SubmittedInv, NEW m \in net, NEW i \in Server,
           Handle(i, m)
    PROVE  SubmittedInv' /\ PushStep(i)
<1>1. LogDurable'
  BY HandlerDurable DEF SubmittedInv
<1>2. \A j \in Server : Known(diskLog'[j])
  BY HandlerDisk
<1>3. Known(log'[i])
  BY <1>1, <1>2, DurableKnown DEF LogDurable, OnDisk
<1>4. PushStep(i)
  BY <1>3, HandlerPushes
<1>5. UNCHANGED submitted
  BY HandlerHistory
<1>6. \A x \in net' : x \in net \/ (x.type = "AppendReq" => Known(x.entries))
  BY HandlerRequests, HeartbeatKnown DEF Quiet
<1> QED BY <1>1, <1>2, <1>4, <1>5, <1>6, SubmittedStep DEF Known

LEMMA LeaderAppendEventSubmitted ==
    ASSUME TypeOK, TypeOK', SubmittedInv, NEW i \in Server, NEW c \in Command,
           LeaderAppendEvent(i, c)
    PROVE  SubmittedInv'
<1> DEFINE entry == [term |-> term[i], cmd |-> c]
           d     == diskLog[i]
<1>1. entry \in LogEntry /\ entry.cmd = c
  BY DEF LogEntry, TypeOK
<1>2. /\ diskLog' = [diskLog EXCEPT ![i] = @ \o <<entry>>]
      /\ submitted' = submitted \cup {c}
      /\ UNCHANGED <<net, delivered>>
  BY DEF LeaderAppendEvent, LogStore, commitVars
<1>3. d \in Seq(LogEntry) /\ Len(d) \in Nat /\ Known(d)
  BY LenProperties DEF TypeOK, SubmittedInv
<1> HIDE DEF entry
<1>4. d \o <<entry>> = Append(d, entry)
  BY <1>1, <1>3, AppendIsConcat
<1>5. /\ Len(Append(d, entry)) = Len(d) + 1
      /\ \A k \in 1..Len(d) : Append(d, entry)[k] = d[k]
      /\ Append(d, entry)[Len(d) + 1] = entry
  BY <1>1, <1>3, AppendProperties
<1>6. \A j \in Server :
        diskLog'[j] = IF j = i THEN Append(d, entry) ELSE diskLog[j]
  BY <1>2, <1>4 DEF TypeOK
<1> HIDE DEF d
<1>7. ASSUME NEW k \in 1..Len(Append(d, entry))
      PROVE  Append(d, entry)[k].cmd \in submitted'
  <2>1. k \in 1..Len(d) \/ k = Len(d) + 1
    BY <1>3, <1>5
  <2> QED BY <1>1, <1>2, <1>3, <1>5, <2>1 DEF Known
<1>8. \A j \in Server : \A k \in 1..Len(diskLog'[j]) :
         diskLog'[j][k].cmd \in submitted'
  <2> SUFFICES ASSUME NEW j \in Server, NEW k \in 1..Len(diskLog'[j])
               PROVE  diskLog'[j][k].cmd \in submitted'
    OBVIOUS
  <2>1. CASE j = i
    BY <1>6, <1>7, <2>1
  <2>2. CASE j # i
    <3>1. diskLog'[j] = diskLog[j] /\ Known(diskLog[j])
      BY <1>6, <2>2 DEF SubmittedInv
    <3>2. k \in 1..Len(diskLog[j])
      BY <3>1
    <3>3. diskLog[j][k].cmd \in submitted
      BY <3>1, <3>2 DEF Known
    <3>4. diskLog[j][k].cmd \in submitted'
      BY <1>2, <3>3
    <3> QED BY <3>1, <3>4, Zenon
  <2> QED BY <2>1, <2>2
<1>9. LogDurable'
  BY LeaderAppendEventDurable DEF SubmittedInv
<1> QED BY <1>2, <1>8, <1>9, SubmittedStep DEF PushStep

LEMMA TimeoutSubmitted ==
    ASSUME TypeOK, TypeOK', SubmittedInv, NEW i \in Server,
           FollowerTimeout(i) \/ CandidateTimeout(i) \/ LeaderTimeout(i)
    PROVE  SubmittedInv' /\ UNCHANGED <<log, delivered, submitted, powerOffs>>
<1>1. UNCHANGED <<log, diskLog, delivered, submitted, powerOffs>>
  BY DEF FollowerTimeout, CandidateTimeout, LeaderTimeout, logVars,
         commitVars, histVars
<1>2. \A x \in net' : x \in net \/ (x.type = "AppendReq" => Known(x.entries))
  <2>1. CASE FollowerTimeout(i) \/ CandidateTimeout(i)
    BY <2>1 DEF FollowerTimeout, CandidateTimeout, Candidacy, Transmit, VoteReq
  <2>2. CASE LeaderTimeout(i)
    BY <2>2, ReplicationKnown DEF LeaderTimeout, Transmit
  <2> QED BY <2>1, <2>2
<1>3. LogDurable'
  BY <1>1, LogsUnchanged DEF SubmittedInv, logVars
<1> QED BY <1>1, <1>2, <1>3, SubmittedStep DEF PushStep, SubmittedInv, Known

LEMMA NextSubmitted ==
    ASSUME TypeOK, TypeOK', SubmittedInv, [Next]_vars
    PROVE  SubmittedInv'
<1>1. ASSUME NEW m \in net, Handle(m.to, m) PROVE SubmittedInv'
  BY <1>1, MessageKinds, HandlerSubmitted DEF TypeOK
<1>2. ASSUME NEW i \in Server, Shutdown(i) \/ New(i) PROVE SubmittedInv'
  <2>1. /\ UNCHANGED <<diskLog, submitted, net>>
        /\ \/ UNCHANGED delivered
           \/ delivered' = [delivered EXCEPT ![i] = <<>>]
    BY <1>2 DEF Shutdown, New, logVars, commitVars, histVars
  <2>2. LogDurable'
    <3>1. CASE Shutdown(i)
      BY <3>1, LogsUnchanged DEF Shutdown, SubmittedInv
    <3>2. CASE New(i)
      BY <3>2, NewDurable DEF SubmittedInv
    <3> QED BY <1>2, <3>1, <3>2
  <2>3. \A j \in Server : delivered'[j] \in Seq(submitted)
    <3>1. <<>> \in Seq(submitted)
      OBVIOUS
    <3>2. \A j \in Server : delivered'[j] = delivered[j] \/ delivered'[j] = <<>>
      BY <2>1 DEF TypeOK
    <3> QED BY <3>1, <3>2 DEF SubmittedInv
  <2>4. (\A j \in Server : Known(diskLog[j]))'
    BY <2>1 DEF SubmittedInv, Known
  <2>5. (\A x \in net : x.type = "AppendReq" => Known(x.entries))'
    BY <2>1 DEF SubmittedInv, Known
  <2> QED BY <2>1, <2>2, <2>3, <2>4, <2>5 DEF SubmittedInv
<1>3. CASE UNCHANGED vars
  <2>1. UNCHANGED <<log, diskLog, delivered, net, submitted>>
    BY <1>3 DEF vars, logVars, commitVars, histVars
  <2>2. LogDurable'
    BY <2>1, LogsUnchanged DEF SubmittedInv, logVars
  <2> QED BY <2>1, <2>2 DEF SubmittedInv, Known
<1> QED BY <1>1, <1>2, <1>3, LeaderAppendEventSubmitted, TimeoutSubmitted DEF Next

LEMMA InitSubmitted == Init => SubmittedInv
<1> SUFFICES ASSUME Init PROVE SubmittedInv
  OBVIOUS
<1>1. <<>> \in Seq(submitted) /\ Len(<<>>) = 0
  OBVIOUS
<1> QED BY <1>1 DEF Init, ForEach, SubmittedInv, LogDurable, Known

\* A message is handled or a timer runs out.
RunStep ==
    \/ \E m \in net : Handle(m.to, m)
    \/ \E i \in Server : FollowerTimeout(i) \/ CandidateTimeout(i)
                                            \/ LeaderTimeout(i)

LEMMA PushStepBegins ==
    ASSUME TypeOK, NEW i \in Server, PushStep(i), NEW j \in Server
    PROVE  Begins(delivered[j], delivered'[j])
<1>1. Len(delivered[j]) \in Nat
  BY LenProperties DEF TypeOK
<1>2. Begins(delivered[j], delivered[j])
  BY <1>1 DEF Begins
<1>3. ASSUME NEW d, delivered' = [delivered EXCEPT ![i] = d],
             Begins(delivered[i], d)
      PROVE  Begins(delivered[j], delivered'[j])
  <2>1. CASE j = i
    BY <1>3, <2>1 DEF TypeOK
  <2>2. CASE j # i
    BY <1>2, <1>3, <2>2 DEF TypeOK
  <2> QED BY <2>1, <2>2
<1> QED BY <1>2, <1>3 DEF PushStep

\* Commands are pushed behind those that are there, whatever the step.
LEMMA RunPushes ==
    ASSUME TypeOK, TypeOK', SubmittedInv, RunStep
    PROVE  /\ UNCHANGED <<submitted, powerOffs>>
           /\ \A j \in Server : Begins(delivered[j], delivered'[j])
<1>1. ASSUME NEW m \in net, Handle(m.to, m)
      PROVE  /\ UNCHANGED <<submitted, powerOffs>>
             /\ \A j \in Server : Begins(delivered[j], delivered'[j])
  <2>1. m.to \in Server
    BY MessageKinds DEF TypeOK
  <2>2. PushStep(m.to)
    BY <1>1, <2>1, HandlerSubmitted
  <2>3. UNCHANGED <<submitted, powerOffs>>
    BY <1>1, <2>1, HandlerHistory
  <2> QED BY <2>1, <2>2, <2>3, PushStepBegins
<1>2. ASSUME NEW i \in Server,
             FollowerTimeout(i) \/ CandidateTimeout(i) \/ LeaderTimeout(i)
      PROVE  /\ UNCHANGED <<submitted, powerOffs>>
             /\ \A j \in Server : Begins(delivered[j], delivered'[j])
  <2>1. UNCHANGED <<log, delivered, submitted, powerOffs>>
    BY <1>2, TimeoutSubmitted
  <2>2. PushStep(i)
    BY <2>1 DEF PushStep
  <2> QED BY <2>1, <2>2, PushStepBegins
<1> QED BY <1>1, <1>2 DEF RunStep

\* A handler changes no leader's log, nor any log when a leader is elected.
LEMMA HandlerLeaderLog ==
    ASSUME TypeOK, NEW m \in net, NEW i \in Server, Handle(i, m),
           NEW j \in Server, role[j] = LEADER \/ role'[j] = LEADER
    PROVE  log'[j] = log[j]
<1>1. CASE FollowerAppendReq(i, m)
  <2>1. role[i] # LEADER /\ UNCHANGED role
    BY <1>1 DEF FollowerAppendReq, FOLLOWER, LEADER
  <2>2. UNCHANGED log \/ \E l : log' = [log EXCEPT ![i] = l]
    BY <1>1 DEF FollowerAppendReq, FollowerStaleAppendReq, FollowerHeartbeat,
                FollowerRejectsEntries, FollowerAppendsEntries, logVars
  <2> QED BY <2>1, <2>2 DEF TypeOK
<1>2. CASE ~FollowerAppendReq(i, m)
  BY <1>2
  DEF Handle, FollowerVoteReq, FollowerResp, CandidateVoteReq,
      CandidateVoteResp, CandidateAppendReq, CandidateAppendResp,
      LeaderVoteReq, LeaderVoteResp, LeaderAppendReq, LeaderAppendResp, logVars
<1> QED BY <1>1, <1>2

\* Nothing is in a log or delivered before the first election.
LEMMA BeforeElection ==
    ASSUME TypeOK, SoloInv, OneLeader, elected = {}, NEW j \in Server
    PROVE  log[j] = <<>> /\ delivered[j] = <<>>
<1>1. PICK a \in Seq(LogEntry) : LeadersLog(a)
  BY DEF SoloInv
<1>2. Len(a) = 0
  BY <1>1 DEF LeadersLog
<1>3. /\ Len(log[j]) \in Nat /\ log[j] \in Seq(LogEntry)
      /\ Len(delivered[j]) \in Nat /\ delivered[j] \in Seq(Command)
  BY LenProperties DEF TypeOK
<1>4. Len(log[j]) = 0
  BY <1>1, <1>2, <1>3 DEF LeadersLog, Begins
<1>5. Len(delivered[j]) = 0
  BY <1>3, <1>4 DEF SoloInv, DeliversLog
<1> QED BY <1>3, <1>4, <1>5, EmptySeq

\* What the only leader of a cluster sees of a step.
LEMMA RunOneLeader ==
    ASSUME TypeOK, TypeOK', SoloInv, RunStep, OneLeader', UNCHANGED powerOffs
    PROVE  /\ OneLeader /\ elected \subseteq elected'
           /\ \A j \in Server : role[j] = LEADER => log'[j] = log[j]
           /\ \A j \in Server : role[j] # LEADER /\ role'[j] = LEADER =>
                elected = {} /\ log'[j] = <<>> /\ log[j] = <<>>
<1>1. PICK i \in Server :
        /\ RoleStep(i)
        /\ \A j \in Server : role[j] = LEADER \/ role'[j] = LEADER =>
             log'[j] = log[j]
  <2>1. ASSUME NEW m \in net, Handle(m.to, m)
        PROVE  /\ m.to \in Server /\ RoleStep(m.to)
               /\ \A j \in Server : role[j] = LEADER \/ role'[j] = LEADER =>
                    log'[j] = log[j]
    BY <2>1, MessageKinds, HandlerRoleStep, HandlerLeaderLog DEF TypeOK
  <2>2. ASSUME NEW i \in Server,
               FollowerTimeout(i) \/ CandidateTimeout(i) \/ LeaderTimeout(i)
        PROVE  /\ RoleStep(i)
               /\ \A j \in Server : role[j] = LEADER \/ role'[j] = LEADER =>
                    log'[j] = log[j]
    <3>1. UNCHANGED log
      BY <2>2 DEF FollowerTimeout, CandidateTimeout, LeaderTimeout, logVars
    <3> QED BY <2>2, <3>1, OtherRoleStep
  <2> QED BY <2>1, <2>2 DEF RunStep
<1>2. /\ IsFiniteSet(elected) /\ IsFiniteSet(elected)'
      /\ powerOffs = 0 /\ ElectedInv
      /\ Cardinality(elected') <= 1 /\ Cardinality(elected) <= 1
  BY <1>1, ElectionsGrow DEF SoloInv, OneLeader
<1>3. OneLeader
  BY <1>2 DEF OneLeader
<1>4. ASSUME NEW j \in Server, role[j] # LEADER, role'[j] = LEADER
      PROVE  elected = {} /\ log'[j] = <<>> /\ log[j] = <<>>
  <2>1. /\ role[i] = CANDIDATE /\ elected' = elected \cup {<<i, term[i]>>}
    BY <1>1, <1>4 DEF RoleStep, TypeOK, FOLLOWER, CANDIDATE, LEADER
  <2>2. term[i] \in Nat
    BY DEF TypeOK
  <2>3. elected = {}
    BY <1>2, <2>1, <2>2, FirstElection
  <2> QED BY <1>1, <1>3, <1>4, <2>3, BeforeElection
<1>5. elected \subseteq elected'
  BY <1>1 DEF RoleStep
<1> QED BY <1>1, <1>3, <1>4, <1>5

=============================================================================

--------------------------- MODULE RaftLogProofs ---------------------------
(***************************************************************************)
(* What Raft's logs hold, for every cluster: everything in a node's log    *)
(* has been handed to its disk log and, as long as no node goes down, the  *)
(* terms along a log never decrease.                                       *)
(***************************************************************************)
EXTENDS RaftTypeProofs

-----------------------------------------------------------------------------
(* Logs and disk logs.                                                     *)

\* All entries of sequence s occur in sequence d.
OnDisk(s, d) == \A k \in 1..Len(s) : \E h \in 1..Len(d) : d[h] = s[k]

\* What is appended to a log and to its disk log is on disk afterwards.
LEMMA AppendedOnDisk ==
    ASSUME NEW s \in Seq(LogEntry), NEW d \in Seq(LogEntry),
           NEW es \in Seq(LogEntry), OnDisk(s, d)
    PROVE  OnDisk(s \o es, d \o es)
<1>1. /\ Len(s) \in Nat /\ Len(d) \in Nat /\ Len(es) \in Nat
      /\ Len(s \o es) = Len(s) + Len(es)
      /\ Len(d \o es) = Len(d) + Len(es)
  BY LenProperties, ConcatProperties
<1> SUFFICES ASSUME NEW k \in 1..Len(s \o es)
             PROVE  \E h \in 1..Len(d \o es) : (d \o es)[h] = (s \o es)[k]
  BY DEF OnDisk
<1>2. CASE k <= Len(s)
  <2>1. k \in 1..Len(s) /\ (s \o es)[k] = s[k]
    BY <1>1, <1>2, ConcatProperties
  <2>2. PICK h \in 1..Len(d) : d[h] = s[k]
    BY <2>1 DEF OnDisk
  <2>3. h \in 1..Len(d \o es) /\ (d \o es)[h] = d[h]
    BY <1>1, <2>2, ConcatProperties
  <2> QED BY <2>1, <2>2, <2>3
<1>3. CASE k > Len(s)
  <2> DEFINE h == Len(d) + (k - Len(s))
  <2>1. h \in 1..Len(d \o es) /\ h > Len(d) /\ h - Len(d) = k - Len(s)
    BY <1>1, <1>3
  <2>2. (s \o es)[k] = es[k - Len(s)]
    BY <1>1, <1>3, ConcatProperties
  <2> HIDE DEF h
  <2>3. (d \o es)[h] = es[h - Len(d)]
    BY <1>1, <2>1, ConcatProperties
  <2> QED BY <2>1, <2>2, <2>3
<1> QED BY <1>1, <1>2, <1>3

\* The first n entries of a log.
LEMMA PrefixEntries ==
    ASSUME NEW l \in Seq(LogEntry), NEW n \in Nat, n <= Len(l)
    PROVE  /\ SubSeq(l, 1, n) \in Seq(LogEntry)
           /\ Len(SubSeq(l, 1, n)) = n
           /\ \A k \in 1..n : SubSeq(l, 1, n)[k] = l[k]
<1>1. Len(l) \in Nat
  BY LenProperties
<1>2. \A h \in 1..n : l[h] \in LogEntry
  BY <1>1, ElementOfSeq
<1>3. /\ SubSeq(l, 1, n) \in Seq(LogEntry)
      /\ Len(SubSeq(l, 1, n)) = IF 1 <= n THEN n - 1 + 1 ELSE 0
      /\ \A k \in 1..n - 1 + 1 : SubSeq(l, 1, n)[k] = l[1 + k - 1]
  BY <1>2, SubSeqProperties
<1> QED BY <1>3

\* The first n entries of a log are on disk if the log is.
LEMMA PrefixOnDisk ==
    ASSUME NEW s \in Seq(LogEntry), NEW d \in Seq(LogEntry), OnDisk(s, d),
           NEW n \in Nat, n <= Len(s)
    PROVE  SubSeq(s, 1, n) \in Seq(LogEntry) /\ OnDisk(SubSeq(s, 1, n), d)
<1>1. Len(s) \in Nat
  BY LenProperties
<1> DEFINE q == SubSeq(s, 1, n)
<1>2. /\ q \in Seq(LogEntry) /\ Len(q) = n
      /\ \A k \in 1..n : k \in 1..Len(s) /\ q[k] = s[k]
  BY <1>1, PrefixEntries
<1> HIDE DEF q
<1>3. OnDisk(q, d)
  BY <1>2 DEF OnDisk
<1> QED BY <1>2, <1>3 DEF q

\* A step of one node that leaves its log on its disk keeps the invariant.
LEMMA OneNodeDurable ==
    ASSUME TypeOK, LogDurable, NEW i \in Server,
           \A k \in Server \ {i} : log'[k] = log[k] /\ diskLog'[k] = diskLog[k],
           OnDisk(log'[i], diskLog'[i])
    PROVE  LogDurable'
BY DEF LogDurable, OnDisk

LEMMA LogsUnchanged ==
    ASSUME LogDurable, UNCHANGED logVars
    PROVE  LogDurable'
BY DEF LogDurable, logVars

LEMMA LeaderAppendEventDurable ==
    ASSUME TypeOK, LogDurable, NEW i \in Server, NEW c \in Command,
           LeaderAppendEvent(i, c)
    PROVE  LogDurable'
<1> DEFINE entry == [term |-> term[i], cmd |-> c]
<1>1. entry \in LogEntry
  BY DEF LogEntry, TypeOK
<1>2. log[i] \in Seq(LogEntry) /\ diskLog[i] \in Seq(LogEntry)
  BY DEF TypeOK
<1>3. /\ log'[i] = Append(log[i], entry)
      /\ diskLog'[i] = diskLog[i] \o <<entry>>
      /\ \A k \in Server \ {i} : log'[k] = log[k] /\ diskLog'[k] = diskLog[k]
  BY DEF LeaderAppendEvent, LogStore, TypeOK
<1> HIDE DEF entry
<1>4. <<entry>> \in Seq(LogEntry)
  BY <1>1
<1>5. Append(log[i], entry) = log[i] \o <<entry>>
  BY <1>1, <1>2, AppendIsConcat
<1>6. OnDisk(log[i], diskLog[i])
  BY DEF LogDurable, OnDisk
<1>7. OnDisk(log[i] \o <<entry>>, diskLog[i] \o <<entry>>)
  BY <1>2, <1>4, <1>6, AppendedOnDisk
<1>8. OnDisk(log'[i], diskLog'[i])
  BY <1>3, <1>5, <1>7
<1> QED BY <1>3, <1>8, OneNodeDurable

\* What a follower keeps was on disk; what it appends is appended there too.
LEMMA FollowerAppendReqDurable ==
    ASSUME TypeOK, LogDurable, NEW m \in net, NEW i \in Server,
           FollowerAppendReq(i, m)
    PROVE  LogDurable'
<1>1. CASE FollowerStaleAppendReq(i, m) \/ FollowerHeartbeat(i, m)
             \/ FollowerRejectsEntries(i, m)
  BY <1>1, LogsUnchanged
  DEF FollowerStaleAppendReq, FollowerHeartbeat, FollowerRejectsEntries
<1>2. CASE FollowerAppendsEntries(i, m)
  <2>1. m.prevIndex \in Nat /\ m.entries \in Seq(LogEntry)
    BY MessageKinds DEF TypeOK, FollowerAppendReq, AppendEntriesReqEvent
  <2>2. /\ log[i] \in Seq(LogEntry) /\ diskLog[i] \in Seq(LogEntry)
        /\ OnDisk(log[i], diskLog[i])
    BY DEF TypeOK, LogDurable, OnDisk
  <2> DEFINE rest(k) == SubSeq(m.entries, k + 1, Len(m.entries))
             new(k)  == IF rest(k) = <<>> THEN log[i]
                        ELSE SubSeq(log[i], 1, m.prevIndex + k) \o rest(k)
  <2>3. PICK k \in 0..Len(m.entries) :
          /\ \A h \in 1..k : Present(log[i], m, h)
          /\ log' = [log EXCEPT ![i] = new(k)]
          /\ LogStore(i, rest(k))
    BY <1>2 DEF FollowerAppendsEntries
  <2>4. k \in Nat /\ m.prevIndex + k \in Nat /\ m.prevIndex + k <= Len(log[i])
    <3>1. k \in Nat /\ Len(m.entries) \in Nat
      BY <2>1, LenProperties
    <3>2. CASE k = 0
      BY <1>2, <2>1, <2>2, <3>2, LenProperties
      DEF FollowerAppendsEntries, PrevMatches
    <3>3. CASE k # 0
      <4>1. k \in 1..k
        BY <3>1, <3>3
      <4> QED BY <2>1, <2>3, <3>1, <4>1 DEF Present
    <3> QED BY <3>2, <3>3
  <2>5. rest(k) \in Seq(LogEntry)
    BY <2>1, <2>2, <2>3, <2>4, SplicedLog
  <2>6. OnDisk(new(k), diskLog[i] \o rest(k))
    <3> DEFINE r == rest(k)
    <3>1. r \in Seq(LogEntry)
      BY <2>5
    <3>2. CASE r = <<>>
      <4>1. diskLog[i] \o <<>> = diskLog[i]
        BY <2>2, ConcatEmptySeq
      <4> QED BY <2>2, <3>2, <4>1
    <3>3. CASE r # <<>>
      <4>1. /\ SubSeq(log[i], 1, m.prevIndex + k) \in Seq(LogEntry)
            /\ OnDisk(SubSeq(log[i], 1, m.prevIndex + k), diskLog[i])
        BY <2>2, <2>4, PrefixOnDisk
      <4>2. new(k) = SubSeq(log[i], 1, m.prevIndex + k) \o r
        BY <3>3
      <4> HIDE DEF r, new
      <4>3. OnDisk(SubSeq(log[i], 1, m.prevIndex + k) \o r, diskLog[i] \o r)
        BY <2>2, <3>1, <4>1, AppendedOnDisk
      <4> QED BY <4>2, <4>3 DEF r
    <3> QED BY <3>2, <3>3
  <2> HIDE DEF rest, new
  <2>7. /\ log'[i] = new(k) /\ diskLog'[i] = diskLog[i] \o rest(k)
        /\ \A j \in Server \ {i} : log'[j] = log[j] /\ diskLog'[j] = diskLog[j]
    BY <2>3 DEF LogStore, TypeOK
  <2> QED BY <2>6, <2>7, OneNodeDurable
<1> QED BY <1>1, <1>2 DEF FollowerAppendReq

\* A node restarts with all of its disk log.
LEMMA NewDurable ==
    ASSUME TypeOK, LogDurable, NEW i \in Server, New(i)
    PROVE  LogDurable'
<1>1. /\ log'[i] = diskLog[i] /\ diskLog' = diskLog
      /\ \A k \in Server \ {i} : log'[k] = log[k]
  BY DEF New, TypeOK
<1>2. OnDisk(diskLog[i], diskLog[i])
  BY DEF OnDisk
<1> QED BY <1>1, <1>2, OneNodeDurable

\* Every entry of a node's log has been handed to its disk log, in whatever
\* order follower.go:153-195 cut and extended the log.
THEOREM LogsDurable == Spec => []LogDurable
<1>1. Init => LogDurable
  BY DEF Init, LogDurable
<1>2. TypeOK /\ LogDurable /\ [Next]_vars => LogDurable'
  <2> SUFFICES ASSUME TypeOK, LogDurable, [Next]_vars PROVE LogDurable'
    OBVIOUS
  <2>1. ASSUME NEW m \in net, Handle(m.to, m) PROVE LogDurable'
    <3>1. m.to \in Server
      BY MessageKinds DEF TypeOK
    <3>2. CASE FollowerAppendReq(m.to, m)
      BY <3>1, <3>2, FollowerAppendReqDurable
    <3>3. CASE ~FollowerAppendReq(m.to, m)
      <4>1. UNCHANGED logVars
        BY <2>1, <3>3
        DEF Handle, FollowerVoteReq, FollowerResp, CandidateVoteReq,
            CandidateVoteResp, CandidateAppendReq, CandidateAppendResp,
            LeaderVoteReq, LeaderVoteResp, LeaderAppendReq, LeaderAppendResp
      <4> QED BY <4>1, LogsUnchanged
    <3> QED BY <3>2, <3>3
  <2>2. ASSUME NEW i \in Server,
               \/ FollowerTimeout(i)
               \/ CandidateTimeout(i)
               \/ LeaderTimeout(i)
               \/ \E c \in Command : LeaderAppendEvent(i, c)
               \/ Shutdown(i)
               \/ New(i)
        PROVE  LogDurable'
    BY <2>2, LogsUnchanged, LeaderAppendEventDurable, NewDurable
    DEF FollowerTimeout, CandidateTimeout, LeaderTimeout, Shutdown
  <2>3. CASE UNCHANGED vars
    BY <2>3, LogsUnchanged DEF vars, logVars
  <2> QED BY <2>1, <2>2, <2>3 DEF Next
<1> QED BY <1>1, <1>2, TypeCorrect, PTL DEF Spec

-----------------------------------------------------------------------------
(* The terms along a log, while no node goes down.                         *)

\* The terms of sequence l never decrease and never exceed t.
Ordered(l, t) ==
    \A k \in 1..Len(l) :
        /\ l[k].term <= t
        /\ \A h \in 1..k : l[h].term <= l[k].term

\* The entries of request m continue a log whose terms are ordered.
OrderedReq(m) ==
    m.type = "AppendReq" =>
        /\ Ordered(m.entries, m.term)
        /\ m.prevIndex > 0 =>
             \A k \in 1..Len(m.entries) : m.prevTerm <= m.entries[k].term

\* The inductive invariant: what is sent continues an ordered log.  A node
\* that came back could have an older term than its log.
OrderInv ==
    /\ \A i \in Server : role[i] # POWEROFF
    /\ \A i \in Server : Ordered(log[i], term[i])
    /\ \A m \in net : OrderedReq(m)

\* A node's step that takes its term nowhere back.
TermKept(i) ==
    \/ UNCHANGED term
    \/ \E t \in Nat : t >= term[i] /\ term' = [term EXCEPT ![i] = t]

LEMMA TermKeptGrows ==
    ASSUME TypeOK, NEW i \in Server, TermKept(i)
    PROVE  \A k \in Server : term'[k] >= term[k]
<1>1. \A k \in Server : term[k] \in Nat /\ term[k] >= term[k]
  BY DEF TypeOK
<1>2. CASE UNCHANGED term
  BY <1>1, <1>2
<1>3. ASSUME NEW t \in Nat, t >= term[i], term' = [term EXCEPT ![i] = t]
      PROVE  \A k \in Server : term'[k] >= term[k]
  <2>1. \A k \in Server : term'[k] = IF k = i THEN t ELSE term[k]
    BY <1>3 DEF TypeOK
  <2> QED BY <1>1, <1>3, <2>1
<1> QED BY <1>2, <1>3 DEF TermKept

\* A node's role changes to none but FOLLOWER, CANDIDATE and LEADER.
RoleRuns(i) ==
    \/ UNCHANGED role
    \/ \E r \in {FOLLOWER, CANDIDATE, LEADER} : role' = [role EXCEPT ![i] = r]

LEMMA OrderedLater ==
    ASSUME NEW l \in Seq(LogEntry), NEW t \in Nat, NEW u \in Nat, t <= u,
           Ordered(l, t)
    PROVE  Ordered(l, u)
<1>1. ASSUME NEW k \in 1..Len(l) PROVE l[k].term \in Nat
  <2>1. l[k] \in LogEntry
    BY ElementOfSeq
  <2> QED BY <2>1 DEF LogEntry
<1> QED BY <1>1 DEF Ordered

\* A step in which node i's log stays or becomes ordered up to its new term.
LEMMA LogOrder ==
    ASSUME TypeOK, TypeOK', OrderInv, NEW i \in Server,
           TermKept(i), RoleRuns(i), Ordered(log'[i], term'[i]),
           \A k \in Server \ {i} : log'[k] = log[k],
           \A m \in net' : m \in net \/ OrderedReq(m)
    PROVE  OrderInv'
<1>1. \A k \in Server : role'[k] # POWEROFF
  BY DEF OrderInv, RoleRuns, TypeOK, FOLLOWER, CANDIDATE, LEADER, POWEROFF
<1>2. ASSUME NEW k \in Server PROVE Ordered(log'[k], term'[k])
  <2>1. /\ log[k] \in Seq(LogEntry) /\ term[k] \in Nat /\ term'[k] \in Nat
        /\ term[k] <= term'[k] /\ Ordered(log[k], term[k])
    BY TermKeptGrows DEF TypeOK, OrderInv
  <2>2. Ordered(log[k], term'[k])
    BY <2>1, OrderedLater
  <2> QED BY <2>2
<1>3. \A m \in net' : OrderedReq(m)
  BY DEF OrderInv
<1>4. (\A k \in Server : Ordered(log[k], term[k]))'
  BY <1>2 DEF Ordered
<1>5. (\A m \in net : OrderedReq(m))'
  BY <1>3 DEF OrderedReq, Ordered
<1> QED BY <1>1, <1>4, <1>5 DEF OrderInv

\* A step of one node that touches no log and sends ordered requests only.
LEMMA QuietOrder ==
    ASSUME TypeOK, TypeOK', OrderInv, NEW i \in Server,
           UNCHANGED log, TermKept(i), RoleRuns(i),
           \A m \in net' : m \in net \/ OrderedReq(m)
    PROVE  OrderInv'
<1>1. /\ log[i] \in Seq(LogEntry) /\ term[i] \in Nat /\ term'[i] \in Nat
      /\ log'[i] = log[i] /\ term[i] <= term'[i] /\ Ordered(log[i], term[i])
  BY TermKeptGrows DEF TypeOK, OrderInv
<1>2. Ordered(log'[i], term'[i])
  BY <1>1, OrderedLater
<1> QED BY <1>2, LogOrder

\* A step that sends ordered requests, or none.
LEMMA OrderedSend ==
    ASSUME NEW received, NEW sent, Transmit(received, sent),
           \A r \in sent : OrderedReq(r)
    PROVE  \A x \in net' : x \in net \/ OrderedReq(x)
BY DEF Transmit

LEMMA OrderedHeartbeat ==
    ASSUME NEW i \in Server, NEW j PROVE OrderedReq(Heartbeat(i, j))
<1>1. Heartbeat(i, j).entries = <<>> /\ Len(<<>>) = 0
  BY DEF Heartbeat
<1> QED BY <1>1 DEF OrderedReq, Ordered

LEMMA StoreStateKeepsTerm ==
    ASSUME TypeOK, NEW i \in Server, NEW t \in Nat, NEW v, t >= term[i],
           StoreState(i, t, v)
    PROVE  TermKept(i)
BY DEF StoreState, TermKept

\* Consecutive entries of an ordered log are ordered.
LEMMA OrderedPart ==
    ASSUME NEW l \in Seq(LogEntry), NEW t \in Nat, Ordered(l, t),
           NEW lo \in Nat \ {0}, NEW hi \in Nat, hi <= Len(l)
    PROVE  /\ SubSeq(l, lo, hi) \in Seq(LogEntry)
           /\ Len(SubSeq(l, lo, hi)) = IF lo <= hi THEN hi - lo + 1 ELSE 0
           /\ \A k \in 1..Len(SubSeq(l, lo, hi)) :
                /\ lo + k - 1 \in lo..hi
                /\ SubSeq(l, lo, hi)[k] = l[lo + k - 1]
           /\ Ordered(SubSeq(l, lo, hi), t)
<1> DEFINE s == SubSeq(l, lo, hi)
<1>1. Len(l) \in Nat
  BY LenProperties
<1>2. \A h \in lo..hi : l[h] \in LogEntry
  BY <1>1, ElementOfSeq
<1>3. /\ s \in Seq(LogEntry)
      /\ Len(s) = IF lo <= hi THEN hi - lo + 1 ELSE 0
      /\ \A k \in 1..hi - lo + 1 : s[k] = l[lo + k - 1]
  BY <1>2, SubSeqProperties
<1> HIDE DEF s
<1>4. \A k \in 1..Len(s) : lo + k - 1 \in lo..hi /\ s[k] = l[lo + k - 1]
  BY <1>3
<1>5. ASSUME NEW k \in 1..Len(s), NEW h \in 1..k
      PROVE  s[k].term <= t /\ s[h].term <= s[k].term
  <2>1. Len(s) \in Nat /\ h \in 1..Len(s)
    BY <1>3
  <2>2. lo + k - 1 \in 1..Len(l) /\ lo + h - 1 \in 1..(lo + k - 1)
    BY <1>1, <1>4
  <2>3. l[lo + k - 1].term <= t /\ l[lo + h - 1].term <= l[lo + k - 1].term
    BY <2>2 DEF Ordered
  <2> QED BY <1>4, <2>1, <2>3
<1>6. ASSUME NEW k \in 1..Len(s) PROVE k \in 1..k
  OBVIOUS
<1>7. Ordered(s, t)
  BY <1>5, <1>6 DEF Ordered
<1> QED BY <1>3, <1>4, <1>7 DEF s

\* What replication sends are consecutive entries of the leader's log.
LEMMA OrderedReplication ==
    ASSUME TypeOK, OrderInv, NEW i \in Server, NEW j \in Server
    PROVE  OrderedReq(Replication(i, j))
<1> DEFINE n == nextIndex[i][j]
           l == log[i]
<1>1. /\ n \in Nat \ {0} /\ l \in Seq(LogEntry) /\ Len(l) \in Nat
      /\ term[i] \in Nat /\ Ordered(l, term[i])
  BY LenProperties DEF TypeOK, OrderInv
<1>2. CASE ~(n <= Len(l))
  BY <1>2, OrderedHeartbeat DEF Replication
<1>3. CASE n <= Len(l)
  <2> DEFINE es == SubSeq(l, n, Len(l))
             r  == Replication(i, j)
  <2>1. /\ r.type = "AppendReq" /\ r.term = term[i] /\ r.entries = es
        /\ r.prevIndex = n - 1
        /\ r.prevIndex > 0 => r.prevTerm = l[n - 1].term
    BY <1>1, <1>3 DEF Replication, Heartbeat
  <2> HIDE DEF n, l, r
  <2>2. /\ \A k \in 1..Len(es) : n + k - 1 \in n..Len(l) /\ es[k] = l[n + k - 1]
        /\ Ordered(es, term[i])
    BY <1>1, OrderedPart
  <2> HIDE DEF es
  <2>3. ASSUME n - 1 > 0, NEW k \in 1..Len(es)
        PROVE  l[n - 1].term <= es[k].term
    <3>1. n - 1 \in 1..(n + k - 1) /\ n + k - 1 \in 1..Len(l)
      BY <1>1, <2>2, <2>3
    <3> QED BY <1>1, <2>2, <3>1 DEF Ordered
  <2> QED BY <2>1, <2>2, <2>3 DEF OrderedReq, r
<1> QED BY <1>2, <1>3

LEMMA OrderedConcat ==
    ASSUME NEW a \in Seq(LogEntry), NEW b \in Seq(LogEntry), NEW t \in Nat,
           Ordered(a, t), Ordered(b, t),
           \A x \in 1..Len(a), y \in 1..Len(b) : a[x].term <= b[y].term
    PROVE  Ordered(a \o b, t)
<1> DEFINE c == a \o b
<1>1. /\ Len(a) \in Nat /\ Len(b) \in Nat /\ Len(c) = Len(a) + Len(b)
      /\ \A k \in 1..Len(a) + Len(b) :
           c[k] = IF k <= Len(a) THEN a[k] ELSE b[k - Len(a)]
  BY LenProperties, ConcatProperties
<1> HIDE DEF c
<1>2. ASSUME NEW k \in 1..Len(c) PROVE c[k].term <= t
  <2>1. CASE k <= Len(a)
    BY <1>1, <2>1 DEF Ordered
  <2>2. CASE k > Len(a)
    <3>1. k - Len(a) \in 1..Len(b) /\ c[k] = b[k - Len(a)]
      BY <1>1, <2>2
    <3> QED BY <3>1 DEF Ordered
  <2> QED BY <1>1, <2>1, <2>2
<1>3. ASSUME NEW k \in 1..Len(c), NEW h \in 1..k PROVE c[h].term <= c[k].term
  <2>1. CASE k <= Len(a)
    <3>1. k \in 1..Len(a) /\ c[k] = a[k] /\ c[h] = a[h]
      BY <1>1, <2>1
    <3> QED BY <3>1 DEF Ordered
  <2>2. CASE h > Len(a)
    <3>1. /\ k - Len(a) \in 1..Len(b) /\ h - Len(a) \in 1..(k - Len(a))
          /\ c[k] = b[k - Len(a)] /\ c[h] = b[h - Len(a)]
      BY <1>1, <2>2
    <3> QED BY <3>1 DEF Ordered
  <2>3. CASE h <= Len(a) /\ k > Len(a)
    <3>1. /\ k - Len(a) \in 1..Len(b) /\ h \in 1..Len(a)
          /\ c[k] = b[k - Len(a)] /\ c[h] = a[h]
      BY <1>1, <2>3
    <3> QED BY <3>1
  <2> QED BY <1>1, <2>1, <2>2, <2>3
<1> QED BY <1>2, <1>3 DEF Ordered, c

\* A handler takes over terms from messages only if they are no older.
LEMMA HandlerTerm ==
    ASSUME TypeOK, NEW m \in net, NEW i \in Server, Handle(i, m)
    PROVE  TermKept(i)
<1>1. m.term \in Nat /\ term[i] \in Nat
  BY MessageKinds DEF TypeOK
<1>2. \/ UNCHANGED term
      \/ m.term >= term[i] /\ \E v : StoreState(i, m.term, v)
  <2>1. CASE FollowerVoteReq(i, m)
    BY <1>1, <2>1 DEF FollowerVoteReq, FollowerStaleVoteReq, FollowerGrantsVote,
                FollowerRejectsLog, FollowerAlreadyVoted, stateVars
  <2>2. CASE FollowerAppendReq(i, m)
    BY <1>1, <2>2 DEF FollowerAppendReq, FollowerStaleAppendReq,
                FollowerHeartbeat, FollowerRejectsEntries,
                FollowerAppendsEntries, FollowLeader, stateVars
  <2>3. CASE FollowerResp(i, m)
    BY <1>1, <2>3 DEF FollowerResp, stateVars
  <2>4. CASE CandidateVoteReq(i, m)
    <3>1. CASE m.term <= term[i]
      BY <2>4, <3>1 DEF CandidateVoteReq, stateVars
    <3>2. CASE ~(m.term <= term[i])
      <4>1. StoreState(i, m.term, m.from)
        BY <2>4, <3>2 DEF CandidateVoteReq
      <4>2. m.term >= term[i]
        BY <1>1, <3>2
      <4> QED BY <4>1, <4>2
    <3> QED BY <3>1, <3>2
  <2>5. CASE CandidateVoteResp(i, m)
    BY <1>1, <2>5 DEF CandidateVoteResp, CandidateOutdated, CandidateWins,
                CandidateLoses, CandidateKeepsWaiting, stateVars
  <2>6. CASE CandidateAppendReq(i, m)
    <3>1. CASE m.term >= term[i]
      BY <2>6, <3>1 DEF CandidateAppendReq
    <3>2. CASE ~(m.term >= term[i])
      BY <2>6, <3>2 DEF CandidateAppendReq, stateVars
    <3> QED BY <3>1, <3>2
  <2>7. CASE CandidateAppendResp(i, m) \/ LeaderVoteResp(i, m)
               \/ LeaderAppendReq(i, m)
    <3>1. CASE m.term > term[i]
      <4>1. StoreState(i, m.term, NoServer)
        BY <2>7, <3>1
        DEF CandidateAppendResp, LeaderVoteResp, LeaderAppendReq
      <4>2. m.term >= term[i]
        BY <1>1, <3>1
      <4> QED BY <4>1, <4>2
    <3>2. CASE ~(m.term > term[i])
      BY <2>7, <3>2
      DEF CandidateAppendResp, LeaderVoteResp, LeaderAppendReq, stateVars
    <3> QED BY <3>1, <3>2
  <2>8. CASE LeaderAppendResp(i, m)
    BY <1>1, <2>8 DEF LeaderAppendResp, LeaderFailedResp, LeaderSuccessResp,
                stateVars
  <2>9. CASE LeaderVoteReq(i, m)
    <3>1. CASE m.term <= term[i]
      BY <2>9, <3>1 DEF LeaderVoteReq, stateVars
    <3>2. CASE ~(m.term <= term[i])
      BY <1>1, <2>9, <3>2 DEF LeaderVoteReq
    <3> QED BY <3>1, <3>2
  <2> QED
    BY <2>1, <2>2, <2>3, <2>4, <2>5, <2>6, <2>7, <2>8, <2>9 DEF Handle
<1>3. UNCHANGED term => TermKept(i)
  BY DEF TermKept
<1> QED BY <1>1, <1>2, <1>3, StoreStateKeepsTerm

\* No message makes a node go down.
LEMMA HandlerRole ==
    ASSUME NEW m \in net, NEW i \in Server, Handle(i, m)
    PROVE  RoleRuns(i)
<1>1. CASE FollowerVoteReq(i, m) \/ FollowerAppendReq(i, m) \/ FollowerResp(i, m)
  BY <1>1 DEF RoleRuns, FollowerVoteReq, FollowerAppendReq, FollowerResp
<1>2. CASE CandidateVoteReq(i, m) \/ CandidateAppendReq(i, m)
             \/ CandidateAppendResp(i, m)
  BY <1>2 DEF RoleRuns, CandidateVoteReq, CandidateAppendReq,
              CandidateAppendResp
<1>3. CASE CandidateVoteResp(i, m)
  BY <1>3 DEF RoleRuns, CandidateVoteResp, CandidateOutdated, CandidateWins,
              CandidateLoses, CandidateKeepsWaiting, Leadership
<1>4. CASE LeaderVoteReq(i, m) \/ LeaderVoteResp(i, m) \/ LeaderAppendReq(i, m)
  BY <1>4 DEF RoleRuns, LeaderVoteReq, LeaderVoteResp, LeaderAppendReq, StepDown
<1>5. CASE LeaderAppendResp(i, m)
  BY <1>5 DEF RoleRuns, LeaderAppendResp, LeaderFailedResp, LeaderSuccessResp,
              StepDown
<1> QED BY <1>1, <1>2, <1>3, <1>4, <1>5 DEF Handle

\* Message x is no request, or a heartbeat of node i.
Quiet(i, x) == x.type = "AppendReq" => \E j : x = Heartbeat(i, j)

LEMMA QuietSend ==
    ASSUME NEW i, NEW received, NEW sent, Transmit(received, sent),
           \A r \in sent : Quiet(i, r)
    PROVE  \A x \in net' : x \in net \/ Quiet(i, x)
BY DEF Transmit

LEMMA QuietAnswer ==
    ASSUME NEW i, NEW m, NEW r, r.type # "AppendReq", Reply(m, r)
    PROVE  \A x \in net' : x \in net \/ Quiet(i, x)
BY QuietSend DEF Reply, Quiet

LEMMA QuietConsume ==
    ASSUME NEW i, NEW m, Consume(m)
    PROVE  \A x \in net' : x \in net \/ Quiet(i, x)
BY QuietSend DEF Consume

\* The only requests a handler sends are a new leader's heartbeats.
LEMMA HandlerRequests ==
    ASSUME NEW m \in net, NEW i \in Server, Handle(i, m)
    PROVE  \A x \in net' : x \in net \/ Quiet(i, x)
<1>1. ASSUME NEW id, NEW t, NEW g, Reply(m, VoteResp(id, m, t, g))
      PROVE  \A x \in net' : x \in net \/ Quiet(i, x)
  BY <1>1, QuietAnswer DEF VoteResp
<1>2. ASSUME NEW t, NEW g, NEW n, Reply(m, AppendResp(i, m, t, g, n))
      PROVE  \A x \in net' : x \in net \/ Quiet(i, x)
  BY <1>2, QuietAnswer DEF AppendResp
<1>3. CASE FollowerVoteReq(i, m) \/ CandidateVoteReq(i, m) \/ LeaderVoteReq(i, m)
  <2>1. \E id, t, g : Reply(m, VoteResp(id, m, t, g))
    <3>1. CASE FollowerVoteReq(i, m)
      BY <3>1 DEF FollowerVoteReq, FollowerStaleVoteReq, FollowerGrantsVote,
                  FollowerRejectsLog, FollowerAlreadyVoted
    <3>2. CASE CandidateVoteReq(i, m)
      BY <3>2 DEF CandidateVoteReq
    <3>3. CASE LeaderVoteReq(i, m)
      BY <3>3 DEF LeaderVoteReq
    <3> QED BY <1>3, <3>1, <3>2, <3>3
  <2> QED BY <1>1, <2>1
<1>4. CASE FollowerAppendReq(i, m) \/ LeaderAppendReq(i, m)
  <2>1. \E t, g, n : Reply(m, AppendResp(i, m, t, g, n))
    <3>1. CASE FollowerAppendReq(i, m)
      BY <3>1 DEF FollowerAppendReq, FollowerStaleAppendReq, FollowerHeartbeat,
                  FollowerRejectsEntries, FollowerAppendsEntries
    <3>2. CASE LeaderAppendReq(i, m)
      BY <3>2 DEF LeaderAppendReq
    <3> QED BY <1>4, <3>1, <3>2
  <2> QED BY <1>2, <2>1
<1>5. CASE CandidateAppendReq(i, m)
  <2> DEFINE ok == AppendResp(i, m, m.term, TRUE, Len(log[i]))
             failed == AppendResp(i, m, term[i], FALSE, Len(log[i]))
  <2>1. Transmit({m}, {ok}) \/ Transmit({m}, {}) \/ Transmit({m}, {failed})
    BY <1>5 DEF CandidateAppendReq, Reply
  <2>2. Quiet(i, ok) /\ Quiet(i, failed)
    BY DEF Quiet, AppendResp
  <2> HIDE DEF ok, failed
  <2> QED BY <2>1, <2>2, QuietSend
<1>6. CASE FollowerResp(i, m) \/ CandidateAppendResp(i, m)
             \/ LeaderVoteResp(i, m) \/ LeaderAppendResp(i, m)
  BY <1>6, QuietConsume
  DEF FollowerResp, CandidateAppendResp, LeaderVoteResp, LeaderAppendResp
<1>7. CASE CandidateVoteResp(i, m)
  <2> DEFINE sent == {Heartbeat(i, j) : j \in Server \ {i}}
  <2>1. Consume(m) \/ Transmit({m}, sent)
    BY <1>7 DEF CandidateVoteResp, CandidateOutdated, CandidateWins,
                CandidateLoses, CandidateKeepsWaiting, Leadership
  <2>2. \A r \in sent : Quiet(i, r)
    BY DEF Quiet
  <2> HIDE DEF sent
  <2> QED BY <2>1, <2>2, QuietConsume, QuietSend
<1> QED BY <1>3, <1>4, <1>5, <1>6, <1>7 DEF Handle

LEMMA HandlerSends ==
    ASSUME NEW m \in net, NEW i \in Server, Handle(i, m)
    PROVE  \A x \in net' : x \in net \/ OrderedReq(x)
<1>1. \A x : Quiet(i, x) => OrderedReq(x)
  BY OrderedHeartbeat DEF Quiet, OrderedReq
<1> QED BY <1>1, HandlerRequests

LEMMA TimeoutOrder ==
    ASSUME TypeOK, TypeOK', OrderInv, NEW i \in Server,
           FollowerTimeout(i) \/ CandidateTimeout(i)
    PROVE  OrderInv' /\ TermKept(i)
<1>1. Candidacy(i, term[i] + 1) /\ UNCHANGED log
  BY DEF FollowerTimeout, CandidateTimeout, logVars
<1>2. TermKept(i)
  <2>1. term[i] \in Nat
    BY DEF TypeOK
  <2>2. term[i] + 1 \in Nat /\ term[i] + 1 >= term[i]
    BY <2>1
  <2> QED BY <1>1, <2>2 DEF Candidacy, TermKept
<1>3. RoleRuns(i)
  BY <1>1 DEF Candidacy, RoleRuns
<1>4. \A x \in net' : x \in net \/ OrderedReq(x)
  <2> DEFINE sent == {VoteReq(i, j, term[i] + 1) : j \in Server \ {i}}
  <2>1. Transmit({}, sent)
    BY <1>1 DEF Candidacy
  <2>2. \A r \in sent : OrderedReq(r)
    BY DEF VoteReq, OrderedReq
  <2> HIDE DEF sent
  <2> QED BY <2>1, <2>2, OrderedSend
<1> QED BY <1>1, <1>2, <1>3, <1>4, QuietOrder

LEMMA LeaderTimeoutOrder ==
    ASSUME TypeOK, TypeOK', OrderInv, NEW i \in Server, LeaderTimeout(i)
    PROVE  OrderInv' /\ TermKept(i)
<1>1. UNCHANGED <<log, term, role>>
  BY DEF LeaderTimeout, logVars, stateVars
<1>2. TermKept(i) /\ RoleRuns(i)
  BY <1>1 DEF TermKept, RoleRuns
<1>3. \A x \in net' : x \in net \/ OrderedReq(x)
  <2> DEFINE sent == {Replication(i, j) : j \in Server \ {i}}
  <2>1. Transmit({}, sent)
    BY DEF LeaderTimeout
  <2>2. \A r \in sent : OrderedReq(r)
    BY OrderedReplication
  <2> HIDE DEF sent
  <2> QED BY <2>1, <2>2, OrderedSend
<1> QED BY <1>1, <1>2, <1>3, QuietOrder

\* A leader's own term is the newest in its log.
LEMMA LeaderAppendEventOrder ==
    ASSUME TypeOK, TypeOK', OrderInv, NEW i \in Server, NEW c \in Command,
           LeaderAppendEvent(i, c)
    PROVE  OrderInv' /\ TermKept(i)
<1> DEFINE entry == [term |-> term[i], cmd |-> c]
<1>1. UNCHANGED <<term, role, net>>
  BY DEF LeaderAppendEvent, stateVars
<1>2. TermKept(i) /\ RoleRuns(i)
  BY <1>1 DEF TermKept, RoleRuns
<1>3. /\ log[i] \in Seq(LogEntry) /\ term[i] \in Nat
      /\ Ordered(log[i], term[i])
      /\ entry \in LogEntry
  BY DEF TypeOK, OrderInv, LogEntry
<1>4. /\ log'[i] = Append(log[i], entry)
      /\ \A k \in Server \ {i} : log'[k] = log[k]
  BY DEF LeaderAppendEvent, TypeOK
<1>5. Ordered(log'[i], term'[i])
  <2>1. Append(log[i], entry) = log[i] \o <<entry>> /\ <<entry>> \in Seq(LogEntry)
    BY <1>3, AppendIsConcat
  <2>2. /\ Len(<<entry>>) = 1 /\ <<entry>>[1] = entry /\ entry.term = term[i]
    OBVIOUS
  <2> HIDE DEF entry
  <2>3. Ordered(<<entry>>, term[i])
    BY <1>3, <2>2 DEF Ordered
  <2>4. \A x \in 1..Len(log[i]), y \in 1..Len(<<entry>>) :
          log[i][x].term <= <<entry>>[y].term
    BY <1>3, <2>2 DEF Ordered
  <2>5. Ordered(log[i] \o <<entry>>, term[i])
    BY <1>3, <2>1, <2>3, <2>4, OrderedConcat
  <2> QED BY <1>1, <1>4, <2>1, <2>5
<1> QED BY <1>1, <1>2, <1>4, <1>5, LogOrder

\* What a follower appends is no older than what it keeps: the entry before it
\* has the term of the entry the leader sent there, or of the one before.
LEMMA SpliceOrder ==
    ASSUME TypeOK, TypeOK', OrderInv, NEW m \in net, NEW i \in Server,
           TermKept(i), FollowerAppendReq(i, m), FollowerAppendsEntries(i, m)
    PROVE  Ordered(log'[i], term'[i])
<1> DEFINE es == m.entries
           l  == log[i]
           rest(k) == SubSeq(es, k + 1, Len(es))
           kept(k) == SubSeq(l, 1, m.prevIndex + k)
<1>1. /\ m.prevIndex \in Nat /\ es \in Seq(LogEntry) /\ m.term \in Nat
      /\ Len(es) \in Nat /\ l \in Seq(LogEntry) /\ Len(l) \in Nat
      /\ term[i] \in Nat /\ term'[i] \in Nat
  <2>1. m.prevIndex \in Nat /\ es \in Seq(LogEntry) /\ m.term \in Nat
    BY MessageKinds DEF TypeOK, FollowerAppendReq, AppendEntriesReqEvent
  <2>2. l \in Seq(LogEntry) /\ term[i] \in Nat /\ term'[i] \in Nat
    BY DEF TypeOK
  <2> HIDE DEF es, l
  <2> QED BY <2>1, <2>2, LenProperties
<1>2. /\ Ordered(l, term[i]) /\ Ordered(es, m.term)
      /\ m.prevIndex > 0 => \A k \in 1..Len(es) : m.prevTerm <= es[k].term
  BY DEF OrderInv, OrderedReq, FollowerAppendReq
<1>3. term[i] <= term'[i]
  BY TermKeptGrows
<1>4. m.term <= term'[i]
  <2>1. FollowLeader(i, m)
    BY DEF FollowerAppendsEntries
  <2>2. CASE m.term > term[i]
    <3>1. StoreState(i, m.term, NoServer)
      BY <2>1, <2>2 DEF FollowLeader
    <3> QED BY <1>1, <3>1 DEF StoreState, TypeOK
  <2>3. CASE ~(m.term > term[i])
    BY <1>1, <1>3, <2>3
  <2> QED BY <2>2, <2>3
<1>5. Ordered(l, term'[i]) /\ Ordered(es, term'[i])
  BY <1>1, <1>2, <1>3, <1>4, OrderedLater
<1>6. PICK k \in 0..Len(es) :
        /\ \A h \in 1..k : Present(l, m, h)
        /\ log' = [log EXCEPT ![i] =
                     IF rest(k) = <<>> THEN l ELSE kept(k) \o rest(k)]
  BY DEF FollowerAppendsEntries
<1>7. log'[i] = IF rest(k) = <<>> THEN l ELSE kept(k) \o rest(k)
  BY <1>6 DEF TypeOK
<1>8. PrevMatches(l, m)
  BY DEF FollowerAppendsEntries
<1> HIDE DEF es, l
<1>9. /\ k \in Nat /\ m.prevIndex + k \in Nat /\ m.prevIndex + k <= Len(l)
      /\ k > 0 => l[m.prevIndex + k].term = es[k].term
  <2>1. CASE k = 0
    BY <1>1, <1>8, <2>1 DEF PrevMatches
  <2>2. CASE k # 0
    <3>1. k \in 1..k
      BY <1>1, <2>2
    <3> QED BY <1>1, <1>6, <3>1 DEF Present, es
  <2> QED BY <2>1, <2>2
<1>10. /\ rest(k) \in Seq(LogEntry)
       /\ Ordered(rest(k), term'[i])
       /\ \A y \in 1..Len(rest(k)) :
            k + y \in (k + 1)..Len(es) /\ rest(k)[y] = es[k + y]
  <2>1. k + 1 \in Nat \ {0} /\ Len(es) <= Len(es)
    BY <1>1, <1>9
  <2>2. /\ rest(k) \in Seq(LogEntry)
        /\ Ordered(rest(k), term'[i])
        /\ \A y \in 1..Len(rest(k)) :
             k + 1 + y - 1 \in (k + 1)..Len(es) /\ rest(k)[y] = es[k + 1 + y - 1]
    BY <1>1, <1>5, <2>1, OrderedPart
  <2>3. \A y \in Int : k + 1 + y - 1 = k + y
    BY <1>9
  <2> QED BY <2>2, <2>3
<1>11. /\ kept(k) \in Seq(LogEntry)
       /\ Ordered(kept(k), term'[i])
       /\ \A x \in 1..Len(kept(k)) :
            x \in 1..(m.prevIndex + k) /\ kept(k)[x] = l[x]
  <2>1. /\ kept(k) \in Seq(LogEntry)
        /\ Ordered(kept(k), term'[i])
        /\ \A x \in 1..Len(kept(k)) :
             1 + x - 1 \in 1..(m.prevIndex + k) /\ kept(k)[x] = l[1 + x - 1]
    BY <1>1, <1>5, <1>9, OrderedPart
  <2>2. \A x \in Int : 1 + x - 1 = x
    OBVIOUS
  <2> QED BY <2>1, <2>2
<1>12. ASSUME NEW x \in 1..(m.prevIndex + k), NEW y \in (k + 1)..Len(es)
       PROVE  l[x].term <= es[y].term
  <2> DEFINE p == m.prevIndex + k
  <2>1. p \in 1..Len(l) /\ x \in 1..p /\ x \in 1..Len(l) /\ y \in 1..Len(es)
    BY <1>1, <1>9, <1>12
  <2>2. l[x].term <= l[p].term
    BY <2>1, <1>2 DEF Ordered
  <2>3. l[p].term <= es[y].term
    <3>1. CASE k = 0
      <4>1. p = m.prevIndex /\ m.prevIndex > 0
        BY <1>1, <2>1, <3>1
      <4>2. l[p].term = m.prevTerm
        BY <1>8, <4>1 DEF PrevMatches
      <4> QED BY <1>2, <2>1, <4>1, <4>2
    <3>2. CASE k # 0
      <4>1. k > 0 /\ k \in 1..y
        BY <1>1, <1>9, <1>12, <3>2
      <4> QED BY <1>2, <1>9, <2>1, <4>1 DEF Ordered
    <3> QED BY <3>1, <3>2
  <2>4. l[x] \in LogEntry /\ l[p] \in LogEntry /\ es[y] \in LogEntry
    BY <1>1, <2>1, ElementOfSeq
  <2>5. l[x].term \in Nat /\ l[p].term \in Nat /\ es[y].term \in Nat
    BY <2>4 DEF LogEntry
  <2> HIDE DEF p
  <2> QED BY <2>2, <2>3, <2>5
<1> HIDE DEF rest, kept
<1>13. Ordered(kept(k) \o rest(k), term'[i])
  BY <1>1, <1>10, <1>11, <1>12, OrderedConcat
<1> QED BY <1>5, <1>7, <1>13

LEMMA HandlerOrder ==
    ASSUME TypeOK, TypeOK', OrderInv, NEW m \in net, NEW i \in Server,
           Handle(i, m)
    PROVE  OrderInv' /\ TermKept(i)
<1>1. /\ TermKept(i) /\ RoleRuns(i)
      /\ \A x \in net' : x \in net \/ OrderedReq(x)
  BY HandlerTerm, HandlerRole, HandlerSends
<1>2. CASE FollowerAppendReq(i, m) /\ FollowerAppendsEntries(i, m)
  <2>1. \A k \in Server \ {i} : log'[k] = log[k]
    BY <1>2 DEF FollowerAppendsEntries, TypeOK
  <2>2. Ordered(log'[i], term'[i])
    BY <1>1, <1>2, SpliceOrder
  <2> QED BY <1>1, <2>1, <2>2, LogOrder
<1>3. CASE ~(FollowerAppendReq(i, m) /\ FollowerAppendsEntries(i, m))
  <2>1. UNCHANGED log
    BY <1>3
    DEF Handle, FollowerVoteReq, FollowerAppendReq, FollowerStaleAppendReq,
        FollowerHeartbeat, FollowerRejectsEntries, FollowerResp,
        CandidateVoteReq, CandidateVoteResp, CandidateAppendReq,
        CandidateAppendResp, LeaderVoteReq, LeaderVoteResp, LeaderAppendReq,
        LeaderAppendResp, logVars
  <2> QED BY <1>1, <2>1, QuietOrder
<1> QED BY <1>2, <1>3

LEMMA NextOrder ==
    ASSUME MaxPowerOffs = 0, TypeOK, TypeOK', OrderInv, [Next]_vars
    PROVE  OrderInv' /\ \A k \in Server : term'[k] >= term[k]
<1>1. ASSUME NEW m \in net, Handle(m.to, m)
      PROVE  OrderInv' /\ \E i \in Server : TermKept(i)
  <2>1. m.to \in Server
    BY MessageKinds DEF TypeOK
  <2> QED BY <1>1, <2>1, HandlerOrder
<1>2. ASSUME NEW i \in Server,
             \/ FollowerTimeout(i)
             \/ CandidateTimeout(i)
             \/ LeaderTimeout(i)
             \/ \E c \in Command : LeaderAppendEvent(i, c)
      PROVE  OrderInv' /\ TermKept(i)
  BY <1>2, TimeoutOrder, LeaderTimeoutOrder, LeaderAppendEventOrder
<1>3. ASSUME NEW i \in Server PROVE ~Shutdown(i) /\ ~New(i)
  BY DEF Shutdown, New, OrderInv, TypeOK
<1>4. CASE UNCHANGED vars
  <2>1. UNCHANGED <<role, term, log, net>>
    BY <1>4 DEF vars, stateVars, logVars
  <2>2. OrderInv'
    BY <2>1 DEF OrderInv, Ordered, OrderedReq
  <2>3. PICK i \in Server : TRUE
    BY ServerAssumption
  <2> QED BY <2>1, <2>2, <2>3, TermKeptGrows DEF TermKept
<1> QED BY <1>1, <1>2, <1>3, <1>4, TermKeptGrows DEF Next

LEMMA InitOrder == Init => OrderInv
BY DEF Init, ForEach, OrderInv, Ordered, FOLLOWER, POWEROFF

\* While no node goes down, terms never decrease along a log and never exceed
\* the node's: follower.go:58 and leader.go:256 may compare last terms.
THEOREM TermsOrdered ==
    ASSUME MaxPowerOffs = 0
    PROVE  Spec => []LogTermsOrdered
<1>1. TypeOK /\ TypeOK' /\ OrderInv /\ [Next]_vars => OrderInv'
  BY NextOrder
<1>2. OrderInv => LogTermsOrdered
  BY DEF OrderInv, Ordered, LogTermsOrdered
<1> QED BY <1>1, <1>2, InitOrder, TypeCorrect, PTL DEF Spec

\* While no node goes down, no handler takes over an older term (node.go:301).
THEOREM TermsGrow ==
    ASSUME MaxPowerOffs = 0
    PROVE  Spec => TermNeverDecreases
<1>1. TypeOK /\ TypeOK' /\ OrderInv /\ [Next]_vars =>
        OrderInv' /\ [\A i \in Server : term'[i] >= term[i]]_vars
  BY NextOrder
<1> QED BY <1>1, InitOrder, TypeCorrect, PTL DEF Spec, TermNeverDecreases

-----------------------------------------------------------------------------
(* Answers to the clients of a leader, while no node goes down.            *)

\* Entry k of leader i's log stays uncommitted where it is.
StaysUncommitted(i, k) ==
    /\ role'[i] = LEADER
    /\ commitIndex'[i] < k
    /\ Len(log'[i]) >= k /\ log'[i][k] = log[i][k]

\* The command of entry k of leader i's log is delivered in this step.
DeliveredNow(i, k) ==
    /\ Len(delivered'[i]) > Len(delivered[i])
    /\ \E d \in (Len(delivered[i]) + 1)..Len(delivered'[i]) :
          delivered'[i][d] = log[i][k].cmd

AnswersKept(i) ==
    \A k \in (commitIndex[i] + 1)..Len(log[i]) :
        \/ StaysUncommitted(i, k)
        \/ DeliveredNow(i, k)
        \/ <<i, log[i][k].cmd>> \in nacked'

LEMMA StillLeaderAnswers ==
    ASSUME TypeOK, NEW i \in Server, role'[i] = LEADER,
           log'[i] = log[i], commitIndex'[i] = commitIndex[i]
    PROVE  AnswersKept(i)
<1>1. commitIndex[i] \in Nat /\ Len(log[i]) \in Nat
  BY LenProperties DEF TypeOK
<1> QED BY <1>1 DEF AnswersKept, StaysUncommitted

LEMMA StepDownAnswers ==
    ASSUME NEW i \in Server, StepDown(i)
    PROVE  AnswersKept(i)
BY DEF AnswersKept, StepDown

\* The entries that a leader newly counts as committed are delivered.
LEMMA CommitAnswers ==
    ASSUME TypeOK, NEW i \in Server, role[i] = LEADER, UNCHANGED <<role, log>>,
           NEW n \in Nat, CommitUpTo(i, n), n >= commitIndex[i],
           n > commitIndex[i] => n <= Len(log[i])
    PROVE  AnswersKept(i)
<1> DEFINE c    == commitIndex[i]
           cmds == Commands(log[i], c, n)
           old  == delivered[i]
<1>1. /\ c \in Nat /\ log[i] \in Seq(LogEntry) /\ Len(log[i]) \in Nat
      /\ old \in Seq(Command) /\ Len(old) \in Nat
  BY LenProperties DEF TypeOK
<1>2. /\ cmds \in Seq(Command) /\ Len(cmds) = n - c
      /\ \A k \in 1..(n - c) : cmds[k] = log[i][c + k].cmd
  BY <1>1, CommandsType
<1>3. commitIndex'[i] = n /\ delivered'[i] = old \o cmds
  BY DEF CommitUpTo, TypeOK
<1> HIDE DEF old, cmds
<1>4. /\ Len(old \o cmds) = Len(old) + Len(cmds)
      /\ \A d \in 1..Len(old) + Len(cmds) :
           (old \o cmds)[d] = IF d <= Len(old) THEN old[d] ELSE cmds[d - Len(old)]
  BY <1>1, <1>2, ConcatProperties
<1> HIDE DEF c
<1> SUFFICES ASSUME NEW k \in (c + 1)..Len(log[i])
             PROVE  StaysUncommitted(i, k) \/ DeliveredNow(i, k)
  BY DEF AnswersKept, c
<1>5. CASE n < k
  BY <1>1, <1>3, <1>5 DEF StaysUncommitted, c
<1>6. CASE k <= n
  <2> DEFINE d == Len(old) + (k - c)
  <2>1. /\ d \in (Len(old) + 1)..Len(old \o cmds)
        /\ d \in 1..Len(old) + Len(cmds)
        /\ d > Len(old) /\ d - Len(old) = k - c
        /\ k - c \in 1..(n - c) /\ c + (k - c) = k
        /\ Len(old \o cmds) > Len(old)
    <3>1. Len(old \o cmds) = Len(old) + (n - c)
      BY <1>2, <1>4
    <3>2. k \in Nat /\ k > c
      BY <1>1
    <3>3. n - c \in Nat /\ k - c \in 1..(n - c) /\ c + (k - c) = k
      BY <1>1, <1>6, <3>2
    <3>4. d \in Nat /\ d > Len(old) /\ d - Len(old) = k - c
      BY <1>1, <3>3
    <3>5. d <= Len(old) + (n - c)
      BY <1>1, <3>3
    <3> HIDE DEF d
    <3> QED BY <1>1, <1>2, <3>1, <3>3, <3>4, <3>5
  <2> HIDE DEF d
  <2>2. (old \o cmds)[d] = cmds[d - Len(old)]
    BY <1>1, <1>4, <2>1
  <2>3. (old \o cmds)[d] = log[i][k].cmd
    BY <1>2, <2>1, <2>2
  <2> QED BY <1>3, <2>1, <2>3 DEF DeliveredNow, old
<1> QED BY <1>1, <1>5, <1>6

LEMMA LeaderAppendRespAnswers ==
    ASSUME TypeOK, NEW m \in net, NEW i \in Server, LeaderAppendResp(i, m)
    PROVE  AnswersKept(i)
<1>1. UNCHANGED log /\ role[i] = LEADER
  BY DEF LeaderAppendResp, logVars
<1>2. CASE LeaderFailedResp(i, m)
  <2>1. StepDown(i) \/ UNCHANGED <<role, commitVars>>
    BY <1>2 DEF LeaderFailedResp
  <2> QED BY <1>1, <2>1, StepDownAnswers, StillLeaderAnswers DEF commitVars
<1>3. CASE LeaderSuccessResp(i, m)
  <2>1. UNCHANGED role
    BY <1>3 DEF LeaderSuccessResp
  <2>2. CASE m.index = 0
    BY <1>1, <1>3, <2>1, <2>2, StillLeaderAnswers
    DEF LeaderSuccessResp, commitVars
  <2>3. CASE m.index # 0
    <3> DEFINE match == [matchIndex[i] EXCEPT ![m.from] = m.index]
    <3>1. PICK n \in Committable(i, match) :
            /\ \A k \in Committable(i, match) : k <= n
            /\ CommitUpTo(i, n)
      BY <1>3, <2>3 DEF LeaderSuccessResp
    <3> HIDE DEF match
    <3>2. commitIndex[i] \in Nat /\ Len(log[i]) \in Nat
      BY LenProperties DEF TypeOK
    <3>3. commitIndex[i] \in Committable(i, match)
      BY DEF Committable
    <3>4. n = commitIndex[i] \/ n \in 1..Len(log[i])
      BY <3>1 DEF Committable
    <3>5. /\ n \in Nat /\ n >= commitIndex[i]
          /\ n > commitIndex[i] => n <= Len(log[i])
      BY <3>1, <3>2, <3>3, <3>4
    <3> QED BY <1>1, <2>1, <3>1, <3>5, CommitAnswers
  <2> QED BY <2>2, <2>3
<1> QED BY <1>2, <1>3 DEF LeaderAppendResp

LEMMA HandlerAnswers ==
    ASSUME TypeOK, NEW m \in net, NEW i \in Server, Handle(i, m),
           NEW j \in Server, role[j] = LEADER
    PROVE  AnswersKept(j)
<1>1. CASE j = i
  <2>1. CASE LeaderAppendResp(i, m)
    BY <1>1, <2>1, LeaderAppendRespAnswers
  <2>2. CASE LeaderVoteReq(i, m) \/ LeaderVoteResp(i, m) \/ LeaderAppendReq(i, m)
    <3>1. StepDown(i) \/ UNCHANGED role
      BY <2>2 DEF LeaderVoteReq, LeaderVoteResp, LeaderAppendReq
    <3>2. UNCHANGED <<logVars, commitVars>>
      BY <2>2 DEF LeaderVoteReq, LeaderVoteResp, LeaderAppendReq
    <3> QED BY <1>1, <3>1, <3>2, StepDownAnswers, StillLeaderAnswers
            DEF logVars, commitVars
  <2> QED
    BY <1>1, <2>1, <2>2
    DEF Handle, FollowerVoteReq, FollowerAppendReq, FollowerResp,
        CandidateVoteReq, CandidateVoteResp, CandidateAppendReq,
        CandidateAppendResp, FOLLOWER, CANDIDATE, LEADER
<1>2. CASE j # i
  <2>1. RoleRuns(i)
    BY HandlerRole
  <2>2. role'[j] = role[j]
    BY <1>2, <2>1 DEF RoleRuns, TypeOK
  <2>3. /\ UNCHANGED log \/ \E l : log' = [log EXCEPT ![i] = l]
        /\ UNCHANGED commitIndex \/ \E n : commitIndex' = [commitIndex EXCEPT ![i] = n]
    <3>1. CASE FollowerAppendReq(i, m)
      BY <3>1 DEF FollowerAppendReq, FollowerStaleAppendReq, FollowerHeartbeat,
                  FollowerRejectsEntries, FollowerAppendsEntries, CommitUpTo,
                  logVars, commitVars
    <3>2. CASE LeaderAppendResp(i, m)
      BY <3>2 DEF LeaderAppendResp, LeaderFailedResp, LeaderSuccessResp,
                  CommitUpTo, logVars, commitVars
    <3>3. CASE ~FollowerAppendReq(i, m) /\ ~LeaderAppendResp(i, m)
      BY <3>3 DEF Handle, FollowerVoteReq, FollowerResp, CandidateVoteReq,
                  CandidateVoteResp, CandidateAppendReq, CandidateAppendResp,
                  LeaderVoteReq, LeaderVoteResp, LeaderAppendReq,
                  logVars, commitVars
    <3> QED BY <3>1, <3>2, <3>3
  <2>4. log'[j] = log[j] /\ commitIndex'[j] = commitIndex[j]
    BY <1>2, <2>3 DEF TypeOK
  <2> QED BY <2>2, <2>4, StillLeaderAnswers
<1> QED BY <1>1, <1>2

LEMMA LeaderAppendEventAnswers ==
    ASSUME TypeOK, NEW i \in Server, NEW c \in Command, LeaderAppendEvent(i, c),
           NEW j \in Server, role[j] = LEADER
    PROVE  AnswersKept(j)
<1> DEFINE entry == [term |-> term[i], cmd |-> c]
<1>1. UNCHANGED <<role, commitIndex>>
  BY DEF LeaderAppendEvent, commitVars
<1>2. log' = [log EXCEPT ![i] = Append(@, entry)]
  BY DEF LeaderAppendEvent
<1>3. entry \in LogEntry
  BY DEF LogEntry, TypeOK
<1>4. /\ log[j] \in Seq(LogEntry) /\ Len(log[j]) \in Nat
      /\ commitIndex[j] \in Nat /\ log \in [Server -> Seq(LogEntry)]
  BY LenProperties DEF TypeOK
<1> HIDE DEF entry
<1>5. CASE j # i
  BY <1>1, <1>2, <1>4, <1>5, StillLeaderAnswers
<1>6. CASE j = i
  <2>1. log'[j] = Append(log[j], entry)
    BY <1>2, <1>4, <1>6
  <2>2. /\ Len(log'[j]) = Len(log[j]) + 1
        /\ \A k \in 1..Len(log[j]) : log'[j][k] = log[j][k]
    BY <1>3, <1>4, <2>1, AppendProperties
  <2> QED BY <1>1, <1>4, <2>2 DEF AnswersKept, StaysUncommitted
<1> QED BY <1>5, <1>6

\* While no node goes down, no client of a leader is left without an answer by
\* the entry it appended being cut away or the leader stepping down silently:
\* leader.go:271-274 and the NACKs (leader.go:110, 154, 189, 291) reach all of
\* them.
THEOREM LeadersAnswer ==
    ASSUME MaxPowerOffs = 0
    PROVE  Spec => UncommittedAnswered
<1>1. ASSUME TypeOK, Next, NEW j \in Server, role[j] = LEADER
      PROVE  AnswersKept(j)
  <2>1. ASSUME NEW m \in net, Handle(m.to, m) PROVE AnswersKept(j)
    <3>1. m.to \in Server
      BY <1>1, MessageKinds DEF TypeOK
    <3> QED BY <1>1, <2>1, <3>1, HandlerAnswers
  <2>2. ASSUME NEW i \in Server,
               FollowerTimeout(i) \/ CandidateTimeout(i) \/ LeaderTimeout(i)
        PROVE  AnswersKept(j)
    <3>1. UNCHANGED <<log, commitIndex>>
      BY <2>2 DEF FollowerTimeout, CandidateTimeout, LeaderTimeout, logVars,
                  commitVars
    <3>2. role'[j] = LEADER
      BY <1>1, <2>2 DEF FollowerTimeout, CandidateTimeout, LeaderTimeout,
                        Candidacy, TypeOK, FOLLOWER, CANDIDATE, LEADER
    <3> QED BY <1>1, <3>1, <3>2, StillLeaderAnswers
  <2>3. ASSUME NEW i \in Server, NEW c \in Command, LeaderAppendEvent(i, c)
        PROVE  AnswersKept(j)
    BY <1>1, <2>3, LeaderAppendEventAnswers
  <2>4. ASSUME NEW i \in Server, Shutdown(i) PROVE FALSE
    BY <1>1, <2>4 DEF Shutdown, TypeOK
  <2>5. ASSUME NEW i \in Server, New(i) PROVE AnswersKept(j)
    <3>1. j # i /\ \A k \in Server \ {i} :
                     /\ role'[k] = role[k] /\ log'[k] = log[k]
                     /\ commitIndex'[k] = commitIndex[k]
      BY <1>1, <2>5 DEF New, TypeOK, LEADER, POWEROFF
    <3> QED BY <1>1, <3>1, StillLeaderAnswers
  <2> QED BY <1>1, <2>1, <2>2, <2>3, <2>4, <2>5 DEF Next
<1>2. TypeOK /\ [Next]_vars =>
        [\A i \in Server : role[i] = LEADER => AnswersKept(i)]_vars
  BY <1>1
<1>3. (\A i \in Server : role[i] = LEADER => AnswersKept(i)) <=>
      (\A i \in Server : role[i] = LEADER =>
         \A k \in (commitIndex[i] + 1)..Len(log[i]) :
            \/ /\ role'[i] = LEADER
               /\ commitIndex'[i] < k
               /\ Len(log'[i]) >= k /\ log'[i][k] = log[i][k]
            \/ /\ Len(delivered'[i]) > Len(delivered[i])
               /\ \E d \in (Len(delivered[i]) + 1)..Len(delivered'[i]) :
                     delivered'[i][d] = log[i][k].cmd
            \/ <<i, log[i][k].cmd>> \in nacked')
  BY DEF AnswersKept, StaysUncommitted, DeliveredNow
<1> QED BY <1>2, <1>3, TypeCorrect, PTL DEF Spec, UncommittedAnswered

=============================================================================

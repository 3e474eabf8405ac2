-------------------------- MODULE NodeRuntimeProofs --------------------------
(***************************************************************************)
(* Proofs about the goroutines of one node, for channels of any capacity,  *)
(* any number of peers and any number of events: type correctness, that    *)
(* records are on disk before a message relies on them, and that the timer *)
(* runs for the role of the node.                                          *)
(***************************************************************************)
EXTENDS NodeRuntime, SequenceTheorems, FiniteSetTheorems, TLAPS

-----------------------------------------------------------------------------
(* What the handlers push.                                                 *)

Kind == Alarm \cup Record \cup {"Send", "Commit", "Quit"}

\* No record follows a message.
Tidy(acts) ==
    /\ acts \in Seq(Kind)
    /\ \A k \in 1..Len(acts) : \A j \in 1..(k - 1) :
         acts[k] \in Record => acts[j] # "Send"

LEMMA TidyWithoutSend ==
    ASSUME NEW acts \in Seq(Kind \ {"Send"})
    PROVE  Tidy(acts)
<1>1. Len(acts) \in Nat
  BY LenProperties
<1>2. acts \in Seq(Kind)
  BY SeqMonotonic, Kind \ {"Send"} \subseteq Kind
<1>3. \A k \in 1..Len(acts) : acts[k] # "Send"
  BY ElementOfSeq
<1> QED
  BY <1>1, <1>2, <1>3 DEF Tidy

LEMMA TidyWithoutRecord ==
    ASSUME NEW acts \in Seq(Kind \ Record)
    PROVE  Tidy(acts)
<1>1. acts \in Seq(Kind)
  BY SeqMonotonic, Kind \ Record \subseteq Kind
<1>2. \A k \in 1..Len(acts) : acts[k] \notin Record
  BY ElementOfSeq
<1> QED
  BY <1>1, <1>2 DEF Tidy

LEMMA TidyConcat ==
    ASSUME NEW acts, Tidy(acts), NEW more \in Seq(Kind \ Record)
    PROVE  Tidy(acts \o more)
<1>1. acts \in Seq(Kind) /\ Len(acts) \in Nat /\ Len(more) \in Nat
  BY LenProperties DEF Tidy
<1>2. more \in Seq(Kind)
  BY SeqMonotonic, Kind \ Record \subseteq Kind
<1>3. /\ acts \o more \in Seq(Kind)
      /\ Len(acts \o more) = Len(acts) + Len(more)
      /\ \A i \in 1..Len(acts) + Len(more) :
           (acts \o more)[i] = IF i <= Len(acts) THEN acts[i]
                                                 ELSE more[i - Len(acts)]
  BY <1>1, <1>2, ConcatProperties
<1>4. \A k \in 1..Len(more) : more[k] \notin Record
  BY ElementOfSeq
<1> SUFFICES ASSUME NEW k \in 1..Len(acts \o more), NEW j \in 1..(k - 1),
                    (acts \o more)[k] \in Record
             PROVE  (acts \o more)[j] # "Send"
  BY <1>3 DEF Tidy
<1>5. k <= Len(acts)
  <2>1. CASE k > Len(acts)
    <3>1. k - Len(acts) \in 1..Len(more)
      BY <1>1, <1>3, <2>1
    <3>2. (acts \o more)[k] = more[k - Len(acts)]
      BY <1>1, <1>3, <2>1
    <3> QED BY <3>1, <3>2, <1>4
  <2> QED BY <2>1, <1>1, <1>3
<1>6. /\ (acts \o more)[k] = acts[k] /\ (acts \o more)[j] = acts[j]
      /\ k \in 1..Len(acts)
  BY <1>1, <1>3, <1>5
<1> QED
  BY <1>6 DEF Tidy

LEMMA SendsKinds == Sends \in Seq(Kind \ Record) /\ Sends \in Seq(Kind \ Alarm)
<1>1. "Send" \in Kind \ Record /\ "Send" \in Kind \ Alarm
  BY DEF Kind, Record, Alarm, ElectionTimeout, HeartbeatTimeout, HighTimeout
<1>2. Peers \in Nat
  BY SizeAssumption
<1> QED
  BY <1>1, <1>2 DEF Sends

\* The time for which the timer runs in each role.
TimeOf(state) == IF state = LEADER THEN HeartbeatTimeout ELSE ElectionTimeout

\* Kinds that an action may have while the node stays in state.
KindIn(state) == (Kind \ Alarm) \cup {TimeOf(state)}

LEMMA Kinds ==
    /\ "Send" \in Kind \ Record /\ "Commit" \in Kind \ Record
    /\ "Quit" \in Kind \ Record
    /\ \A a \in Alarm : a \in Kind \ Record /\ a \in Kind \ {"Send"}
    /\ \A a \in Record : a \in Kind \ {"Send"} /\ a \in Kind \ Alarm
    /\ "Commit" \in Kind \ {"Send"}
    /\ "Send" \notin Alarm /\ "Commit" \notin Alarm /\ "Quit" \notin Alarm
    /\ ElectionTimeout \in Alarm /\ HeartbeatTimeout \in Alarm
    /\ HighTimeout \in Alarm
    /\ HighTimeout # ElectionTimeout /\ HighTimeout # HeartbeatTimeout
    /\ "StateStore" \in Record /\ "LogStore" \in Record
BY DEF Kind, Record, Alarm, ElectionTimeout, HeartbeatTimeout, HighTimeout

LEMMA MaybeKind ==
    ASSUME NEW S, NEW a \in S, NEW s \in Maybe(a)
    PROVE  s \in Seq(S)
<1>1. s = <<>> \/ s = <<a>>
  BY DEF Maybe
<1>2. <<>> \in Seq(S) /\ <<a>> \in Seq(S)
  OBVIOUS
<1> QED
  BY <1>1, <1>2

\* What is known of a case that a handler takes: its actions are tidy; if the
\* node stays in its role, they set no other alarm than the role's own, and
\* after a timeout they do set it.
CaseFacts(state, e, case) ==
    /\ Tidy(case.acts)
    /\ case.next \in State \cup {Stays}
    /\ case.next = Stays =>
         /\ case.acts \in Seq(KindIn(state))
         /\ e = "Timeout" =>
              \E k \in 1..Len(case.acts) : case.acts[k] \in Alarm

LEMMA StayFacts ==
    ASSUME NEW state, NEW e, NEW acts, Tidy(acts),
           acts \in Seq(KindIn(state)), e # "Timeout"
    PROVE  CaseFacts(state, e, Stay(acts))
BY DEF CaseFacts, Stay

LEMMA GoFacts ==
    ASSUME NEW state, NEW e, NEW acts, Tidy(acts), NEW next \in State
    PROVE  CaseFacts(state, e, Go(acts, next))
BY DEF CaseFacts, Go, State, Stays, FOLLOWER, CANDIDATE, LEADER, POWEROFF

LEMMA PowerOffFacts ==
    ASSUME NEW state, NEW e
    PROVE  CaseFacts(state, e, PowerOff)
<1>1. <<HighTimeout, "Quit">> \in Seq(Kind \ Record)
  BY Kinds
<1>2. POWEROFF \in State
  BY DEF State
<1> QED
  BY <1>1, <1>2, TidyWithoutRecord, GoFacts DEF PowerOff

\* The actions of the three roles' cases, in the words of the lemmas above.
LEMMA ShortFacts ==
    /\ Tidy(<<>>) /\ Tidy(<<"StateStore">>) /\ Tidy(<<"LogStore">>)
    /\ Tidy(<<"Send">>) /\ Tidy(<<"Commit">>) /\ Tidy(<<HighTimeout>>)
    /\ Tidy(<<"StateStore", "Send">>)
    /\ Tidy(<<HighTimeout, "StateStore">>)
    /\ Tidy(<<HighTimeout, "StateStore", "Send">>)
    /\ Tidy(<<"StateStore", HighTimeout>>)
    /\ <<"Send">> \in Seq(Kind \ Record)
<1>1. /\ <<>> \in Seq(Kind \ {"Send"})
      /\ <<"StateStore">> \in Seq(Kind \ {"Send"})
      /\ <<"LogStore">> \in Seq(Kind \ {"Send"})
      /\ <<HighTimeout>> \in Seq(Kind \ {"Send"})
      /\ <<HighTimeout, "StateStore">> \in Seq(Kind \ {"Send"})
      /\ <<"StateStore", HighTimeout>> \in Seq(Kind \ {"Send"})
      /\ <<"Commit">> \in Seq(Kind \ Record)
      /\ <<"Send">> \in Seq(Kind \ Record)
  BY Kinds
<1>2. Tidy(<<"StateStore", "Send">>)
  <2> DEFINE t == <<"StateStore", "Send">>
  <2>1. t \in Seq(Kind) /\ Len(t) = 2 /\ t[1] = "StateStore" /\ t[2] = "Send"
    BY Kinds DEF Kind
  <2>2. t[2] \notin Record
    BY <2>1 DEF Record
  <2> HIDE DEF t
  <2>3. Tidy(t)
    BY <2>1, <2>2 DEF Tidy
  <2> QED BY <2>3 DEF t
<1>3. Tidy(<<HighTimeout, "StateStore", "Send">>)
  <2> DEFINE t == <<HighTimeout, "StateStore", "Send">>
  <2>1. /\ t \in Seq(Kind) /\ Len(t) = 3
        /\ t[1] = HighTimeout /\ t[2] = "StateStore" /\ t[3] = "Send"
    BY Kinds DEF Kind
  <2>2. t[3] \notin Record /\ t[1] # "Send" /\ t[2] # "Send"
    BY <2>1, Kinds DEF Record
  <2> HIDE DEF t
  <2>3. Tidy(t)
    BY <2>1, <2>2 DEF Tidy
  <2> QED BY <2>3 DEF t
<1> QED
  BY <1>1, <1>2, <1>3, TidyWithoutSend, TidyWithoutRecord

LEMMA FollowerFacts ==
    ASSUME NEW e \in Event, NEW case \in FollowerCases(e)
    PROVE  CaseFacts(FOLLOWER, e, case)
<1> DEFINE K == KindIn(FOLLOWER)
<1>1. /\ "Send" \in K /\ "Commit" \in K /\ ElectionTimeout \in K
      /\ "StateStore" \in K /\ "LogStore" \in K
  BY Kinds DEF KindIn, TimeOf, FOLLOWER, LEADER
<1>2. FOLLOWER \in State /\ CANDIDATE \in State
  BY DEF State
<1>3. /\ <<>> \in Seq(K) /\ <<"Send">> \in Seq(K) /\ <<"Commit">> \in Seq(K)
      /\ <<ElectionTimeout>> \in Seq(K)
  BY <1>1
<1>4. CASE e = "Timeout"
  BY <1>2, <1>4, ShortFacts, GoFacts DEF FollowerCases
<1>5. CASE e = "VoteReq"
  <2>1. CASE case = Stay(<<"Send">>)
    BY <1>3, <1>5, <2>1, ShortFacts, StayFacts
  <2>2. CASE \E s \in Maybe("StateStore") :
               case = Stay(<<ElectionTimeout>> \o s \o <<"Send">>)
    <3>1. PICK s \in Maybe("StateStore") :
                 case = Stay(<<ElectionTimeout>> \o s \o <<"Send">>)
      BY <2>2
    <3>2. s \in Seq(K) /\ s \in Seq(Kind \ {"Send"})
      BY <1>1, Kinds, MaybeKind
    <3>3. <<ElectionTimeout>> \o s \o <<"Send">> \in Seq(K)
      BY <1>3, <3>2
    <3>4. <<ElectionTimeout>> \o s \in Seq(Kind \ {"Send"})
      BY <3>2, Kinds
    <3>5. Tidy(<<ElectionTimeout>> \o s \o <<"Send">>)
      BY <3>4, TidyWithoutSend, TidyConcat, ShortFacts
    <3> QED BY <1>5, <3>1, <3>3, <3>5, StayFacts
  <2> QED BY <1>5, <2>1, <2>2 DEF FollowerCases
<1>6. CASE e = "AppendReq"
  <2>1. CASE case = Stay(<<"Send">>)
    BY <1>3, <1>6, <2>1, ShortFacts, StayFacts
  <2>2. CASE \E s \in Maybe("StateStore"), l \in Maybe("LogStore"),
                c \in Maybe("Commit"), d \in Maybe("Commit") :
               case = Stay(s \o <<ElectionTimeout>> \o c \o l \o d
                             \o <<"Send">>)
    <3>1. PICK s \in Maybe("StateStore"), l \in Maybe("LogStore"),
               c \in Maybe("Commit"), d \in Maybe("Commit") :
                 case = Stay(s \o <<ElectionTimeout>> \o c \o l \o d
                               \o <<"Send">>)
      BY <2>2
    <3> DEFINE first == s \o <<ElectionTimeout>> \o c \o l \o d
    <3>2. /\ s \in Seq(K) /\ l \in Seq(K) /\ c \in Seq(K) /\ d \in Seq(K)
          /\ s \in Seq(Kind \ {"Send"}) /\ l \in Seq(Kind \ {"Send"})
          /\ c \in Seq(Kind \ {"Send"}) /\ d \in Seq(Kind \ {"Send"})
      BY <1>1, Kinds, MaybeKind
    <3>3. first \in Seq(K)
      BY <1>3, <3>2
    <3>4. first \in Seq(Kind \ {"Send"})
      BY <3>2, Kinds
    <3> HIDE DEF first
    <3>5. first \o <<"Send">> \in Seq(K)
      BY <1>3, <3>3
    <3>6. Tidy(first \o <<"Send">>)
      BY <3>4, TidyWithoutSend, TidyConcat, ShortFacts
    <3>7. case = Stay(first \o <<"Send">>)
      BY <3>1 DEF first
    <3> QED BY <1>6, <3>5, <3>6, <3>7, StayFacts
  <2> QED BY <1>6, <2>1, <2>2 DEF FollowerCases
<1>7. CASE e = "Append"
  BY <1>3, <1>7, ShortFacts, StayFacts DEF FollowerCases
<1>8. CASE e \in {"VoteResp", "AppendResp"}
  <2>1. PICK s \in Maybe("StateStore") : case = Stay(s)
    BY <1>8 DEF FollowerCases
  <2>2. s \in Seq(K) /\ s \in Seq(Kind \ {"Send"})
    BY <1>1, Kinds, MaybeKind
  <2> QED BY <1>8, <2>1, <2>2, TidyWithoutSend, StayFacts
<1>9. CASE e = "ShutDown"
  BY <1>9, PowerOffFacts DEF FollowerCases
<1> QED
  BY <1>4, <1>5, <1>6, <1>7, <1>8, <1>9 DEF Event, Message

LEMMA CandidateFacts ==
    ASSUME NEW e \in Event, NEW case \in CandidateCases(e)
    PROVE  CaseFacts(CANDIDATE, e, case)
<1> DEFINE K == KindIn(CANDIDATE)
<1>1. "Send" \in K /\ "Commit" \in K
  BY Kinds DEF KindIn
<1>2. FOLLOWER \in State /\ CANDIDATE \in State /\ LEADER \in State
  BY DEF State
<1>3. <<>> \in Seq(K) /\ <<"Send">> \in Seq(K) /\ <<"Commit">> \in Seq(K)
  BY <1>1
<1>4. CASE e = "Timeout"
  BY <1>2, <1>4, ShortFacts, GoFacts DEF CandidateCases
<1>5. CASE e = "VoteResp"
  <2>1. CASE case = Stay(<<>>)
    BY <1>3, <1>5, <2>1, ShortFacts, StayFacts
  <2>2. CASE \/ case = Go(<<HighTimeout>>, LEADER)
             \/ case = Go(<<HighTimeout>>, FOLLOWER)
             \/ case = Go(<<"StateStore">>, FOLLOWER)
    BY <1>2, <2>2, ShortFacts, GoFacts
  <2> QED BY <1>5, <2>1, <2>2 DEF CandidateCases
<1>6. CASE e = "Append"
  BY <1>3, <1>6, ShortFacts, StayFacts DEF CandidateCases
<1>7. CASE e = "AppendReq"
  <2>1. CASE case = Stay(<<"Send">>)
    BY <1>3, <1>7, <2>1, ShortFacts, StayFacts
  <2>2. CASE \E s \in Maybe("Send") :
               case = Go(<<"StateStore", HighTimeout>> \o s, FOLLOWER)
    <3>1. PICK s \in Maybe("Send") :
                 case = Go(<<"StateStore", HighTimeout>> \o s, FOLLOWER)
      BY <2>2
    <3>2. s \in Seq(Kind \ Record)
      BY Kinds, MaybeKind
    <3>3. Tidy(<<"StateStore", HighTimeout>> \o s)
      BY <3>2, ShortFacts, TidyConcat
    <3> QED BY <1>2, <3>1, <3>3, GoFacts
  <2> QED BY <1>7, <2>1, <2>2 DEF CandidateCases
<1>8. CASE e = "VoteReq"
  <2>1. CASE case = Stay(<<"Send">>)
    BY <1>3, <1>8, <2>1, ShortFacts, StayFacts
  <2>2. CASE case = Go(<<HighTimeout, "StateStore", "Send">>, FOLLOWER)
    BY <1>2, <2>2, ShortFacts, GoFacts
  <2> QED BY <1>8, <2>1, <2>2 DEF CandidateCases
<1>9. CASE e = "AppendResp"
  <2>1. CASE case = Stay(<<>>)
    BY <1>3, <1>9, <2>1, ShortFacts, StayFacts
  <2>2. CASE case = Go(<<HighTimeout, "StateStore">>, FOLLOWER)
    BY <1>2, <2>2, ShortFacts, GoFacts
  <2> QED BY <1>9, <2>1, <2>2 DEF CandidateCases
<1>10. CASE e = "ShutDown"
  BY <1>10, PowerOffFacts DEF CandidateCases
<1> QED
  BY <1>4, <1>5, <1>6, <1>7, <1>8, <1>9, <1>10 DEF Event, Message

\* Records, then what a leader says and does when it steps down.
LEMMA StepDownFacts ==
    ASSUME NEW e, NEW first, Tidy(first), NEW c \in Maybe("Commit")
    PROVE  CaseFacts(LEADER, e, Go(first \o c \o <<HighTimeout>>, FOLLOWER))
<1>1. FOLLOWER \in State
  BY DEF State
<1>2. c \in Seq(Kind \ Record) /\ <<HighTimeout>> \in Seq(Kind \ Record)
  <2>1. "Commit" \in Kind \ Record /\ HighTimeout \in Kind \ Record
    BY Kinds
  <2>2. <<HighTimeout>> \in Seq(Kind \ Record)
    BY <2>1
  <2> QED BY <2>1, <2>2, MaybeKind
<1>3. Tidy(first \o c)
  BY <1>2, TidyConcat
<1>4. Tidy(first \o c \o <<HighTimeout>>)
  BY <1>2, <1>3, TidyConcat
<1> QED
  BY <1>1, <1>4, GoFacts

LEMMA LeaderFacts ==
    ASSUME NEW e \in Event, NEW case \in LeaderCases(e)
    PROVE  CaseFacts(LEADER, e, case)
<1> DEFINE K == KindIn(LEADER)
<1>1. /\ "Send" \in K /\ "Commit" \in K /\ HeartbeatTimeout \in K
      /\ "LogStore" \in K
  BY Kinds DEF KindIn, TimeOf
<1>2. /\ <<>> \in Seq(K) /\ <<"Send">> \in Seq(K) /\ <<"Commit">> \in Seq(K)
      /\ <<"LogStore">> \in Seq(K) /\ <<HeartbeatTimeout>> \in Seq(K)
  BY <1>1
<1>3. CASE e = "Timeout"
  <2> DEFINE acts == Sends \o <<HeartbeatTimeout>>
  <2>1. Kind \ Alarm \subseteq K
    BY DEF KindIn
  <2>2. Sends \in Seq(K)
    BY <2>1, SendsKinds, SeqMonotonic
  <2>3. <<HeartbeatTimeout>> \in Seq(Kind \ Record)
    BY Kinds
  <2>4. Tidy(acts)
    BY <2>3, SendsKinds, TidyWithoutRecord, TidyConcat
  <2>5. acts \in Seq(K)
    BY <1>2, <2>2
  <2>6. /\ Len(acts) = Len(Sends) + 1 /\ Len(Sends) \in Nat
        /\ acts[Len(Sends) + 1] = HeartbeatTimeout
    <3>1. Len(<<HeartbeatTimeout>>) = 1 /\ <<HeartbeatTimeout>>[1] = HeartbeatTimeout
      OBVIOUS
    <3> QED BY <1>2, <2>2, <3>1, ConcatProperties, LenProperties
  <2> HIDE DEF acts
  <2>7. Len(acts) \in 1..Len(acts) /\ acts[Len(acts)] \in Alarm
    BY <2>6, Kinds
  <2>8. case = Stay(acts)
    BY <1>3 DEF LeaderCases, acts
  <2>9. case.acts = acts /\ case.next = Stays
    BY <2>8 DEF Stay
  <2> QED BY <2>4, <2>5, <2>7, <2>9 DEF CaseFacts
<1>4. CASE e \in {"VoteReq", "AppendReq"}
  <2>1. CASE case = Stay(<<"Send">>)
    BY <1>2, <1>4, <2>1, ShortFacts, StayFacts
  <2>2. CASE \E c \in Maybe("Commit") :
               case = Go(<<"StateStore", "Send">> \o c \o <<HighTimeout>>,
                         FOLLOWER)
    BY <2>2, ShortFacts, StepDownFacts
  <2> QED BY <1>4, <2>1, <2>2 DEF LeaderCases
<1>5. CASE e = "Append"
  BY <1>2, <1>5, ShortFacts, StayFacts DEF LeaderCases
<1>6. CASE e = "AppendResp"
  <2>1. CASE \E c \in Maybe("Commit") : case = Stay(c)
    <3>1. PICK c \in Maybe("Commit") : case = Stay(c)
      BY <2>1
    <3>2. c \in Seq(K) /\ c \in Seq(Kind \ Record)
      BY <1>1, Kinds, MaybeKind
    <3> QED BY <1>6, <3>1, <3>2, TidyWithoutRecord, StayFacts
  <2>2. CASE \E c \in Maybe("Commit") :
               case = Go(<<"StateStore">> \o c \o <<HighTimeout>>, FOLLOWER)
    BY <2>2, ShortFacts, StepDownFacts
  <2> QED BY <1>6, <2>1, <2>2 DEF LeaderCases
<1>7. CASE e = "VoteResp"
  <2>1. CASE case = Stay(<<>>)
    BY <1>2, <1>7, <2>1, ShortFacts, StayFacts
  <2>2. CASE \E c \in Maybe("Commit") :
               case = Go(<<"StateStore">> \o c \o <<HighTimeout>>, FOLLOWER)
    BY <2>2, ShortFacts, StepDownFacts
  <2> QED BY <1>7, <2>1, <2>2 DEF LeaderCases
<1>8. CASE e = "ShutDown"
  BY <1>8, PowerOffFacts DEF LeaderCases
<1> QED
  BY <1>3, <1>4, <1>5, <1>6, <1>7, <1>8 DEF Event, Message

\* Whatever the role and the event.
LEMMA CasesFacts ==
    ASSUME NEW state \in State, state # POWEROFF, NEW e \in Event,
           NEW case \in Cases(state, e)
    PROVE  CaseFacts(state, e, case)
<1>1. /\ FOLLOWER # CANDIDATE /\ FOLLOWER # LEADER /\ CANDIDATE # LEADER
  BY DEF FOLLOWER, CANDIDATE, LEADER
<1>2. CASE state = FOLLOWER
  <2>1. case \in FollowerCases(e)
    BY <1>1, <1>2 DEF Cases
  <2> QED BY <1>2, <2>1, FollowerFacts
<1>3. CASE state = CANDIDATE
  <2>1. case \in CandidateCases(e)
    BY <1>1, <1>3 DEF Cases
  <2> QED BY <1>3, <2>1, CandidateFacts
<1>4. CASE state = LEADER
  <2>1. case \in LeaderCases(e)
    BY <1>1, <1>4 DEF Cases
  <2> QED BY <1>4, <2>1, LeaderFacts
<1> QED
  BY <1>2, <1>3, <1>4 DEF State

\* What a role function pushes first: tidy, and with the role's own alarm.
LEMMA PrologueFacts ==
    ASSUME NEW state \in State
    PROVE  /\ Tidy(Prologue(state))
           /\ state # POWEROFF =>
                /\ Prologue(state) \in Seq(KindIn(state))
                /\ \E k \in 1..Len(Prologue(state)) :
                     Prologue(state)[k] \in Alarm
<1> DEFINE K == KindIn(state)
<1>1. /\ FOLLOWER # CANDIDATE /\ FOLLOWER # LEADER /\ CANDIDATE # LEADER
      /\ FOLLOWER # POWEROFF /\ CANDIDATE # POWEROFF /\ LEADER # POWEROFF
  BY DEF FOLLOWER, CANDIDATE, LEADER, POWEROFF
<1>2. TimeOf(state) \in K /\ TimeOf(state) \in Alarm /\ "StateStore" \in K
  BY Kinds DEF KindIn, TimeOf
<1>3. Sends \in Seq(K) /\ Sends \in Seq(Kind \ Record)
  <2>1. Kind \ Alarm \subseteq K
    BY DEF KindIn
  <2> QED BY <2>1, SendsKinds, SeqMonotonic
<1>4. CASE state = FOLLOWER
  <2>1. Prologue(state) = <<ElectionTimeout>> /\ TimeOf(state) = ElectionTimeout
    BY <1>1, <1>4 DEF Prologue, TimeOf
  <2> DEFINE t == <<TimeOf(state)>>
  <2>2. /\ t \in Seq(K) /\ t \in Seq(Kind \ Record)
        /\ 1 \in 1..Len(t) /\ t[1] \in Alarm
    BY <1>2, Kinds
  <2>3. Prologue(state) = t
    BY <2>1
  <2> HIDE DEF t
  <2> QED BY <2>2, <2>3, TidyWithoutRecord
<1>5. CASE state = CANDIDATE
  <2> DEFINE t == <<"StateStore", TimeOf(state)>>
  <2>1. Prologue(state) = t \o Sends
    BY <1>1, <1>5 DEF Prologue, TimeOf
  <2>2. /\ t \in Seq(K) /\ t \in Seq(Kind \ {"Send"})
        /\ Len(t) = 2 /\ t[2] \in Alarm
    BY <1>2, Kinds
  <2> HIDE DEF t
  <2>3. Tidy(t \o Sends)
    BY <1>3, <2>2, TidyWithoutSend, TidyConcat
  <2>4. t \o Sends \in Seq(K) /\ 2 \in 1..Len(t \o Sends) /\ (t \o Sends)[2] = t[2]
    BY <1>3, <2>2, ConcatProperties, LenProperties
  <2> QED BY <2>1, <2>2, <2>3, <2>4
<1>6. CASE state = LEADER
  <2> DEFINE t == <<TimeOf(state)>>
  <2>1. Prologue(state) = t \o Sends
    BY <1>1, <1>6 DEF Prologue, TimeOf
  <2>2. /\ t \in Seq(K) /\ t \in Seq(Kind \ Record)
        /\ Len(t) = 1 /\ t[1] \in Alarm
    BY <1>2, Kinds
  <2> HIDE DEF t
  <2>3. Tidy(t \o Sends)
    BY <1>3, <2>2, TidyWithoutRecord, TidyConcat
  <2>4. t \o Sends \in Seq(K) /\ 1 \in 1..Len(t \o Sends) /\ (t \o Sends)[1] = t[1]
    BY <1>3, <2>2, ConcatProperties, LenProperties
  <2> QED BY <2>1, <2>2, <2>3, <2>4
<1>7. CASE state = POWEROFF
  <2>1. Prologue(state) = <<>>
    BY <1>1, <1>7 DEF Prologue
  <2> QED BY <1>7, <2>1, ShortFacts
<1> QED
  BY <1>4, <1>5, <1>6, <1>7 DEF State

-----------------------------------------------------------------------------
(* Type correctness.                                                       *)

LEMMA RecordsInType ==
    ASSUME NEW acts \in Seq(Kind)
    PROVE  RecordsIn(acts) \in Nat
<1>1. Len(acts) \in Nat
  BY LenProperties
<1>2. IsFiniteSet(1..Len(acts))
  BY <1>1, FS_Interval
<1>3. {k \in 1..Len(acts) : acts[k] \in Record} \in SUBSET (1..Len(acts))
  OBVIOUS
<1>4. IsFiniteSet({k \in 1..Len(acts) : acts[k] \in Record})
  BY <1>2, <1>3, FS_Subset
<1> QED
  BY <1>4, FS_CardinalityType DEF RecordsIn

LEMMA PushFacts ==
    ASSUME NEW acts \in Seq(Kind), issued \in Nat, Push(acts)
    PROVE  /\ issued' = issued + RecordsIn(acts) /\ issued' \in Nat
           /\ todo' \in Seq(Action)
           /\ Len(todo') = Len(acts)
           /\ \A k \in 1..Len(acts) :
                /\ todo'[k].type = acts[k]
                /\ acts[k] = "Send" => todo'[k].needs = issued'
<1> DEFINE act(k) == [type  |-> acts[k],
                      needs |-> IF acts[k] = "Send" THEN issued' ELSE 0]
<1>1. issued' = issued + RecordsIn(acts) /\ issued' \in Nat
  BY RecordsInType DEF Push
<1>2. todo' = [k \in 1..Len(acts) |-> act(k)]
  BY DEF Push
<1>3. Len(acts) \in Nat
  BY LenProperties
<1>4. \A k \in 1..Len(acts) : act(k) \in Action
  <2> SUFFICES ASSUME NEW k \in 1..Len(acts)
               PROVE  act(k) \in Action
    OBVIOUS
  <2>1. acts[k] \in Kind
    BY ElementOfSeq
  <2> QED BY <1>1, <2>1 DEF Action, Kind
<1>5. \A k \in 1..Len(acts) : todo'[k] = act(k)
  BY <1>2
<1>6. todo' \in Seq(Action) /\ Len(todo') = Len(acts)
  <2> HIDE DEF act
  <2> QED BY <1>2, <1>3, <1>4
<1>7. \A k \in 1..Len(acts) :
        /\ act(k).type = acts[k]
        /\ acts[k] = "Send" => act(k).needs = issued'
  OBVIOUS
<1> HIDE DEF act
<1> QED
  BY <1>1, <1>5, <1>6, <1>7

\* Whatever goroutine takes a step.
LEMMA TypeInvariant == TypeOK /\ [Next]_vars => TypeOK'
<1> USE SizeAssumption
<1> SUFFICES ASSUME TypeOK, [Next]_vars
             PROVE  TypeOK'
  OBVIOUS
<1>1. CASE HandleEvent
  <2>1. Head(receiveChannel) \in Event /\ Tail(receiveChannel) \in Seq(Event)
        /\ Len(Tail(receiveChannel)) = Len(receiveChannel) - 1
        /\ Len(receiveChannel) \in Nat
    BY <1>1, HeadTailProperties, LenProperties DEF HandleEvent, TypeOK
  <2>2. PICK case \in Cases(role, Head(receiveChannel)) :
               Push(case.acts) /\ returns' = case.next
    BY <1>1 DEF HandleEvent
  <2>3. CaseFacts(role, Head(receiveChannel), case)
    BY <1>1, <2>1, CasesFacts DEF HandleEvent, TypeOK
  <2>4. todo' \in Seq(Action) /\ issued' \in Nat
    BY <2>2, <2>3, PushFacts DEF CaseFacts, Tidy, TypeOK
  <2>5. returns' \in State \cup {Stays}
    BY <2>2, <2>3 DEF CaseFacts
  <2> QED BY <1>1, <2>1, <2>4, <2>5
       DEF HandleEvent, TypeOK, channelVars, timerVars
<1>2. CASE PushAction
  <2>1. /\ Head(todo) \in Action /\ Tail(todo) \in Seq(Action)
        /\ Len(sendChannel) \in Nat
    BY <1>2, HeadTailProperties, LenProperties DEF PushAction, TypeOK
  <2>2. sendChannel' \in Seq(Action) /\ Len(sendChannel') <= NumChannels
    <3>1. CASE sendChannel' = sendChannel
      BY <3>1 DEF TypeOK
    <3>2. CASE /\ Len(sendChannel) < NumChannels
               /\ sendChannel' = Append(sendChannel, Head(todo))
      <4>1. /\ sendChannel' \in Seq(Action)
            /\ Len(sendChannel') = Len(sendChannel) + 1
        BY <2>1, <3>2, AppendProperties DEF TypeOK
      <4> QED BY <2>1, <3>2, <4>1
    <3> QED BY <1>2, <3>1, <3>2 DEF PushAction
  <2>3. quitChannel' \in BOOLEAN
    BY <1>2 DEF PushAction, TypeOK
  <2> QED BY <1>2, <2>1, <2>2, <2>3
       DEF PushAction, TypeOK, channelVars, timerVars
<1>3. CASE ReturnRole
  <2>1. returns \in State
    BY <1>3 DEF ReturnRole, TypeOK
  <2>2. todo' \in Seq(Action) /\ issued' \in Nat
    BY <1>3, <2>1, PrologueFacts, PushFacts DEF ReturnRole, TypeOK, Tidy
  <2> QED BY <1>3, <2>1, <2>2
       DEF ReturnRole, TypeOK, channelVars, timerVars
<1>4. CASE TakeAction
  <2> DEFINE a == Head(sendChannel)
  <2>1. /\ a \in Action /\ Tail(sendChannel) \in Seq(Action)
        /\ Len(Tail(sendChannel)) = Len(sendChannel) - 1
        /\ Len(sendChannel) \in Nat
    BY <1>4, HeadTailProperties, LenProperties DEF TakeAction, TypeOK
  <2>2. HandleAction(a)
    BY <1>4 DEF TakeAction
  <2> HIDE DEF a
  <2>3. /\ hand' \in Hand /\ stored' \in Nat /\ promised' \in Nat
    BY <2>1, <2>2 DEF HandleAction, TypeOK, Action, Hand, timerVars, SetTimer
  <2>4. timerSet' \in BOOLEAN /\ timer' \in Timer \cup {Idle}
    <3>1. CASE UNCHANGED timerVars
      BY <3>1 DEF timerVars, TypeOK
    <3>2. CASE a.type \in Alarm /\ SetTimer(a.type)
      <4>1. timerSet' \in BOOLEAN
        BY <3>2 DEF SetTimer
      <4>2. \/ timer' = Idle
            \/ \E random \in BOOLEAN :
                 timer' = [time |-> a.type, random |-> random]
        BY <3>2 DEF SetTimer
      <4> QED BY <3>2, <4>1, <4>2 DEF Timer
    <3> QED BY <2>2, <3>1, <3>2 DEF HandleAction
  <2> QED BY <1>4, <2>1, <2>3, <2>4 DEF TakeAction, TypeOK, nodeVars
<1>5. CASE \E m \in Message : TakeMessage(m)
  BY <1>5 DEF TakeMessage, TypeOK, Hand, nodeVars, timerVars
<1>6. CASE ForwardMessage
  <2>1. receiveChannel' \in Seq(Event) /\ Len(receiveChannel') <= NumChannels
    BY <1>6, LenProperties DEF ForwardMessage, TypeOK, Event
  <2> QED BY <1>6, <2>1 DEF ForwardMessage, TypeOK, Hand, nodeVars, timerVars
<1>7. CASE DeliverCommit
  BY <1>7 DEF DeliverCommit, TypeOK, Hand, nodeVars, timerVars
<1>8. CASE TakeQuit
  BY <1>8 DEF TakeQuit, TypeOK, nodeVars, timerVars
<1>9. CASE Fire
  BY <1>9 DEF Fire, TypeOK, nodeVars, channelVars
<1>10. CASE PushTimeout
  <2>1. receiveChannel' \in Seq(Event) /\ Len(receiveChannel') <= NumChannels
    BY <1>10, LenProperties DEF PushTimeout, TypeOK, Event
  <2> QED BY <1>10, <2>1
       DEF PushTimeout, TypeOK, nodeVars, channelVars, timerVars
<1>11. CASE AppendCommand
  <2>1. receiveChannel' \in Seq(Event) /\ Len(receiveChannel') <= NumChannels
    BY <1>11, LenProperties DEF AppendCommand, TypeOK, Event
  <2> QED BY <1>11, <2>1
       DEF AppendCommand, TypeOK, nodeVars, channelVars, timerVars
<1>12. CASE ReadCommit \/ AnswerClient \/ AnswerStranger \/ CallShutdown
  BY <1>12 DEF ReadCommit, AnswerClient, AnswerStranger, BackToSelect,
               CallShutdown, TypeOK, nodeVars, channelVars, timerVars
<1>13. CASE PushShutdown
  <2>1. receiveChannel' \in Seq(Event) /\ Len(receiveChannel') <= NumChannels
    BY <1>13, LenProperties DEF PushShutdown, TypeOK, Event
  <2> QED BY <1>13, <2>1
       DEF PushShutdown, TypeOK, nodeVars, channelVars, timerVars
<1>14. CASE UNCHANGED vars
  BY <1>14 DEF vars, TypeOK, nodeVars, channelVars, timerVars
<1> QED
  BY <1>1, <1>2, <1>3, <1>4, <1>5, <1>6, <1>7, <1>8, <1>9, <1>10, <1>11,
     <1>12, <1>13, <1>14 DEF Next

\* A new node.
LEMMA InitialTypes ==
    ASSUME Init
    PROVE  TypeOK
<1>1. todo \in Seq(Action)
  <2>1. [type |-> ElectionTimeout, needs |-> 0] \in Action
    BY DEF Action, Alarm
  <2> QED BY <2>1 DEF Init
<1>2. /\ sendChannel \in Seq(Action) /\ Len(sendChannel) <= NumChannels
      /\ receiveChannel \in Seq(Event) /\ Len(receiveChannel) <= NumChannels
  BY SizeAssumption DEF Init
<1>3. role \in State /\ returns \in State \cup {Stays} /\ hand \in Hand
  BY DEF Init, State, Hand
<1>4. /\ quitChannel \in BOOLEAN /\ quit \in BOOLEAN /\ timerSet \in BOOLEAN
      /\ timer \in Timer \cup {Idle}
      /\ backend \in
           {"serving", "answering", "blocked", "stopping", "stopped"}
  BY DEF Init
<1>5. /\ commitChannel \in 0..NumChannels /\ fired \in Nat /\ issued \in Nat
      /\ stored \in Nat /\ promised \in Nat /\ events \in Nat
  BY SizeAssumption DEF Init
<1> QED
  BY <1>1, <1>2, <1>3, <1>4, <1>5 DEF TypeOK

\* Every channel and variable of a node holds what its Go type and capacity
\* allow.
THEOREM RuntimeTypes == Spec => []TypeOK
BY InitialTypes, TypeInvariant, PTL DEF Spec

-----------------------------------------------------------------------------
(* Records on disk.                                                        *)

\* The records among the first k - 1 of the actions s, and among them all.
RecordsBefore(s, k) == Cardinality({j \in 1..(k - 1) : s[j].type \in Record})
RecordsOf(s)        == RecordsBefore(s, Len(s) + 1)

One(a) == IF a.type \in Record THEN 1 ELSE 0

LEMMA BeforeFinite ==
    ASSUME NEW s, NEW k \in Nat
    PROVE  /\ IsFiniteSet({j \in 1..(k - 1) : s[j].type \in Record})
           /\ RecordsBefore(s, k) \in Nat
<1>1. IsFiniteSet(1..(k - 1))
  BY FS_Interval
<1>2. {j \in 1..(k - 1) : s[j].type \in Record} \in SUBSET (1..(k - 1))
  OBVIOUS
<1>3. IsFiniteSet({j \in 1..(k - 1) : s[j].type \in Record})
  BY <1>1, <1>2, FS_Subset
<1> QED
  BY <1>3, FS_CardinalityType DEF RecordsBefore

LEMMA BeforeFirst ==
    ASSUME NEW s
    PROVE  RecordsBefore(s, 1) = 0
<1>1. {j \in 1..(1 - 1) : s[j].type \in Record} = {}
  OBVIOUS
<1> QED
  BY <1>1, FS_EmptySet DEF RecordsBefore

\* Whether s[k] is a record makes the difference between k and k + 1.
LEMMA BeforeNext ==
    ASSUME NEW s, NEW k \in Nat \ {0}
    PROVE  RecordsBefore(s, k + 1) = RecordsBefore(s, k) + One(s[k])
<1> DEFINE T(n) == {j \in 1..(n - 1) : s[j].type \in Record}
<1>1. IsFiniteSet(T(k)) /\ k \notin T(k)
  <2>1. IsFiniteSet(T(k))
    BY BeforeFinite
  <2>2. k \notin T(k)
    OBVIOUS
  <2> QED BY <2>1, <2>2
<1>2. CASE s[k].type \in Record
  <2>1. T(k + 1) = T(k) \cup {k}
    BY <1>2
  <2>2. Cardinality(T(k + 1)) = Cardinality(T(k)) + 1
    BY <1>1, <2>1, FS_AddElement
  <2> QED BY <1>2, <2>2 DEF RecordsBefore, One
<1>3. CASE s[k].type \notin Record
  <2>1. T(k + 1) = T(k)
    <3>1. \A j \in 1..(k + 1 - 1) : j \in 1..(k - 1) \/ j = k
      OBVIOUS
    <3>2. 1..(k - 1) \subseteq 1..(k + 1 - 1)
      OBVIOUS
    <3> QED BY <1>3, <3>1, <3>2
  <2>2. RecordsBefore(s, k) \in Nat
    BY BeforeFinite
  <2> QED BY <1>3, <2>1, <2>2 DEF RecordsBefore, One
<1> QED
  BY <1>2, <1>3

\* What comes after the first k - 1 actions does not count.
LEMMA BeforeSame ==
    ASSUME NEW s, NEW t, NEW k \in Nat,
           \A j \in 1..(k - 1) : s[j].type = t[j].type
    PROVE  RecordsBefore(s, k) = RecordsBefore(t, k)
<1>1. {j \in 1..(k - 1) : s[j].type \in Record}
        = {j \in 1..(k - 1) : t[j].type \in Record}
  OBVIOUS
<1> QED
  BY <1>1 DEF RecordsBefore

\* A channel that takes one action.
LEMMA RecordsAppend ==
    ASSUME NEW s \in Seq(Action), NEW a \in Action
    PROVE  /\ \A k \in 1..(Len(s) + 1) :
                RecordsBefore(Append(s, a), k) = RecordsBefore(s, k)
           /\ RecordsOf(Append(s, a)) = RecordsOf(s) + One(a)
<1> DEFINE t == Append(s, a)
<1>1. /\ Len(s) \in Nat /\ Len(t) = Len(s) + 1
      /\ \A i \in 1..Len(s) : t[i] = s[i]
      /\ t[Len(s) + 1] = a
  BY AppendProperties, LenProperties
<1> HIDE DEF t
<1>2. ASSUME NEW k \in 1..(Len(s) + 1)
      PROVE  RecordsBefore(t, k) = RecordsBefore(s, k)
  <2>1. k \in Nat /\ \A j \in 1..(k - 1) : t[j].type = s[j].type
    BY <1>1
  <2> QED BY <2>1, BeforeSame
<1>3. RecordsBefore(t, Len(s) + 1 + 1) = RecordsBefore(t, Len(s) + 1) + One(a)
  BY <1>1, BeforeNext
<1>4. RecordsOf(t) = RecordsOf(s) + One(a)
  BY <1>1, <1>2, <1>3 DEF RecordsOf
<1> QED
  BY <1>2, <1>4 DEF t

\* A channel that gives one action.
LEMMA RecordsTail ==
    ASSUME NEW s \in Seq(Action), s # <<>>
    PROVE  /\ \A k \in 1..Len(s) :
                RecordsBefore(s, k + 1)
                  = RecordsBefore(Tail(s), k) + One(Head(s))
           /\ RecordsOf(s) = RecordsOf(Tail(s)) + One(Head(s))
<1> DEFINE t == Tail(s)
<1>1. /\ Len(s) \in Nat \ {0} /\ Len(t) = Len(s) - 1
      /\ \A i \in 1..Len(t) : t[i] = s[i + 1]
      /\ Head(s) = s[1]
  BY HeadTailProperties, LenProperties, EmptySeq
<1> HIDE DEF t
<1>2. ASSUME NEW k \in 1..Len(s)
      PROVE  RecordsBefore(s, k + 1) = RecordsBefore(t, k) + One(s[1])
  <2> DEFINE A == {j \in 1..(k - 1) : t[j].type \in Record}
             B == {j \in 2..k : s[j].type \in Record}
             C == {j \in 1..(k + 1 - 1) : s[j].type \in Record}
             f == [j \in A |-> j + 1]
  <2>1. k \in Nat
    OBVIOUS
  <2>2. IsFiniteSet(A)
    BY <2>1, BeforeFinite
  <2>3. \A j \in 1..(k - 1) : t[j] = s[j + 1] /\ j + 1 \in 2..k
    BY <1>1
  <2>4. f \in [A -> B]
    BY <2>3
  <2>5. \A j \in B : j - 1 \in A /\ f[j - 1] = j
    BY <2>3
  <2>6. \A i, j \in A : f[i] = f[j] => i = j
    OBVIOUS
  <2> HIDE DEF A, B, f
  <2>7. ExistsBijection(A, B)
    <3>1. f \in Injection(A, B)
      BY <2>4, <2>6 DEF Injection, IsInjective
    <3>2. f \in Surjection(A, B)
      BY <2>4, <2>5 DEF Surjection
    <3> QED BY <3>1, <3>2 DEF ExistsBijection, Bijection
  <2>8. IsFiniteSet(B) /\ Cardinality(B) = Cardinality(A)
    BY <2>2, <2>7, FS_Bijection
  <2>9. Cardinality(A) = RecordsBefore(t, k) /\ RecordsBefore(t, k) \in Nat
    BY <2>1, BeforeFinite DEF A, RecordsBefore
  <2>10. Cardinality(C) = RecordsBefore(s, k + 1)
    BY DEF RecordsBefore
  <2>11. CASE s[1].type \in Record
    <3>1. C = B \cup {1} /\ 1 \notin B
      BY <2>1, <2>11 DEF B
    <3>2. Cardinality(C) = Cardinality(B) + 1
      BY <2>8, <3>1, FS_AddElement
    <3> HIDE DEF C
    <3> QED BY <2>8, <2>9, <2>10, <2>11, <3>2 DEF One
  <2>12. CASE s[1].type \notin Record
    <3>1. C = B
      BY <2>1, <2>12 DEF B
    <3> HIDE DEF C
    <3> QED BY <2>8, <2>9, <2>10, <2>12, <3>1 DEF One
  <2> QED BY <2>11, <2>12
<1>3. RecordsOf(s) = RecordsOf(t) + One(Head(s))
  <2>1. Len(s) \in 1..Len(s) /\ Len(t) + 1 = Len(s)
    BY <1>1
  <2> QED BY <1>1, <1>2, <2>1 DEF RecordsOf
<1> QED
  BY <1>1, <1>2, <1>3 DEF t

\* What a handler pushes into an empty todo: its records are counted, and a
\* message needs those that are pushed before it and all earlier ones.
LEMMA RecordsPush ==
    ASSUME NEW acts, Tidy(acts), issued \in Nat, Push(acts)
    PROVE  /\ issued' = issued + RecordsOf(todo')
           /\ RecordsOf(todo') \in Nat
           /\ \A k \in 1..Len(todo') :
                todo'[k].type = "Send" =>
                  todo'[k].needs = issued + RecordsBefore(todo', k)
<1>1. acts \in Seq(Kind) /\ Len(acts) \in Nat
  BY LenProperties DEF Tidy
<1>2. /\ issued' = issued + RecordsIn(acts)
      /\ Len(todo') = Len(acts)
      /\ \A k \in 1..Len(acts) :
           /\ todo'[k].type = acts[k]
           /\ acts[k] = "Send" => todo'[k].needs = issued'
  BY <1>1, PushFacts
<1> DEFINE all == {j \in 1..Len(acts) : acts[j] \in Record}
<1>3. {j \in 1..(Len(todo') + 1 - 1) : todo'[j].type \in Record} = all
  BY <1>1, <1>2
<1>4. RecordsOf(todo') = RecordsIn(acts)
  <2> DEFINE last == Len(todo') + 1
             some == {j \in 1..(last - 1) : todo'[j].type \in Record}
  <2>1. RecordsOf(todo') = RecordsBefore(todo', last)
    BY DEF RecordsOf
  <2>2. RecordsBefore(todo', last) = Cardinality(some)
    BY DEF RecordsBefore
  <2>3. some = all
    BY <1>3
  <2>4. RecordsIn(acts) = Cardinality(all)
    BY DEF RecordsIn
  <2> HIDE DEF last, some, all
  <2> QED BY <2>1, <2>2, <2>3, <2>4
<1>5. ASSUME NEW k \in 1..Len(todo'), todo'[k].type = "Send"
      PROVE  todo'[k].needs = issued + RecordsBefore(todo', k)
  <2>1. /\ k \in 1..Len(acts) /\ acts[k] = "Send" /\ acts[k] \notin Record
        /\ todo'[k].needs = issued'
    BY <1>2, <1>5 DEF Record
  <2>2. ASSUME NEW j \in all
        PROVE  j \in 1..(k - 1)
    <3>1. j # k
      BY <2>1
    <3>2. CASE j > k
      <4>1. k \in 1..(j - 1)
        BY <2>1, <3>2
      <4> QED BY <2>1, <4>1 DEF Tidy
    <3> QED BY <1>1, <2>1, <3>1, <3>2
  <2>3. {j \in 1..(k - 1) : todo'[j].type \in Record} = all
    <3>1. \A j \in 1..(k - 1) : j \in 1..Len(acts)
      BY <1>1, <2>1
    <3> QED BY <1>2, <2>2, <3>1
  <2>4. RecordsBefore(todo', k) = RecordsIn(acts)
    BY <2>3 DEF RecordsBefore, RecordsIn
  <2> QED BY <1>2, <2>1, <2>4
<1>6. RecordsOf(todo') \in Nat
  BY <1>1, <1>4, RecordsInType
<1> QED
  BY <1>2, <1>4, <1>5, <1>6

\* Every record asked for is on disk or pending, and a pending message needs no
\* more than what is on disk or pending before it.
RecordsInv ==
    /\ issued = stored + RecordsOf(sendChannel) + RecordsOf(todo)
    /\ \A k \in 1..Len(sendChannel) :
         sendChannel[k].type = "Send" =>
           sendChannel[k].needs <= stored + RecordsBefore(sendChannel, k)
    /\ \A k \in 1..Len(todo) :
         todo[k].type = "Send" =>
           todo[k].needs
             <= stored + RecordsOf(sendChannel) + RecordsBefore(todo, k)
    /\ RecordsBeforeMessages

LEMMA InitialRecords ==
    ASSUME Init
    PROVE  RecordsInv
<1>1. /\ Len(todo) = 1 /\ todo[1].type = ElectionTimeout
      /\ Len(sendChannel) = 0 /\ sendChannel = <<>>
  BY DEF Init
<1>2. ElectionTimeout \notin Record /\ ElectionTimeout # "Send"
  BY DEF ElectionTimeout, Record
<1>3. RecordsOf(sendChannel) = 0
  BY <1>1, BeforeFirst DEF RecordsOf
<1>4. RecordsOf(todo) = 0
  <2>1. RecordsBefore(todo, 1 + 1) = RecordsBefore(todo, 1) + One(todo[1])
    BY BeforeNext
  <2> QED BY <1>1, <1>2, <2>1, BeforeFirst DEF RecordsOf, One
<1> QED
  BY <1>1, <1>2, <1>3, <1>4 DEF Init, RecordsInv, RecordsBeforeMessages

\* A handler or a role function pushes: nothing was left to push before.
LEMMA RecordsPushed ==
    ASSUME TypeOK, RecordsInv, todo = <<>>, NEW acts, Tidy(acts), Push(acts),
           UNCHANGED <<sendChannel, stored, promised>>
    PROVE  RecordsInv'
<1>1. issued \in Nat /\ stored \in Nat
  BY DEF TypeOK
<1>2. RecordsOf(todo) = 0
  BY BeforeFirst DEF RecordsOf
<1>3. RecordsOf(sendChannel) \in Nat
  <2>1. Len(sendChannel) + 1 \in Nat
    BY LenProperties DEF TypeOK
  <2> QED BY <2>1, BeforeFinite DEF RecordsOf
<1>4. issued = stored + RecordsOf(sendChannel)
  BY <1>1, <1>2, <1>3 DEF RecordsInv
<1>5. /\ issued' = issued + RecordsOf(todo')
      /\ RecordsOf(todo') \in Nat
      /\ \A k \in 1..Len(todo') :
           todo'[k].type = "Send" =>
             todo'[k].needs = issued + RecordsBefore(todo', k)
  BY <1>1, RecordsPush
<1>6. issued' = stored' + RecordsOf(sendChannel') + RecordsOf(todo')
  BY <1>1, <1>3, <1>4, <1>5
<1>7. ASSUME NEW k \in 1..Len(todo'), todo'[k].type = "Send"
      PROVE  todo'[k].needs
               <= stored' + RecordsOf(sendChannel') + RecordsBefore(todo', k)
  <2>1. RecordsBefore(todo', k) \in Nat
    <3>1. k \in Nat
      OBVIOUS
    <3> QED BY <3>1, BeforeFinite
  <2>2. todo'[k].needs = issued + RecordsBefore(todo', k)
    BY <1>5, <1>7
  <2> QED BY <1>1, <1>3, <1>4, <2>1, <2>2
<1> QED
  BY <1>6, <1>7 DEF RecordsInv, RecordsBeforeMessages

LEMMA RecordsInvariant == TypeOK /\ RecordsInv /\ [Next]_vars => RecordsInv'
<1> SUFFICES ASSUME TypeOK, RecordsInv, [Next]_vars
             PROVE  RecordsInv'
  OBVIOUS
<1> DEFINE Frame == UNCHANGED <<todo, sendChannel, issued, stored, promised>>
<1>0. /\ issued \in Nat /\ stored \in Nat /\ promised \in Nat
      /\ sendChannel \in Seq(Action) /\ todo \in Seq(Action)
      /\ Len(sendChannel) \in Nat /\ Len(todo) \in Nat
      /\ RecordsOf(sendChannel) \in Nat /\ RecordsOf(todo) \in Nat
  <2>1. Len(sendChannel) \in Nat /\ Len(todo) \in Nat
    BY LenProperties DEF TypeOK
  <2>2. Len(sendChannel) + 1 \in Nat /\ Len(todo) + 1 \in Nat
    BY <2>1
  <2> QED BY <2>1, <2>2, BeforeFinite DEF TypeOK, RecordsOf
<1>1. CASE HandleEvent
  <2>1. Head(receiveChannel) \in Event
    BY <1>1, HeadTailProperties DEF HandleEvent, TypeOK
  <2>2. PICK case \in Cases(role, Head(receiveChannel)) : Push(case.acts)
    BY <1>1 DEF HandleEvent
  <2>3. CaseFacts(role, Head(receiveChannel), case)
    BY <1>1, <2>1, CasesFacts DEF HandleEvent, TypeOK
  <2>4. Tidy(case.acts)
    BY <2>3 DEF CaseFacts
  <2>5. todo = <<>> /\ UNCHANGED <<sendChannel, stored, promised>>
    BY <1>1 DEF HandleEvent, channelVars
  <2> QED BY <2>2, <2>4, <2>5, RecordsPushed
<1>2. CASE ReturnRole
  <2>1. returns \in State
    BY <1>2 DEF ReturnRole, TypeOK
  <2>2. Tidy(Prologue(returns)) /\ Push(Prologue(returns))
    BY <1>2, <2>1, PrologueFacts DEF ReturnRole
  <2>3. todo = <<>> /\ UNCHANGED <<sendChannel, stored, promised>>
    BY <1>2 DEF ReturnRole, channelVars
  <2> QED BY <2>2, <2>3, RecordsPushed
<1>3. CASE PushAction
  <2> DEFINE a == Head(todo)
  <2>1. /\ a \in Action /\ todo' = Tail(todo)
        /\ Len(todo') = Len(todo) - 1
        /\ \A k \in 1..Len(todo') : todo'[k] = todo[k + 1]
        /\ a = todo[1] /\ Len(todo) > 0
    BY <1>0, <1>3, HeadTailProperties, EmptySeq DEF PushAction
  <2>2. UNCHANGED <<issued, stored, promised>>
    BY <1>3 DEF PushAction, channelVars
  <2>3. /\ \A k \in 1..Len(todo) :
             RecordsBefore(todo, k + 1) = RecordsBefore(todo', k) + One(a)
        /\ RecordsOf(todo) = RecordsOf(todo') + One(a)
    BY <1>0, <1>3, <2>1, RecordsTail DEF PushAction
  <2>4. RecordsOf(sendChannel') = RecordsOf(sendChannel) + One(a)
    <3>1. CASE a.type = "Quit" /\ sendChannel' = sendChannel
      BY <1>0, <3>1 DEF One, Record
    <3>2. CASE sendChannel' = Append(sendChannel, a)
      BY <1>0, <2>1, <3>2, RecordsAppend
    <3> QED BY <1>3, <3>1, <3>2 DEF PushAction
  <2> HIDE DEF a
  <2>5. One(a) \in Nat /\ RecordsOf(todo') \in Nat
    <3>1. Len(todo') + 1 \in Nat
      BY <1>0, <2>1
    <3> QED BY <3>1, BeforeFinite DEF RecordsOf, One
  <2>6. issued' = stored' + RecordsOf(sendChannel') + RecordsOf(todo')
    BY <1>0, <2>2, <2>3, <2>4, <2>5 DEF RecordsInv
  <2>7. ASSUME NEW k \in 1..Len(todo'), todo'[k].type = "Send"
        PROVE  todo'[k].needs
                 <= stored' + RecordsOf(sendChannel') + RecordsBefore(todo', k)
    <3>1. k + 1 \in 1..Len(todo) /\ k \in 1..Len(todo) /\ k \in Nat
          /\ todo'[k] = todo[k + 1]
      BY <1>0, <2>1
    <3>2. todo[k + 1].needs
            <= stored + RecordsOf(sendChannel) + RecordsBefore(todo, k + 1)
      BY <2>7, <3>1 DEF RecordsInv
    <3>3. RecordsBefore(todo', k) \in Nat
      BY <3>1, BeforeFinite
    <3>4. RecordsBefore(todo, k + 1) = RecordsBefore(todo', k) + One(a)
      BY <2>3, <3>1
    <3>5. todo[k + 1].needs \in Nat
      <4>1. \A i \in 1..Len(todo) : todo[i] \in Action
        BY <1>0, ElementOfSeq
      <4> QED BY <3>1, <4>1 DEF Action
    <3> QED BY <1>0, <2>2, <2>4, <2>5, <3>1, <3>2, <3>3, <3>4, <3>5
  <2>8. ASSUME NEW k \in 1..Len(sendChannel'), sendChannel'[k].type = "Send"
        PROVE  sendChannel'[k].needs
                 <= stored' + RecordsBefore(sendChannel', k)
    <3>1. CASE sendChannel' = sendChannel
      BY <2>2, <2>8, <3>1 DEF RecordsInv
    <3>2. CASE sendChannel' = Append(sendChannel, a)
      <4>1. /\ Len(sendChannel') = Len(sendChannel) + 1
            /\ \A i \in 1..Len(sendChannel) : sendChannel'[i] = sendChannel[i]
            /\ sendChannel'[Len(sendChannel) + 1] = a
        BY <1>0, <2>1, <3>2, AppendProperties
      <4>2. RecordsBefore(sendChannel', k) = RecordsBefore(sendChannel, k)
        BY <1>0, <2>1, <3>2, <4>1, RecordsAppend
      <4>3. CASE k \in 1..Len(sendChannel)
        BY <2>2, <2>8, <4>1, <4>2, <4>3 DEF RecordsInv
      <4>4. CASE k = Len(sendChannel) + 1
        <5>1. a.type = "Send" /\ sendChannel'[k] = a
          BY <2>8, <4>1, <4>4
        <5>2. a.needs <= stored + RecordsOf(sendChannel) + RecordsBefore(todo, 1)
          BY <1>0, <2>1, <5>1 DEF RecordsInv
        <5>3. a.needs <= stored + RecordsOf(sendChannel)
          BY <1>0, <5>2, BeforeFirst
        <5> QED BY <2>2, <4>2, <4>4, <5>1, <5>3 DEF RecordsOf
      <4> QED BY <1>0, <4>1, <4>3, <4>4
    <3> QED BY <1>3, <3>1, <3>2 DEF PushAction, a
  <2> QED BY <2>2, <2>6, <2>7, <2>8 DEF RecordsInv, RecordsBeforeMessages
<1>4. CASE TakeAction
  <2> DEFINE a == Head(sendChannel)
  <2>1. /\ a \in Action /\ sendChannel' = Tail(sendChannel)
        /\ Len(sendChannel') = Len(sendChannel) - 1
        /\ \A k \in 1..Len(sendChannel') : sendChannel'[k] = sendChannel[k + 1]
        /\ a = sendChannel[1] /\ Len(sendChannel) > 0
    BY <1>0, <1>4, HeadTailProperties, EmptySeq DEF TakeAction
  <2>2. UNCHANGED <<issued, todo>> /\ HandleAction(a)
    BY <1>4 DEF TakeAction, nodeVars
  <2>3. /\ \A k \in 1..Len(sendChannel) :
             RecordsBefore(sendChannel, k + 1)
               = RecordsBefore(sendChannel', k) + One(a)
        /\ RecordsOf(sendChannel) = RecordsOf(sendChannel') + One(a)
    BY <1>0, <1>4, <2>1, RecordsTail DEF TakeAction
  <2>4. a.type = "Send" => a.needs <= stored
    <3>1. a.type = "Send" =>
            a.needs <= stored + RecordsBefore(sendChannel, 1)
      BY <1>0, <2>1 DEF RecordsInv
    <3> QED BY <1>0, <3>1, BeforeFirst
  <2>5. a.needs \in Nat
    BY <2>1 DEF Action
  <2> HIDE DEF a
  <2>6. stored' = stored + One(a)
    BY <1>0, <2>2, Kinds DEF HandleAction, One, Record
  <2>7. One(a) \in Nat /\ RecordsOf(sendChannel') \in Nat
    <3>1. Len(sendChannel') + 1 \in Nat
      BY <1>0, <2>1
    <3> QED BY <3>1, BeforeFinite DEF RecordsOf, One
  <2>8. RecordsBeforeMessages'
    <3>1. promised' = promised \/ (a.type = "Send" /\ promised' = a.needs)
      BY <2>2 DEF HandleAction
    <3> QED BY <1>0, <2>4, <2>5, <2>6, <2>7, <3>1
         DEF RecordsInv, RecordsBeforeMessages
  <2>9. issued' = stored' + RecordsOf(sendChannel') + RecordsOf(todo')
    BY <1>0, <2>2, <2>3, <2>6, <2>7 DEF RecordsInv
  <2>10. ASSUME NEW k \in 1..Len(sendChannel'), sendChannel'[k].type = "Send"
         PROVE  sendChannel'[k].needs
                  <= stored' + RecordsBefore(sendChannel', k)
    <3>1. k + 1 \in 1..Len(sendChannel) /\ k \in 1..Len(sendChannel)
          /\ k \in Nat /\ sendChannel'[k] = sendChannel[k + 1]
      BY <1>0, <2>1
    <3>2. sendChannel[k + 1].needs
            <= stored + RecordsBefore(sendChannel, k + 1)
      BY <2>10, <3>1 DEF RecordsInv
    <3>3. RecordsBefore(sendChannel', k) \in Nat
      BY <3>1, BeforeFinite
    <3>4. RecordsBefore(sendChannel, k + 1)
            = RecordsBefore(sendChannel', k) + One(a)
      BY <2>3, <3>1
    <3>5. sendChannel[k + 1].needs \in Nat
      <4>1. \A i \in 1..Len(sendChannel) : sendChannel[i] \in Action
        BY <1>0, ElementOfSeq
      <4> QED BY <3>1, <4>1 DEF Action
    <3> QED BY <1>0, <2>6, <2>7, <3>1, <3>2, <3>3, <3>4, <3>5
  <2>11. ASSUME NEW k \in 1..Len(todo'), todo'[k].type = "Send"
         PROVE  todo'[k].needs
                  <= stored' + RecordsOf(sendChannel') + RecordsBefore(todo', k)
    <3>1. todo[k].needs
            <= stored + RecordsOf(sendChannel) + RecordsBefore(todo, k)
      BY <2>2, <2>11 DEF RecordsInv
    <3> QED BY <1>0, <2>2, <2>3, <2>6, <2>7, <3>1
  <2> QED BY <2>8, <2>9, <2>10, <2>11 DEF RecordsInv
<1>5. CASE Frame
  BY <1>5 DEF RecordsInv, RecordsBeforeMessages
<1>6. CASE \E m \in Message : TakeMessage(m)
  BY <1>5, <1>6 DEF TakeMessage, nodeVars
<1>7. CASE ForwardMessage \/ DeliverCommit \/ TakeQuit
  BY <1>5, <1>7 DEF ForwardMessage, DeliverCommit, TakeQuit, nodeVars
<1>8. CASE Fire \/ PushTimeout \/ AppendCommand
  BY <1>5, <1>8 DEF Fire, PushTimeout, AppendCommand, nodeVars, channelVars
<1>9. CASE ReadCommit \/ AnswerClient \/ AnswerStranger \/ CallShutdown
             \/ PushShutdown
  BY <1>5, <1>9 DEF ReadCommit, AnswerClient, AnswerStranger, BackToSelect,
                    CallShutdown, PushShutdown, nodeVars, channelVars
<1>10. CASE UNCHANGED vars
  BY <1>5, <1>10 DEF vars, nodeVars, channelVars
<1> QED
  BY <1>1, <1>2, <1>3, <1>4, <1>6, <1>7, <1>8, <1>9, <1>10 DEF Next

\* No message leaves a node before the records it relies on are on disk, with
\* channels of any capacity and however far the node runs ahead of
\* handleChannels (raft.go:258-300).
THEOREM RecordsFirst == Spec => []RecordsBeforeMessages
<1>1. RecordsInv => RecordsBeforeMessages
  BY DEF RecordsInv
<1> QED
  BY <1>1, InitialTypes, TypeInvariant, InitialRecords, RecordsInvariant, PTL
     DEF Spec

-----------------------------------------------------------------------------
(* The timer.                                                              *)

HasAlarm(s) == \E k \in 1..Len(s) : s[k].type \in Alarm

\* The last alarm among the actions s, if any, is for the given time.
LastAlarmIs(time, s) ==
    \A k \in 1..Len(s) :
      s[k].type \in Alarm =>
        \/ s[k].type = time
        \/ \E j \in 1..Len(s) : j > k /\ s[j].type \in Alarm

LEMMA AlarmAppend ==
    ASSUME NEW s \in Seq(Action), NEW a \in Action, NEW time
    PROVE  /\ HasAlarm(Append(s, a)) <=> HasAlarm(s) \/ a.type \in Alarm
           /\ a.type \in Alarm /\ a.type = time =>
                LastAlarmIs(time, Append(s, a))
           /\ LastAlarmIs(time, s) /\ a.type \notin Alarm =>
                LastAlarmIs(time, Append(s, a))
<1> DEFINE t == Append(s, a)
<1>1. /\ Len(s) \in Nat /\ Len(t) = Len(s) + 1
      /\ \A i \in 1..Len(s) : t[i] = s[i]
      /\ t[Len(s) + 1] = a
  BY AppendProperties, LenProperties
<1> HIDE DEF t
<1>2. \A k \in 1..Len(t) : k \in 1..Len(s) \/ k = Len(s) + 1
  BY <1>1
<1>3. \A k \in 1..Len(s) : k \in 1..Len(t) /\ Len(s) + 1 > k
  BY <1>1
<1>4. Len(s) + 1 \in 1..Len(t)
  BY <1>1
<1>5. HasAlarm(t) <=> HasAlarm(s) \/ a.type \in Alarm
  BY <1>1, <1>2, <1>3, <1>4 DEF HasAlarm
<1>6. ASSUME a.type \in Alarm, a.type = time
      PROVE  LastAlarmIs(time, t)
  <2> SUFFICES ASSUME NEW k \in 1..Len(t), t[k].type \in Alarm
               PROVE  \/ t[k].type = time
                      \/ \E j \in 1..Len(t) : j > k /\ t[j].type \in Alarm
    BY DEF LastAlarmIs
  <2> QED BY <1>1, <1>2, <1>3, <1>4, <1>6
<1>7. ASSUME LastAlarmIs(time, s), a.type \notin Alarm
      PROVE  LastAlarmIs(time, t)
  <2> SUFFICES ASSUME NEW k \in 1..Len(t), t[k].type \in Alarm
               PROVE  \/ t[k].type = time
                      \/ \E j \in 1..Len(t) : j > k /\ t[j].type \in Alarm
    BY DEF LastAlarmIs
  <2>1. k \in 1..Len(s) /\ t[k] = s[k]
    BY <1>1, <1>2, <1>7
  <2> QED BY <1>1, <1>3, <1>7, <2>1 DEF LastAlarmIs
<1> QED
  BY <1>5, <1>6, <1>7 DEF t

LEMMA AlarmOfTail ==
    ASSUME NEW s \in Seq(Action), s # <<>>
    PROVE  HasAlarm(s) <=> HasAlarm(Tail(s)) \/ Head(s).type \in Alarm
<1> DEFINE t == Tail(s)
<1>1. /\ Len(s) \in Nat \ {0} /\ Len(t) = Len(s) - 1
      /\ \A i \in 1..Len(t) : t[i] = s[i + 1]
      /\ Head(s) = s[1]
  BY HeadTailProperties, LenProperties, EmptySeq
<1> HIDE DEF t
<1>2. ASSUME HasAlarm(s)
      PROVE  HasAlarm(t) \/ Head(s).type \in Alarm
  <2>1. PICK j \in 1..Len(s) : s[j].type \in Alarm
    BY <1>2 DEF HasAlarm
  <2>2. CASE j = 1
    BY <1>1, <2>1, <2>2
  <2>3. CASE j > 1
    <3>1. j - 1 \in 1..Len(t) /\ (j - 1) + 1 = j
      BY <1>1, <2>3
    <3> QED BY <1>1, <2>1, <3>1 DEF HasAlarm
  <2> QED BY <2>2, <2>3
<1>3. /\ \A i \in 1..Len(t) : i + 1 \in 1..Len(s)
      /\ 1 \in 1..Len(s)
  BY <1>1
<1>4. HasAlarm(t) \/ Head(s).type \in Alarm => HasAlarm(s)
  BY <1>1, <1>3 DEF HasAlarm
<1> QED
  BY <1>2, <1>4 DEF t

LEMMA AlarmTail ==
    ASSUME NEW s \in Seq(Action), s # <<>>, NEW time, LastAlarmIs(time, s)
    PROVE  /\ HasAlarm(s) <=> HasAlarm(Tail(s)) \/ Head(s).type \in Alarm
           /\ LastAlarmIs(time, Tail(s))
           /\ Head(s).type \in Alarm /\ ~HasAlarm(Tail(s)) =>
                Head(s).type = time
<1> DEFINE t == Tail(s)
<1>1. /\ Len(s) \in Nat \ {0} /\ Len(t) = Len(s) - 1
      /\ \A i \in 1..Len(t) : t[i] = s[i + 1]
      /\ Head(s) = s[1]
  BY HeadTailProperties, LenProperties, EmptySeq
<1> HIDE DEF t
<1>2. /\ \A i \in 1..Len(t) : i + 1 \in 1..Len(s) /\ i + 1 > 1
      /\ 1 \in 1..Len(s)
  BY <1>1
<1>3. \A j \in 1..Len(s) : j > 1 => j - 1 \in 1..Len(t) /\ t[j - 1] = s[j]
  <2> TAKE j \in 1..Len(s)
  <2> HAVE j > 1
  <2>1. j - 1 \in 1..Len(t) /\ (j - 1) + 1 = j
    BY <1>1
  <2> QED BY <1>1, <2>1
<1>4. HasAlarm(s) <=> HasAlarm(t) \/ Head(s).type \in Alarm
  BY AlarmOfTail DEF t
<1>5. LastAlarmIs(time, t)
  <2> SUFFICES ASSUME NEW k \in 1..Len(t), t[k].type \in Alarm,
                      t[k].type # time
               PROVE  \E j \in 1..Len(t) : j > k /\ t[j].type \in Alarm
    BY DEF LastAlarmIs
  <2>1. k + 1 \in 1..Len(s) /\ s[k + 1] = t[k]
    BY <1>1, <1>2
  <2>2. PICK j \in 1..Len(s) : j > k + 1 /\ s[j].type \in Alarm
    BY <2>1 DEF LastAlarmIs
  <2>3. j - 1 \in 1..Len(t) /\ t[j - 1] = s[j] /\ j - 1 > k
    BY <1>3, <2>2
  <2> QED BY <2>2, <2>3
<1>6. ASSUME Head(s).type \in Alarm, Head(s).type # time
      PROVE  HasAlarm(t)
  <2>1. PICK j \in 1..Len(s) : j > 1 /\ s[j].type \in Alarm
    BY <1>1, <1>2, <1>6 DEF LastAlarmIs
  <2> QED BY <1>3, <2>1 DEF HasAlarm
<1> QED
  BY <1>4, <1>5, <1>6 DEF t

\* What the running handler has pushed into an empty todo.
LEMMA AlarmPush ==
    ASSUME NEW state, NEW acts \in Seq(KindIn(state)), Tidy(acts),
           issued \in Nat, Push(acts)
    PROVE  /\ LastAlarmIs(TimeOf(state), todo')
           /\ (\E k \in 1..Len(acts) : acts[k] \in Alarm) => HasAlarm(todo')
<1>1. /\ Len(todo') = Len(acts)
      /\ \A k \in 1..Len(acts) : todo'[k].type = acts[k]
  BY PushFacts DEF Tidy
<1>2. \A k \in 1..Len(acts) : acts[k] \in KindIn(state)
  BY ElementOfSeq
<1>3. \A k \in 1..Len(acts) : acts[k] \in Alarm => acts[k] = TimeOf(state)
  BY <1>2 DEF KindIn
<1> QED
  BY <1>1, <1>3 DEF LastAlarmIs, HasAlarm

LEMMA EmptyAlarms == ~HasAlarm(<<>>) /\ \A time : LastAlarmIs(time, <<>>)
BY DEF HasAlarm, LastAlarmIs

RightTimer ==
    [time   |-> IF role = LEADER THEN HeartbeatTimeout ELSE ElectionTimeout,
     random |-> role # LEADER]

\* The last alarm on its way is for the node's role; without one, the timer is
\* right or its timeout is on its way.
TimerInv ==
    role # POWEROFF /\ returns = Stays =>
      /\ LastAlarmIs(TimeOf(role), todo)
      /\ HasAlarm(todo) \/ LastAlarmIs(TimeOf(role), sendChannel)
      /\ \/ HasAlarm(todo) \/ HasAlarm(sendChannel)
         \/ TimeoutPending
         \/ timer = RightTimer

LEMMA InitialTimer ==
    ASSUME Init
    PROVE  TimerInv
<1>1. /\ Len(todo) = 1 /\ todo[1].type = ElectionTimeout
      /\ role = FOLLOWER
  BY DEF Init
<1>2. TimeOf(role) = ElectionTimeout /\ ElectionTimeout \in Alarm
  BY <1>1, Kinds DEF TimeOf, FOLLOWER, LEADER
<1>3. HasAlarm(todo)
  BY <1>1, <1>2 DEF HasAlarm
<1>4. LastAlarmIs(TimeOf(role), todo)
  BY <1>1, <1>2 DEF LastAlarmIs
<1> QED
  BY <1>3, <1>4 DEF TimerInv

\* A timeout stays in ReceiveChannel when an event is added.
LEMMA TimeoutStays ==
    ASSUME TypeOK, NEW e \in Event, receiveChannel' = Append(receiveChannel, e)
    PROVE  /\ TimeoutPending /\ fired' = fired => TimeoutPending'
           /\ e = "Timeout" => TimeoutPending'
<1>1. /\ Len(receiveChannel) \in Nat
      /\ Len(receiveChannel') = Len(receiveChannel) + 1
      /\ \A i \in 1..Len(receiveChannel) :
           receiveChannel'[i] = receiveChannel[i]
      /\ receiveChannel'[Len(receiveChannel) + 1] = e
  BY AppendProperties, LenProperties DEF TypeOK
<1>2. /\ \A i \in 1..Len(receiveChannel) : i \in 1..Len(receiveChannel')
      /\ Len(receiveChannel) + 1 \in 1..Len(receiveChannel')
  BY <1>1
<1> QED
  BY <1>1, <1>2 DEF TimeoutPending

LEMMA TimerInvariant == TypeOK /\ TimerInv /\ [Next]_vars => TimerInv'
<1> SUFFICES ASSUME TypeOK, TimerInv, [Next]_vars, role' # POWEROFF,
                    returns' = Stays
             PROVE  /\ LastAlarmIs(TimeOf(role'), todo')
                    /\ \/ HasAlarm(todo')
                       \/ LastAlarmIs(TimeOf(role'), sendChannel')
                    /\ \/ HasAlarm(todo') \/ HasAlarm(sendChannel')
                       \/ TimeoutPending'
                       \/ timer' = RightTimer'
  BY DEF TimerInv
<1> DEFINE Same == UNCHANGED <<role, returns, todo, sendChannel>>
<1>0. /\ sendChannel \in Seq(Action) /\ todo \in Seq(Action)
      /\ issued \in Nat /\ role \in State
      /\ receiveChannel \in Seq(Event) /\ Len(receiveChannel) \in Nat
  BY LenProperties DEF TypeOK
<1>1. ASSUME Same, \/ timer' = timer /\ (TimeoutPending => TimeoutPending')
                   \/ TimeoutPending'
      PROVE  /\ LastAlarmIs(TimeOf(role'), todo')
             /\ HasAlarm(todo') \/ LastAlarmIs(TimeOf(role'), sendChannel')
             /\ \/ HasAlarm(todo') \/ HasAlarm(sendChannel')
                \/ TimeoutPending'
                \/ timer' = RightTimer'
  <2>1. RightTimer' = RightTimer
    BY <1>1 DEF RightTimer
  <2> QED BY <1>1, <2>1 DEF TimerInv
<1>2. CASE HandleEvent
  <2> DEFINE e == Head(receiveChannel)
  <2>1. /\ e \in Event /\ receiveChannel' = Tail(receiveChannel)
        /\ Len(receiveChannel') = Len(receiveChannel) - 1
        /\ \A i \in 1..Len(receiveChannel') :
             receiveChannel'[i] = receiveChannel[i + 1]
        /\ e = receiveChannel[1]
    BY <1>0, <1>2, HeadTailProperties, EmptySeq DEF HandleEvent
  <2>2. /\ role # POWEROFF /\ todo = <<>> /\ returns = Stays
        /\ UNCHANGED <<role, sendChannel, timer, fired>>
    BY <1>2 DEF HandleEvent, timerVars
  <2>3. PICK case \in Cases(role, e) : Push(case.acts) /\ returns' = case.next
    BY <1>2 DEF HandleEvent
  <2> HIDE DEF e
  <2>4. CaseFacts(role, e, case)
    BY <1>0, <2>1, <2>2, CasesFacts
  <2>5. /\ Tidy(case.acts) /\ case.acts \in Seq(KindIn(role))
        /\ e = "Timeout" => \E k \in 1..Len(case.acts) : case.acts[k] \in Alarm
    BY <2>3, <2>4 DEF CaseFacts
  <2>6. /\ LastAlarmIs(TimeOf(role), todo')
        /\ e = "Timeout" => HasAlarm(todo')
    BY <1>0, <2>3, <2>5, AlarmPush
  <2>7. LastAlarmIs(TimeOf(role), sendChannel) /\ ~HasAlarm(todo)
    BY <2>2, EmptyAlarms DEF TimerInv
  <2>8. e # "Timeout" /\ TimeoutPending => TimeoutPending'
    <3> SUFFICES ASSUME e # "Timeout", NEW k \in 1..Len(receiveChannel),
                        receiveChannel[k] = "Timeout"
                 PROVE  \E i \in 1..Len(receiveChannel') :
                          receiveChannel'[i] = "Timeout"
      BY <2>2 DEF TimeoutPending
    <3>1. k # 1
      BY <2>1
    <3>2. k - 1 \in 1..Len(receiveChannel') /\ (k - 1) + 1 = k
      BY <1>0, <2>1, <3>1
    <3>3. receiveChannel'[k - 1] = receiveChannel[k]
      BY <2>1, <3>2
    <3> QED BY <3>2, <3>3
  <2>9. RightTimer' = RightTimer
    BY <2>2 DEF RightTimer
  <2> QED BY <2>2, <2>6, <2>7, <2>8, <2>9 DEF TimerInv
<1>3. CASE ReturnRole
  <2>1. role' = returns /\ returns \in State /\ Push(Prologue(returns))
    BY <1>3 DEF ReturnRole, TypeOK
  <2>2. /\ Tidy(Prologue(returns))
        /\ Prologue(returns) \in Seq(KindIn(returns))
        /\ \E k \in 1..Len(Prologue(returns)) : Prologue(returns)[k] \in Alarm
    BY <2>1, PrologueFacts
  <2>3. LastAlarmIs(TimeOf(returns), todo') /\ HasAlarm(todo')
    BY <1>0, <2>1, <2>2, AlarmPush
  <2> QED BY <2>1, <2>3
<1>4. CASE PushAction
  <2> DEFINE a == Head(todo)
             time == TimeOf(role)
  <2>1. todo # <<>> /\ todo' = Tail(todo) /\ a \in Action
    BY <1>0, <1>4, HeadTailProperties DEF PushAction
  <2>2. /\ UNCHANGED <<role, returns, timer, receiveChannel, fired>>
        /\ \/ a.type = "Quit" /\ sendChannel' = sendChannel
           \/ sendChannel' = Append(sendChannel, a)
    BY <1>4 DEF PushAction, timerVars
  <2> HIDE DEF a, time
  <2>3. /\ LastAlarmIs(time, todo)
        /\ HasAlarm(todo) \/ LastAlarmIs(time, sendChannel)
        /\ \/ HasAlarm(todo) \/ HasAlarm(sendChannel)
           \/ TimeoutPending
           \/ timer = RightTimer
    BY <2>2 DEF TimerInv, time
  <2>4. /\ HasAlarm(todo) <=> HasAlarm(todo') \/ a.type \in Alarm
        /\ LastAlarmIs(time, todo')
        /\ a.type \in Alarm /\ ~HasAlarm(todo') => a.type = time
    BY <1>0, <2>1, <2>3, AlarmTail DEF a
  <2>5. a.type \in Alarm => sendChannel' = Append(sendChannel, a)
    BY <2>2, Kinds
  <2>6. HasAlarm(sendChannel) \/ a.type \in Alarm => HasAlarm(sendChannel')
    BY <1>0, <2>1, <2>2, <2>5, AlarmAppend
  <2>7. HasAlarm(todo') \/ LastAlarmIs(time, sendChannel')
    <3>1. CASE a.type \in Alarm
      BY <1>0, <2>1, <2>4, <2>5, <3>1, AlarmAppend
    <3>2. CASE a.type \notin Alarm
      <4>1. HasAlarm(todo') \/ LastAlarmIs(time, sendChannel)
        BY <2>3, <2>4, <3>2
      <4>2. CASE sendChannel' = sendChannel
        BY <4>1, <4>2
      <4>3. CASE sendChannel' = Append(sendChannel, a)
        BY <1>0, <2>1, <3>2, <4>1, <4>3, AlarmAppend
      <4> QED BY <2>2, <4>2, <4>3
    <3> QED BY <3>1, <3>2
  <2>8. RightTimer' = RightTimer /\ (TimeoutPending' <=> TimeoutPending)
    BY <2>2 DEF RightTimer, TimeoutPending
  <2> QED BY <2>2, <2>3, <2>4, <2>6, <2>7, <2>8 DEF time
<1>5. CASE TakeAction
  <2> DEFINE a == Head(sendChannel)
             time == TimeOf(role)
  <2>1. sendChannel # <<>> /\ sendChannel' = Tail(sendChannel) /\ a \in Action
    BY <1>0, <1>5, HeadTailProperties DEF TakeAction
  <2>2. /\ UNCHANGED <<role, returns, todo, receiveChannel, fired>>
        /\ HandleAction(a)
    BY <1>5 DEF TakeAction, nodeVars
  <2> HIDE DEF a, time
  <2>3. /\ LastAlarmIs(time, todo)
        /\ HasAlarm(todo) \/ LastAlarmIs(time, sendChannel)
        /\ \/ HasAlarm(todo) \/ HasAlarm(sendChannel)
           \/ TimeoutPending
           \/ timer = RightTimer
    BY <2>2 DEF TimerInv, time
  <2>4. RightTimer' = RightTimer /\ (TimeoutPending' <=> TimeoutPending)
    BY <2>2 DEF RightTimer, TimeoutPending
  <2>5. CASE HasAlarm(todo)
    BY <2>2, <2>3, <2>5 DEF time
  <2>6. CASE ~HasAlarm(todo)
    <3>1. /\ HasAlarm(sendChannel) <=>
               HasAlarm(sendChannel') \/ a.type \in Alarm
          /\ LastAlarmIs(time, sendChannel')
          /\ a.type \in Alarm /\ ~HasAlarm(sendChannel') => a.type = time
      BY <1>0, <2>1, <2>3, <2>6, AlarmTail DEF a
    <3>2. CASE a.type \in Alarm
      <4>1. SetTimer(a.type)
        BY <2>2, <3>2, Kinds DEF HandleAction, Record
      <4>2. a.type = time => timer' = RightTimer
        BY <4>1, Kinds DEF SetTimer, RightTimer, time, TimeOf
      <4> QED BY <2>2, <2>3, <2>4, <3>1, <3>2, <4>2 DEF time
    <3>3. CASE a.type \notin Alarm
      <4>1. timer' = timer
        BY <2>2, <3>3 DEF HandleAction, timerVars
      <4> QED BY <2>2, <2>3, <2>4, <2>6, <3>1, <3>3, <4>1 DEF time
    <3> QED BY <3>2, <3>3
  <2> QED BY <2>5, <2>6
<1>6. CASE \E m \in Message : TakeMessage(m)
  <2>1. Same /\ UNCHANGED <<timer, receiveChannel, fired>>
    BY <1>6 DEF TakeMessage, nodeVars, timerVars
  <2> QED BY <1>1, <2>1 DEF TimeoutPending
<1>7. CASE ForwardMessage
  <2>1. /\ Same /\ UNCHANGED <<timer, fired>>
        /\ hand \in Event /\ receiveChannel' = Append(receiveChannel, hand)
    BY <1>7 DEF ForwardMessage, nodeVars, timerVars, Event
  <2> QED BY <1>1, <2>1, TimeoutStays
<1>8. CASE DeliverCommit \/ TakeQuit \/ ReadCommit \/ AnswerClient
             \/ AnswerStranger \/ CallShutdown
  <2>1. Same /\ UNCHANGED <<timer, receiveChannel, fired>>
    BY <1>8 DEF DeliverCommit, TakeQuit, ReadCommit, AnswerClient,
                AnswerStranger, BackToSelect, CallShutdown, nodeVars, timerVars
  <2> QED BY <1>1, <2>1 DEF TimeoutPending
<1>9. CASE Fire
  <2>1. Same /\ fired' > 0
    BY <1>9 DEF Fire, nodeVars, TypeOK
  <2> QED BY <1>1, <2>1 DEF TimeoutPending
<1>10. CASE PushTimeout
  <2>1. /\ Same /\ "Timeout" \in Event
        /\ receiveChannel' = Append(receiveChannel, "Timeout")
    BY <1>10 DEF PushTimeout, nodeVars, Event
  <2> QED BY <1>1, <2>1, TimeoutStays
<1>11. CASE AppendCommand
  <2>1. /\ Same /\ UNCHANGED <<timer, fired>> /\ "Append" \in Event
        /\ receiveChannel' = Append(receiveChannel, "Append")
    BY <1>11 DEF AppendCommand, nodeVars, timerVars, Event
  <2> QED BY <1>1, <2>1, TimeoutStays
<1>12. CASE PushShutdown
  <2>1. /\ Same /\ UNCHANGED <<timer, fired>> /\ "ShutDown" \in Event
        /\ receiveChannel' = Append(receiveChannel, "ShutDown")
    BY <1>12 DEF PushShutdown, nodeVars, timerVars, Event
  <2> QED BY <1>1, <2>1, TimeoutStays
<1>13. CASE UNCHANGED vars
  <2>1. Same /\ UNCHANGED <<timer, receiveChannel, fired>>
    BY <1>13 DEF vars, nodeVars, timerVars
  <2> QED BY <1>1, <2>1 DEF TimeoutPending
<1> QED
  BY <1>2, <1>3, <1>4, <1>5, <1>6, <1>7, <1>8, <1>9, <1>10, <1>11, <1>12,
     <1>13 DEF Next

\* No alarm in either part of what is pending.
LEMMA PendingAlarms ==
    ASSUME TypeOK, ~AlarmPending
    PROVE  ~HasAlarm(todo) /\ ~HasAlarm(sendChannel)
<1> DEFINE p == sendChannel \o todo
<1>1. /\ Len(sendChannel) \in Nat /\ Len(todo) \in Nat
      /\ Len(p) = Len(sendChannel) + Len(todo)
      /\ \A i \in 1..Len(sendChannel) + Len(todo) :
           p[i] = IF i <= Len(sendChannel) THEN sendChannel[i]
                                           ELSE todo[i - Len(sendChannel)]
  BY ConcatProperties, LenProperties DEF TypeOK
<1>2. \A k \in 1..Len(p) : p[k].type \notin Alarm
  BY DEF AlarmPending, Pending
<1> HIDE DEF p
<1>3. ASSUME NEW k \in 1..Len(sendChannel)
      PROVE  sendChannel[k].type \notin Alarm
  <2>1. k \in 1..Len(p) /\ p[k] = sendChannel[k]
    BY <1>1
  <2> QED BY <1>2, <2>1
<1>4. ASSUME NEW k \in 1..Len(todo)
      PROVE  todo[k].type \notin Alarm
  <2> DEFINE i == Len(sendChannel) + k
  <2>1. i \in 1..Len(p) /\ i > Len(sendChannel) /\ i - Len(sendChannel) = k
    BY <1>1
  <2> HIDE DEF i
  <2>2. p[i] = todo[k]
    BY <1>1, <2>1
  <2> QED BY <1>2, <2>1, <2>2
<1> QED
  BY <1>3, <1>4 DEF HasAlarm

\* A running node never goes deaf: when no alarm is on its way, the timer runs
\* for the role the node has, or its timeout is on its way, however the two
\* goroutines and the timer interleave (raft.go:301-319).
THEOREM TimerRunsForRole == Spec => []TimerFollowsRole
<1>1. TypeOK /\ TimerInv => TimerFollowsRole
  BY PendingAlarms DEF TimerInv, TimerFollowsRole, RightTimer
<1> QED
  BY <1>1, InitialTypes, TypeInvariant, InitialTimer, TimerInvariant, PTL
     DEF Spec
=============================================================================

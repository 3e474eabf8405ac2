----------------------------- MODULE NodeRuntime -----------------------------
(***************************************************************************)
(* The goroutines of one node of src/cs733/assignment4 and the channels    *)
(* between them:                                                           *)
(*   - NodeStart (node.go) runs the function of the node's role, which     *)
(*     takes events from ReceiveChannel and pushes actions on SendChannel, *)
(*     one by one, and may have to wait at each;                           *)
(*   - handleChannels (raft.go) carries out the actions and forwards what  *)
(*     comes from the network to ReceiveChannel;                           *)
(*   - the timer's callbacks push timeouts on ReceiveChannel;              *)
(*   - the file server's goroutines append commands, read the commits and  *)
(*     shut the node down.                                                 *)
(*                                                                         *)
(* What a handler decides is the subject of module Raft.  Of a handler     *)
(* this module keeps the kinds of the actions it pushes, in their order,   *)
(* and the role it returns; which of its cases it takes is left open.      *)
(***************************************************************************)
EXTENDS Naturals, Sequences, FiniteSets

CONSTANTS
    NumChannels,    \* the capacity of the three channels
    Peers,          \* the number of other nodes
    MaxEvents       \* bound: messages, commands and timeouts that come

ASSUME SizeAssumption ==
    /\ NumChannels \in Nat \ {0}
    /\ Peers \in Nat
    /\ MaxEvents \in Nat

VARIABLES
    role,           \* sm.State
    todo,           \* actions that the running handler has still to push
    returns,        \* the role it returns after that; Stays if it does not
    sendChannel,
    receiveChannel,
    commitChannel,  \* ClientCommitChannel: the number of commits in it
    quitChannel,    \* QuitChannel: is the quit signal in it
    hand,           \* what handleChannels has taken and not yet passed on
    quit,           \* handleChannels has ended
    timerSet,       \* sm.TimerSet
    timer,          \* what sm.Timer is running for
    fired,          \* timer callbacks that have not pushed their timeout yet
    backend,        \* backendHandler, which executes commits, answers them
                    \* and calls Shutdown
    issued,         \* records that handlers have asked to store (history)
    stored,         \* records that are on disk (history)
    promised,       \* records that messages sent so far rely on (history)
    events          \* messages, commands and timeouts so far (history)

nodeVars    == <<role, todo, returns, issued>>
channelVars == <<hand, quit, stored, promised>>
timerVars   == <<timerSet, timer>>
vars == <<nodeVars, channelVars, timerVars, sendChannel, receiveChannel,
          commitChannel, quitChannel, fired, backend, events>>

-----------------------------------------------------------------------------
(* Roles, events and actions.                                              *)

FOLLOWER  == "FOLLOWER"
CANDIDATE == "CANDIDATE"
LEADER    == "LEADER"
POWEROFF  == "POWEROFF"
State     == {FOLLOWER, CANDIDATE, LEADER, POWEROFF}
Stays     == "stays"

Message == {"VoteReq", "VoteResp", "AppendReq", "AppendResp"}
Event   == Message \cup {"Timeout", "Append", "ShutDown"}
Record  == {"StateStore", "LogStore"}

(* The three times that the code gives an Alarm; HighTimeout is its way to *)
(* say "remove the timer".                                                 *)
ElectionTimeout  == "ElectionTimeout"
HeartbeatTimeout == "HeartbeatTimeout"
HighTimeout      == "HighTimeout"
Alarm == {ElectionTimeout, HeartbeatTimeout, HighTimeout}

(* A Send says how many records its handler, and those before it, issue.   *)
Action == [type : Alarm \cup Record \cup {"Send", "Commit", "Quit"},
           needs : Nat]

(* A timer runs for a time to which a random delay may have been added.    *)
Timer == [time : Alarm, random : BOOLEAN]
Idle  == [time |-> "never", random |-> FALSE]

Empty == "empty"
Hand  == Message \cup {"Commit", Empty}

-----------------------------------------------------------------------------
(* What the handlers push.  A loop over commits, entries or peers pushes   *)
(* its action once for each: once or never here, but for the peers.        *)

Maybe(act) == {<<>>, <<act>>}
Sends      == [p \in 1..Peers |-> "Send"]

Stay(acts)      == [acts |-> acts, next |-> Stays]
Go(acts, state) == [acts |-> acts, next |-> state]

(* Defect: handleChannels is not told.                                     *)
PowerOffQuietly == Go(<<HighTimeout>>, POWEROFF)

PowerOff == Go(<<HighTimeout, "Quit">>, POWEROFF)

Prologue(state) ==
    CASE state = FOLLOWER  -> <<ElectionTimeout>>
      [] state = CANDIDATE -> <<"StateStore", ElectionTimeout>> \o Sends
      [] state = LEADER    -> <<HeartbeatTimeout>> \o Sends
      [] state = POWEROFF  -> <<>>

(* Defect: the answer is sent before the vote is stored.                   *)
FollowerVotesEarly(e) ==
    CASE e = "Timeout"  -> {Go(<<"StateStore">>, CANDIDATE)}
      [] e = "VoteReq"  ->
            {Stay(<<ElectionTimeout, "Send">> \o s) : s \in Maybe("StateStore")}
      [] e = "ShutDown" -> {PowerOff}
      [] OTHER          -> {Stay(<<>>)}

FollowerCases(e) ==
    CASE e = "Timeout"    -> {Go(<<"StateStore">>, CANDIDATE)}
      [] e = "VoteReq"    ->
            {Stay(<<"Send">>)} \cup
            {Stay(<<ElectionTimeout>> \o s \o <<"Send">>) :
                s \in Maybe("StateStore")}
      [] e = "AppendReq"  ->
            {Stay(<<"Send">>)} \cup
            {Stay(s \o <<ElectionTimeout>> \o c \o l \o d \o <<"Send">>) :
                s \in Maybe("StateStore"), l \in Maybe("LogStore"),
                c \in Maybe("Commit"), d \in Maybe("Commit")}
      [] e = "Append"     -> {Stay(<<"Commit">>)}
      [] e = "VoteResp"   -> {Stay(s) : s \in Maybe("StateStore")}
      [] e = "AppendResp" -> {Stay(s) : s \in Maybe("StateStore")}
      [] e = "ShutDown"   -> {PowerOff}

CandidateCases(e) ==
    CASE e = "Timeout"    -> {Go(<<"StateStore">>, CANDIDATE)}
      [] e = "VoteResp"   ->
            {Stay(<<>>), Go(<<HighTimeout>>, LEADER),
             Go(<<HighTimeout>>, FOLLOWER), Go(<<"StateStore">>, FOLLOWER)}
      [] e = "Append"     -> {Stay(<<"Commit">>)}
      [] e = "AppendReq"  ->
            {Stay(<<"Send">>)} \cup
            {Go(<<"StateStore", HighTimeout>> \o s, FOLLOWER) :
                s \in Maybe("Send")}
      [] e = "VoteReq"    ->
            {Stay(<<"Send">>),
             Go(<<HighTimeout, "StateStore", "Send">>, FOLLOWER)}
      [] e = "AppendResp" ->
            {Stay(<<>>), Go(<<HighTimeout, "StateStore">>, FOLLOWER)}
      [] e = "ShutDown"   -> {PowerOff}

(* A leader that steps down refuses the commands it has not committed.     *)
LeaderCases(e) ==
    CASE e = "Timeout"    -> {Stay(Sends \o <<HeartbeatTimeout>>)}
      [] e \in {"VoteReq", "AppendReq"} ->
            {Stay(<<"Send">>)} \cup
            {Go(<<"StateStore", "Send">> \o c \o <<HighTimeout>>, FOLLOWER) :
                c \in Maybe("Commit")}
      [] e = "Append"     -> {Stay(<<"LogStore">>)}
      [] e = "AppendResp" ->
            {Stay(c) : c \in Maybe("Commit")} \cup
            {Go(<<"StateStore">> \o c \o <<HighTimeout>>, FOLLOWER) :
                c \in Maybe("Commit")}
      [] e = "VoteResp"   ->
            {Stay(<<>>)} \cup
            {Go(<<"StateStore">> \o c \o <<HighTimeout>>, FOLLOWER) :
                c \in Maybe("Commit")}
      [] e = "ShutDown"   -> {PowerOff}

Cases(state, e) ==
    CASE state = FOLLOWER  -> FollowerCases(e)
      [] state = CANDIDATE -> CandidateCases(e)
      [] state = LEADER    -> LeaderCases(e)

RecordsIn(acts) == Cardinality({k \in 1..Len(acts) : acts[k] \in Record})

(* The handler's changes are made; what it pushes follows.                 *)
Push(acts) ==
    LET total == issued + RecordsIn(acts)
    IN /\ issued' = total
       /\ todo' = [k \in 1..Len(acts) |->
                     [type  |-> acts[k],
                      needs |-> IF acts[k] = "Send" THEN total ELSE 0]]

-----------------------------------------------------------------------------
(* NodeStart and the role functions.                                       *)

HandleEvent ==
    /\ role # POWEROFF
    /\ todo = <<>> /\ returns = Stays
    /\ receiveChannel # <<>>
    /\ receiveChannel' = Tail(receiveChannel)
    /\ \E case \in Cases(role, Head(receiveChannel)) :
         /\ Push(case.acts)
         /\ returns' = case.next
    /\ UNCHANGED <<role, channelVars, timerVars, sendChannel, commitChannel,
                   quitChannel, fired, backend, events>>

PushAction ==
    /\ todo # <<>>
    /\ todo' = Tail(todo)
    /\ \/ /\ Head(todo).type = "Quit"
          /\ ~quitChannel
          /\ quitChannel' = TRUE
          /\ UNCHANGED sendChannel
       \/ /\ Head(todo).type # "Quit"
          /\ Len(sendChannel) < NumChannels
          /\ sendChannel' = Append(sendChannel, Head(todo))
          /\ UNCHANGED quitChannel
    /\ UNCHANGED <<role, returns, issued, channelVars, timerVars,
                   receiveChannel, commitChannel, fired, backend, events>>

(* sm.State changes only when a role function returns; the next function   *)
(* pushes its prologue before it takes an event.                           *)
ReturnRole ==
    /\ todo = <<>> /\ returns # Stays
    /\ role' = returns
    /\ returns' = Stays
    /\ Push(Prologue(returns))
    /\ UNCHANGED <<channelVars, timerVars, sendChannel, receiveChannel,
                   commitChannel, quitChannel, fired, backend, events>>

-----------------------------------------------------------------------------
(* handleChannels, which selects among what is ready.                      *)

(* Defect: a timer that is set is left alone.                              *)
SetTimerOnce(time) ==
    \/ /\ timerSet
       /\ UNCHANGED timerVars
    \/ /\ ~timerSet
       /\ timerSet' = TRUE
       /\ timer' = [time |-> time, random |-> role # LEADER]

(* A set timer is stopped by HighTimeout and otherwise starts again,       *)
(* whether or not it has fired.                                            *)
SetTimer(time) ==
    \/ /\ timerSet /\ time = HighTimeout
       /\ timerSet' = FALSE
       /\ timer' = Idle
    \/ /\ ~timerSet \/ time # HighTimeout
       /\ timerSet' = TRUE
       /\ timer' = [time |-> time, random |-> role # LEADER]

HandleAction(a) ==
    \/ /\ a.type \in Alarm
       /\ SetTimer(a.type)
       /\ UNCHANGED <<hand, stored, promised>>
    \/ /\ a.type = "Send"
       /\ promised' = IF a.needs > promised THEN a.needs ELSE promised
       /\ UNCHANGED <<hand, stored, timerVars>>
    \/ /\ a.type \in Record
       /\ stored' = stored + 1
       /\ UNCHANGED <<hand, promised, timerVars>>
    \/ /\ a.type = "Commit"
       /\ hand' = "Commit"
       /\ UNCHANGED <<stored, promised, timerVars>>

TakeAction ==
    /\ ~quit /\ hand = Empty
    /\ sendChannel # <<>>
    /\ sendChannel' = Tail(sendChannel)
    /\ HandleAction(Head(sendChannel))
    /\ UNCHANGED <<nodeVars, quit, receiveChannel, commitChannel, quitChannel,
                   fired, backend, events>>

TakeMessage(m) ==
    /\ ~quit /\ hand = Empty
    /\ events < MaxEvents
    /\ events' = events + 1
    /\ hand' = m
    /\ UNCHANGED <<nodeVars, timerVars, quit, stored, promised, sendChannel,
                   receiveChannel, commitChannel, quitChannel, fired, backend>>

(* Defect: the channel takes any number of events.                         *)
ForwardWithoutWaiting ==
    /\ hand \in Message
    /\ receiveChannel' = Append(receiveChannel, hand)
    /\ hand' = Empty
    /\ UNCHANGED <<nodeVars, timerVars, quit, stored, promised, sendChannel,
                   commitChannel, quitChannel, fired, backend, events>>

(* handleEvents: nothing else is done while ReceiveChannel is full.        *)
ForwardMessage ==
    /\ hand \in Message
    /\ Len(receiveChannel) < NumChannels
    /\ receiveChannel' = Append(receiveChannel, hand)
    /\ hand' = Empty
    /\ UNCHANGED <<nodeVars, timerVars, quit, stored, promised, sendChannel,
                   commitChannel, quitChannel, fired, backend, events>>

(* Defect: a channel of no capacity, which needs a reader.                 *)
DeliverToReader ==
    /\ hand = "Commit"
    /\ backend = "serving"
    /\ hand' = Empty
    /\ UNCHANGED <<nodeVars, timerVars, quit, stored, promised, sendChannel,
                   receiveChannel, commitChannel, quitChannel, fired, backend,
                   events>>

DeliverCommit ==
    /\ hand = "Commit"
    /\ commitChannel < NumChannels
    /\ commitChannel' = commitChannel + 1
    /\ hand' = Empty
    /\ UNCHANGED <<nodeVars, timerVars, quit, stored, promised, sendChannel,
                   receiveChannel, quitChannel, fired, backend, events>>

(* What is still in SendChannel stays there.                               *)
TakeQuit ==
    /\ ~quit /\ hand = Empty
    /\ quitChannel
    /\ quitChannel' = FALSE
    /\ quit' = TRUE
    /\ UNCHANGED <<nodeVars, timerVars, hand, stored, promised, sendChannel,
                   receiveChannel, commitChannel, fired, backend, events>>

-----------------------------------------------------------------------------
(* The timer.                                                              *)

Fire ==
    /\ timer # Idle
    /\ events < MaxEvents
    /\ events' = events + 1
    /\ timer' = Idle
    /\ fired' = fired + 1
    /\ UNCHANGED <<nodeVars, channelVars, timerSet, sendChannel,
                   receiveChannel, commitChannel, quitChannel, backend>>

PushTimeout ==
    /\ fired > 0
    /\ Len(receiveChannel) < NumChannels
    /\ receiveChannel' = Append(receiveChannel, "Timeout")
    /\ fired' = fired - 1
    /\ UNCHANGED <<nodeVars, channelVars, timerVars, sendChannel,
                   commitChannel, quitChannel, backend, events>>

-----------------------------------------------------------------------------
(* The file server.                                                        *)

AppendCommand ==
    /\ events < MaxEvents
    /\ events' = events + 1
    /\ Len(receiveChannel) < NumChannels
    /\ receiveChannel' = Append(receiveChannel, "Append")
    /\ UNCHANGED <<nodeVars, channelVars, timerVars, sendChannel,
                   commitChannel, quitChannel, fired, backend>>

(* backendHandler executes a commit.  It may have nothing to answer, an    *)
(* answer for a client that waits at its channel, or one that nobody waits *)
(* for: for a command of another server's client (server.go:457, 511).     *)
ReadCommit ==
    /\ backend = "serving"
    /\ commitChannel > 0
    /\ commitChannel' = commitChannel - 1
    /\ backend' \in {"serving", "answering", "blocked"}
    /\ UNCHANGED <<nodeVars, channelVars, timerVars, sendChannel,
                   receiveChannel, quitChannel, fired, events>>

BackToSelect ==
    /\ backend' = "serving"
    /\ UNCHANGED <<nodeVars, channelVars, timerVars, sendChannel,
                   receiveChannel, commitChannel, quitChannel, fired, events>>

AnswerClient ==
    /\ backend = "answering"
    /\ BackToSelect

(* Another client may come and take the answer for its own.  None ever does *)
(* when the channel is not in channelMap.                                  *)
AnswerStranger ==
    /\ backend = "blocked"
    /\ BackToSelect

(* backendHandler, at its select, calls Shutdown and reads no commit any   *)
(* more.                                                                   *)
CallShutdown ==
    /\ backend = "serving"
    /\ backend' = "stopping"
    /\ UNCHANGED <<nodeVars, channelVars, timerVars, sendChannel,
                   receiveChannel, commitChannel, quitChannel, fired, events>>

PushShutdown ==
    /\ backend = "stopping"
    /\ Len(receiveChannel) < NumChannels
    /\ receiveChannel' = Append(receiveChannel, "ShutDown")
    /\ backend' = "stopped"
    /\ UNCHANGED <<nodeVars, channelVars, timerVars, sendChannel,
                   commitChannel, quitChannel, fired, events>>

-----------------------------------------------------------------------------
(* The specification: a node that New has just made.                       *)

Init ==
    /\ role = FOLLOWER
    /\ todo = <<[type |-> ElectionTimeout, needs |-> 0]>>
    /\ returns = Stays
    /\ sendChannel = <<>> /\ receiveChannel = <<>>
    /\ commitChannel = 0 /\ quitChannel = FALSE
    /\ hand = Empty /\ quit = FALSE
    /\ timerSet = FALSE /\ timer = Idle /\ fired = 0
    /\ backend = "serving"
    /\ issued = 0 /\ stored = 0 /\ promised = 0
    /\ events = 0

Next ==
    \/ HandleEvent \/ PushAction \/ ReturnRole
    \/ TakeAction \/ ForwardMessage \/ DeliverCommit \/ TakeQuit
    \/ \E m \in Message : TakeMessage(m)
    \/ Fire \/ PushTimeout
    \/ AppendCommand
    \/ ReadCommit \/ AnswerClient \/ AnswerStranger
    \/ CallShutdown \/ PushShutdown

(* A goroutine that can go on does, and a client that waits for its answer  *)
(* takes it.  The timer, the network and the other clients owe nothing; that *)
(* one comes for an answer that is not its own (AnswerStranger) is not       *)
(* assumed.  Events come a bounded number of times, so that what they can be *)
(* preferred to is ready for ever in the end: weak fairness is enough.       *)
Fairness ==
    /\ WF_vars(HandleEvent \/ PushAction \/ ReturnRole)
    /\ WF_vars(TakeAction) /\ WF_vars(TakeQuit)
    /\ WF_vars(ForwardMessage \/ DeliverCommit)
    /\ WF_vars(ReadCommit) /\ WF_vars(AnswerClient)
    /\ WF_vars(PushShutdown)

Spec == Init /\ [][Next]_vars /\ Fairness

-----------------------------------------------------------------------------
(* Properties.                                                             *)

\* Every channel and variable holds what its Go type and capacity allow, and
\* no more is on disk than was asked for.
TypeOK ==
    /\ role \in State
    /\ todo \in Seq(Action)
    /\ returns \in State \cup {Stays}
    /\ sendChannel \in Seq(Action) /\ Len(sendChannel) <= NumChannels
    /\ receiveChannel \in Seq(Event) /\ Len(receiveChannel) <= NumChannels
    /\ commitChannel \in 0..NumChannels
    /\ quitChannel \in BOOLEAN
    /\ hand \in Hand
    /\ quit \in BOOLEAN
    /\ timerSet \in BOOLEAN
    /\ timer \in Timer \cup {Idle}
    /\ fired \in Nat
    /\ backend \in {"serving", "answering", "blocked", "stopping", "stopped"}
    /\ issued \in Nat /\ stored \in Nat /\ promised \in Nat
    /\ events \in Nat

\* A message leaves only after the records of its handler, and of those before
\* it, are on disk, whatever the node runs ahead and whenever it is stopped:
\* what raft.go:227 may leave unwritten, nobody has been told of.
RecordsBeforeMessages == promised <= stored

Pending == sendChannel \o todo

AlarmPending == \E k \in 1..Len(Pending) : Pending[k].type \in Alarm

TimeoutPending ==
    \/ fired > 0
    \/ \E k \in 1..Len(receiveChannel) : receiveChannel[k] = "Timeout"

\* A running node never goes deaf: when no alarm is on its way, the timer runs
\* for the role the node has, or its timeout is on its way.  raft.go:301-319
\* reads sm.State while the other goroutine changes it, and never clears
\* TimerSet when the timer fires.
TimerFollowsRole ==
    role # POWEROFF /\ returns = Stays /\ ~AlarmPending =>
        \/ TimeoutPending
        \/ timer = [time   |-> IF role = LEADER THEN HeartbeatTimeout
                                                ELSE ElectionTimeout,
                    random |-> role # LEADER]

\* The node goroutine takes no more events: it is off, or it waits itself.
NodeWaits ==
    role = POWEROFF \/ (todo # <<>> /\ Len(sendChannel) = NumChannels)

\* The backend reads no more commits: it has called Shutdown, or has an answer
\* that nobody waits for.
BackendWaits == backend \in {"blocked", "stopping", "stopped"}

\* handleChannels waits at a full channel that nobody empties.
Wedged ==
    \/ hand \in Message /\ Len(receiveChannel) = NumChannels /\ NodeWaits
    \/ hand = "Commit" /\ commitChannel = NumChannels /\ BackendWaits

\* The node finishes every handler and takes every event, unless its channels
\* are full in a circle or the backend is blocked (raft.go:258, 384), and then
\* for good: a channel that is only full for a time delays it.
EventsHandled ==
    receiveChannel # <<>> /\ role # POWEROFF ~>
        receiveChannel = <<>> \/ role = POWEROFF \/ []Wedged

\* Shutdown (node.go:402) stops both goroutines, unless they are wedged.
ShutdownCompletes ==
    backend = "stopping" ~> (role = POWEROFF /\ quit) \/ []Wedged

=============================================================================

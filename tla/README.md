# A verification of the replicated file server of SDN_LTE (cs733)

The repository builds, over four assignments, a file server that is replicated
with Raft: assignment 1 is a single server, assignment 2 a Raft state machine
driven by its tests, assignment 3 a Raft node with goroutines, disk and network,
and assignment 4 the whole: file servers on top of Raft nodes. Assignment 4 is
the final program, and it is modelled whole: the Raft nodes, the goroutines
of a node, and the file servers on top of them.

All paths below are relative to `src/cs733/`.

## Inventory

| Part | Code | State | Operations | Talks to |
|---|---|---|---|---|
| Follower | `assignment4/follower.go` | `RaftServer` fields (`node.go:299`) | timeout, vote request, append request, late responses, client command, shutdown | events from `ReceiveChannel`; actions to `SendChannel` |
| Candidate | `assignment4/candidate.go` | the same, `VotesArray` | prologue (vote for itself, ask for votes), timeout, vote response, append request, vote request, late response, client command, shutdown | the same |
| Leader | `assignment4/leader.go` | the same, locals `nextIndex`, `matchIndex` | prologue (first heartbeats), heartbeat timeout, client command, append responses, requests of other nodes, shutdown | the same |
| Node | `assignment4/node.go` | two disk logs (entries, term and vote) | `New` (restore), `NodeStart` (dispatch), `Append`, `Shutdown` | disk log library |
| Runtime | `assignment4/raft.go` | `ReceiveChannel`, `SendChannel`, `ClientCommitChannel` (1000 each), `QuitChannel`, timer | `handleChannels`: actions to disk, network, timer, client; network to `ReceiveChannel` | cluster library, both goroutines of the node |
| File server | `assignment4/server.go` | map of versioned files with expiry, `channelMap`, `connectionMap` | parse a client's line, append write/cas/delete, read locally, apply commits, redirect, restore from the log | Raft node by `Append` and `ClientCommitChannel` |
| Start-up | `assignment4/server_backend.go` | none | reads the configuration, starts servers | |
| File store | `assignment1/server.go` | map of versioned files | write, read, cas, delete in one goroutine | clients by channels |
| Earlier Rafts | `assignment2/*.go`, `assignment3/*.go` | as assignment 4 | as assignment 4 | |
| Libraries | not in the repository | | `cluster` (Inbox, Outbox), `log` (Append, Get, GetLastIndex) | |

What is hard here, and what makes each part correct:

* **Elections.** Votes are messages that arrive late; terms, votes and the vote
  array change in three files; a vote must be on disk before it is heard of.
  Correct: one leader per term, votes durable, a winner has a real majority.
* **Replication.** `nextIndex` moves on when entries are *sent*, late responses
  move it and `matchIndex` either way, heartbeats are answered `Success` without
  a comparison of logs. Correct: slices in range, logs match, what is committed
  is on a majority, every node delivers the same commands.
* **Clients.** A leader that steps down, on five paths, must answer each
  uncommitted command.
* **Restart.** The disk log is only appended to, the state record read at
  restart is chosen by the other log's length. Correct: nothing promised is lost.
* **Goroutines of a node.** Two goroutines and a timer are joined by bounded
  channels, each of which can be waiting for the other. Correct: nothing is sent
  before it is stored, the timer never dies, events and shutdowns get through.
* **Goroutines of a file server.** One per client, two that work on the map
  without a lock, and one that restores it. A log entry names its client by a
  number that every server counts for itself, and who answers depends on the
  role of the moment. Correct: answers meet their commands, nobody blocks on a
  channel without a reader, replicas have the same files.

`PROJECT.json` lists these hazards line by line with the properties that cover
them.

Assignment 3 differs from assignment 4 in small ways only: its candidate indexes
`VotesArray` with a rejection's `Id-1` without the guard of `candidate.go:101`,
and its runtime lacks assignment 4's entry points for a single server.
Assignment 2's handlers return after each event, its leader sends its heartbeat
to itself too, and they index the log with -1 when it is empty.

## Plan

Done, in this order:

1. **Raft**: the cluster as one module, with network, disks and restarts. Runs
   per question, the violations met on the way, type correctness and the first
   safety invariants proved.
2. **FileStore**: assignment 1's server, its map of versioned files with expiry
   (`FileMap`), against the abstract `ExpiringStore`; refinement checked and
   proved.
3. **NodeRuntime**: the goroutines, timer and bounded channels of one node.
4. **FileServer**: the replicated servers, composed of `FileMap` and `Raft`.
5. **Proofs about logs**: durable logs, ordered terms, answers to a leader's
   clients, and Log Matching; then about the goroutines of one node.
6. **Proofs about the whole**: clusters with one election, and on top of them
   the file servers, whose steps are those of `Raft` seen through an instance.

Open: what survives of `AnswersAwaited` and `ReplicasAgree` when a server comes
back; assignment 2's single-step handlers where they differ.

Modules meant for proofs use no `RECURSIVE` operator; constants carry named
assumptions.

## The modules

| Module | What it is |
|---|---|
| `Raft` | the specification and its properties |
| `MCRaft` | symmetry and view for TLC |
| `RaftTypeProofs` | type correctness |
| `RaftSafetyProofs` | commit indices are backed by disks, `nextIndex` is in the log |
| `RaftVoteProofs` | votes are durable, winners have majorities |
| `RaftLogProofs` | logs are on disk; without power-offs terms are ordered and leaders answer |
| `RaftMatchProofs` | without power-offs: with one leader per term logs match, with one election nodes agree |
| `FileTypes` | the records of the file server: files, commands, answers |
| `FileMap` | what one command does to the map, case by case |
| `FileStore` | assignment 1's server: connections, parsers, channels, the owner of the map |
| `ExpiringStore` | what that server promises its clients |
| `FileStoreProofs` | type correctness, and `FileStore` implements `ExpiringStore` |
| `NodeRuntime` | the goroutines, channels and timer of one Raft node |
| `NodeRuntimeProofs` | types, records before messages, and the timer of that node |
| `FileServer` | assignment 4's file servers: `FileMap` on top of an instance of `Raft` |
| `FileServerProofs` | types, answers and replicas of those servers; their nodes run as `Raft` says |

### Raft and the code

One action is one event read from a node's `ReceiveChannel` and handled to the
end. A handler that returns another role ends its function; `NodeStart`
(`node.go:449`) calls the next role's function, whose prologue runs before it
reads an event, so the prologue is part of the same action (`Candidacy`,
`Leadership`). Nothing outside the node sees the middle of a handler, because
every effect goes through the FIFO `SendChannel`; `handleChannels` writes a
record before it sends the message queued behind it. That is why storing and
sending are one step here; what goes on between them inside one node is in
`NodeRuntime`, whose `RecordsBeforeMessages` justifies it.

| Code | Model |
|---|---|
| `sm.State`, `Term`, `VotedFor`, `Log`, `CommitIndex`, `LeaderID`, `VotesArray` | `role`, `term`, `votedFor`, `log`, `commitIndex`, `leaderId`, `votes` |
| locals of `leader()` | `nextIndex`, `matchIndex`, reset by `DropLeaderLocals` when it returns |
| `StateStore`, `LogStore` actions | `stateLog`, `diskLog`, appended to |
| `Send` actions, `cluster` library | `net`, a set of messages |
| `Commit` with and without `Err` | `delivered[i]`, `nacked` |
| `event` cases of the three functions | `Follower...`, `Candidate...`, `Leader...` actions, in the order of the files |
| `ShutDownEvent`, or a crash | `Shutdown` |
| `New` | `New`, guarded by `Restartable`: where the code would panic it cannot run |

Three variables are history, for properties: `submitted`, `elected`, `powerOffs`.

Abstractions:

* Positions are counted from 1, the code's -1 is 0. `commitIndex` is thus the
  number of committed entries. `LogEntry.Index` is read nowhere and left out.
* Commands are model values and each is appended once: a client's retry of the
  same command is a matter of the file server.
* The previous position and term of a heartbeat are not read by any receiver and
  are constant; so is the previous term where no entry precedes.
* Timers are not modelled: a timeout may happen at any moment, which covers
  every duration and every stale `TimeoutEvent`.
* The network is external. It delivers in any order, at most once, and may lose
  a message; loss is decided when the message is sent. Two identical messages in
  flight are one.
* A client command at a follower or candidate only produces an error answer on
  the commit channel; it changes nothing here and is `FileServer`'s
  `RefuseAppend`.
* `Shutdown` also stands for a crash at the end of a handler. A crash between
  two queued actions loses records that no message has relied on yet.

### FileStore and the code

| Code (`assignment1/server.go`) | Model |
|---|---|
| `data` of `channelHandler` | `data`, with `NoFile` for an absent name |
| `commands <- ChannelCommand{...}` | phase `"submitting"`, then `Serve` |
| the cases of `channelHandler` | `WriteOutcome`, `ReadOutcome`, `CasOutcome`, `DeleteOutcome` |
| `cmd.result <- ...`, `<-result` | `answers[c]`, taken by `Receive` |
| `handleClients`, one round of its loop | `Fill`, a `Parse...` or `Reject...` action, `ReadContent` |
| `con`, `bufio.Reader` | `unread`, `buffered` (numbers of lines), `open` |
| `time.Now()`, `time.Since` | `now`, moved by `Tick` |
| `expirySpecified` | a life that is not 0: the parser sets both together |

`Serve` is the receive on `commands` together with the case that follows: the
owner of the map waits for nobody in between, and it serves nobody else until
its answer has been taken (`Idle`). What a line says is chosen when it is
parsed. The creation time is taken there too (`server.go:92`), before the
content arrives, so that time may pass and other commands be served before the
command is. A malformed line closes the connection, but the loop goes on with
what the reader holds (`RejectCommand`); only an overlong line ends the goroutine.

`ExpiringStore` does not know of goroutines: a client invokes a command, the
command takes effect in one step on the whole store, the answer returns. What it
leaves open is exactly what expiry makes uncertain: a write or a cas that
involves a life time, its own or the file's, may find an overdue file or not. A
read or a delete never finds an expired file, and without life times nothing is
ever lost. A command is invoked when its goroutine has all of it, and has
returned when the goroutine has its answer (`Request`).

### NodeRuntime and the code

| Code | Model |
|---|---|
| `follower()`, `candidate()`, `leader()` | `FollowerCases`, `CandidateCases`, `LeaderCases`: for each event the possible sequences of pushed actions and the role returned |
| `sm.SendChannel <- ...`, `sm.QuitChannel <- true` | `todo`, pushed one at a time by `PushAction`, which waits at a full channel |
| `NodeStart` (`node.go:449`) | `ReturnRole`: `sm.State` changes between two role functions |
| `handleChannels` (`raft.go:216`) | `TakeAction`, `TakeMessage`, `TakeQuit`: select takes any case that is ready |
| a blocked `sm.ReceiveChannel <-`, `sm.ClientCommitChannel <-` | `hand`, until `ForwardMessage`, `DeliverCommit` |
| `sm.Timer`, `sm.TimerSet` | `timer`, `timerSet`; `Fire` starts the callback, `PushTimeout` is its send |
| `Append`, `Shutdown` | `AppendCommand`, `PushShutdown` |
| the loop of `backendHandler` | `backend`: `ReadCommit` executes a commit, `CallShutdown` begins a shutdown |
| its sends on `channelMap[...]` (`server.go:389`, `457`, `511`) | `AnswerClient` when a client waits, else `AnswerStranger`, which need never come |

What a handler decides is left open, so the module does not depend on what is
true of the cluster. Loops over commits, entries and peers push their action once
or never (`Maybe`), but to every peer. `issued`, `stored` and `promised` are
history: how many records handlers have asked for, how many are on disk, and on
how many the messages sent so far rely. The second after which `Shutdown` closes
the socket, and the time of alarms, are left out: `Fire` may come at any moment.
Whether a commit has an answer, and whether anybody waits for it, is left open as
well: after any `ReadCommit` the backend may be `"blocked"`, by a nil channel for
ever or until some client takes an answer that is not its own. Which commits do
that is the subject of `FileServer`.

### FileServer and the code

| Code (`assignment4/server.go`) | Model |
|---|---|
| `serverMain` | `main[s]`, `Start`, `BeginRestore`, `RestoreEntry`, `Serve`, `Connect` |
| `parseCommand`, a goroutine per connection | `phase[s][c]`, `command[s][c]`, `Parse`, `Reject` |
| `commands <- ...` and `clientHandler` | `TakeChange`, `TakeRead`, `TakeShutdown` |
| `sm.Append`, the node's `ReceiveChannel` | `appends[s]`, taken by `AcceptAppend` or `RefuseAppend` |
| `ClientCommitChannel` | `commits[s]`, filled by `ClusterStep` and `RefuseAppend` |
| `backendHandler` | `backend[s]`, `TakeCommit`, `BackendMap`, `BackendReply`, `BackendClose` |
| `handleMap` | entering it, the work (`HandlerMap`, `BackendMap`, `RestoreEntry`, by `FileMap`'s `Outcome`) and the answer are three steps |
| `channelMap[id] <- ...` | `Sending`: pc `"reply"`, or `"stuck"` when there is no such channel |
| `connectionMap` | `connections[s]` |
| the node below | the actions of `Raft`, with entries for commands |

Two abstractions to know. There is no clock: every execution picks the age of
files from `Times`, so expiry is a free choice of each server. The run takes 0
only, so no file expires in it; expiry as such is `FileStore`'s subject. And a
process that ends (`Stop`) does so in one step, whether by a client's shutdown or
by a crash. A log that holds a cas that succeeds leaves `serverMain` `"stuck"`
after a restart, as in the code, which sends the answer on a nil channel.

The message ids that `backendHandler` compares change nothing; they serve here to
make entries unique.

Operators marked `Defect` are wrong versions of the operator below them. No
specification uses them; each shows that some property notices such a bug.

## What is checked

Bounds: `MaxTerm` stops election timeouts, `MaxLog` stops client commands,
`MaxInFlight` bounds messages in flight (a step that would exceed it loses some
of what it sends), `MaxPowerOffs` bounds shutdowns. Nodes and commands are
symmetric. Deadlock is not checked: at its bounds a cluster stops.

| Run | Nodes | Terms | Log | In flight | Power-offs | Result |
|---|---|---|---|---|---|---|
| `cluster` | 3 | 2 | 2 | 1 | 0 | `NextIndexInLog`, `LogTermsOrdered`, `LogMatchingUnderElectionSafety`, `UncommittedAnswered` hold |
| `replication` | 3 | 1 | 2 | 2 | 0 | `StateMachineSafety`, `CommitOnMajorityDisks`, `CommitStoredOnMajority` hold |
| `restart` | 2 | 2 | 2 | 2 | 1 | `TypeOK`, `VoteDurable`, `LeaderHasDurableVotes`, `CommitOnMajorityDisks`, `LogDurable` hold |
| `election_safety` | 3 | 2 | 0 | 2 | 0 | `ElectionSafety` is violated |
| `state_machine_safety` | 3 | 2 | 1 | 2 | 0 | `StateMachineSafety` is violated |
| `restart_term` | 2 | 2 | 1 | 2 | 1 | `TermNeverDecreases` is violated |

| Run | Clients | Files | Lines | Time | Lives | Result |
|---|---|---|---|---|---|---|
| `file_store` | 2 | 1 | 3 in all | 2 s | 0, 1 | `TypeOK`, `Implements`, `EveryCommandAnswered` hold |
| `permanent_files` | 2 | 1 | 2 in all | 2 s | 0, 1 | `PermanentFilesStay` is violated |

| Run | Servers | Clients each | Lines | Log | In flight | Power-offs | Result |
|---|---|---|---|---|---|---|---|
| `file_server` | 2 | 1 | 2 in all | 2 | 1 | 1 | `TypeOK`, `AnswersAwaited`, `ReplicasAgree`, `FollowerAnswers` hold |
| `followers_redirect` | 2 | 1 | 3 in all | 2 | 1 | 0 | `FollowersRedirect` is violated |
| `map_access` | 2 | 1 | 2 in all | 2 | 1 | 0 | `MapAccessSerialized` is violated |

| Run | Channel capacity | Peers | Events | Result |
|---|---|---|---|---|
| `node_runtime` | 1 | 1 | 4 in all | `TypeOK`, `RecordsBeforeMessages`, `TimerFollowsRole`, `EventsHandled`, `ShutdownCompletes` hold |

Why these bounds: three nodes are the smallest cluster in which a majority is
not everybody; two terms give an old and a new leader; two entries make a log
that can be cut in the middle; one late message is enough to be out of order, and
`replication` has two. A step replaces a message it consumes, so even a single
message in flight reaches elections and commits. A third term with three nodes
is out of reach of one run.

A handler pushes up to six actions, so a channel of one place fills up within
one event, and its other actions queue behind it in `todo`: the node wedges, as it
does in the code with a thousand places and enough traffic. For a blocked backend
to stop the node with an event unhandled, one commit must be executed,
`ClientCommitChannel` be full and another commit be in hand, with the node waiting
at `SendChannel` and an event behind it. One place and three events reach that,
two places and three events do not; four events leave one to spare.

In the replicated file server one connection on each of two servers is enough to
have two clients of the same number; two lines are two commands in the log, or a
command at the leader and one at the follower; `followers_redirect` takes a
write, a cas and a write of the other server's client.

For assignment 1's file server one file is enough, for commands on different files touch
different entries; three lines give one client a pipeline and the other a
command in the middle of it, a file that is written twice and read or compared;
two seconds outlive a life of one. Lines a client may still send are bounded by
`MaxLines`, the clock by `MaxNow`.

What holds:

* Assignment 1's server is an atomic store, but for expiry, and answers every
  command it was handed.
* Votes and entries are on disk before anyone counts on them, restarts included.
* Under a single leader (one term), commits are sound and nodes agree.
* A node never sends what relies on a record that is not on disk, also when it is
  shut down with actions still queued: those are lost, but nobody has heard of
  them. Its timer runs for its role or a timeout is on its way, although
  `handleActions` reads the role while it changes. Events are handled and
  `Shutdown` ends both goroutines unless the channels are full in a circle
  (`Wedged`): `handleChannels` waits at a full `ReceiveChannel` or
  `ClientCommitChannel` that nobody empties, because the node is off or waits
  itself, or because the backend has called `Shutdown` or is blocked on an answer
  that nobody waits for. Both kinds are reachable, and the properties allow them
  only for good (`[]Wedged`): a channel that is full for a time, or a backend that
  is freed, does not excuse an event that is never handled.
* As long as no server goes down, one leader is elected and no cas is used
  (`Steady`), every answer finds the client waiting for that very command. Without
  restarts and life times, servers that have executed equally many entries have
  the same files. Also under `Steady`, a write, cas or delete at a server that is
  not the leader is answered with a redirection, and its connection then closed.
* Across leaders, logs match *as long as no term has had two leaders*, no
  leader's slice is out of range, and an uncommitted command is answered when
  its leader steps down.

What does not hold, each a run with its counterexample:

* `ElectionSafety`: two leaders in one term. Late grants are counted
  (`candidate.go:71`) and votes cleared within a term (`candidate.go:149`).
* `StateMachineSafety` across terms: a heartbeat is answered `Success` and its
  commit index followed without comparing logs (`follower.go:130-149`). For the
  same reason `CommitStoredOnMajority` is a property of `replication`, with one
  term, only.
* `TermNeverDecreases` with restarts: `node.go:241` reads the wrong record.
* `FollowersRedirect`: a successful cas is answered by every server that executes
  it (`server.go:457`), to the connection that has the client's number there: a
  follower's client gets "OK" for a write that is refused right after. Without
  such a connection the follower's backend blocks for ever.
* `MapAccessSerialized`: reads run in `clientHandler`, commits in
  `backendHandler`, on one map without a lock (`server.go:354`, `544`, `580`).
* `PermanentFilesStay`: a file without an expiry is taken for expired by a write
  or cas that has one (`assignment1/server.go:287`, `337`): the write starts
  again at version 1, the cas deletes it.

One more disagreement with a document needs no run. `README.md:30` promises the
redirection for read as for write and delete, but `clientHandler` executes a read
on its own server's map whatever the node's role (`server.go:578-580`): a client
of a follower reads what that server has executed so far. `FollowerAnswers` is
therefore about write, cas and delete; `FollowersRedirect` includes a client that
waits with a read, for the backend's answer to another client's cas may reach it.

Because of these findings `LogTermsOrdered` is checked without power-offs, and the
properties that fail across terms are checked within one: the passing runs say how far the code goes.

Liveness of Raft is not checked. The network may lose everything and election timeouts
may collide for ever, and nothing in the code is a fair scheduler of either;
a liveness property of elections would hold only by an assumption that the code
does not give. What goroutines do with what they have is different: there Go's
scheduler justifies fairness.

In `NodeRuntime` each goroutine that can go on does (weak fairness), and so does
the connection of a client that waits for its answer (`AnswerClient`): its
`parseCommand` is at the receive. Nothing is assumed of an answer that nobody
waits for (`AnswerStranger`). The timer, the network and clients owe nothing and
come a bounded number of times, so that
select, which picks among the ready cases at random, takes actions and the quit
signal in the end. In `FileServer` the two workers and the node's refusals are
weakly fair, and `clientHandler`'s receive is strongly fair for each connection,
because a channel serves its blocked senders in their order. Elections, the
network and clients are not fair: `FollowerAnswers` needs none of them.

`EveryCommandAnswered` of the file server rests on Go's scheduler: a goroutine
that can go on does (weak fairness of `Fill`, `Parse`, `Receive`), and a sender
blocked at a channel is taken in its turn, for the channel queues its senders
first in, first out (strong fairness of `Serve`). Clients owe nothing: neither
`Send` nor `ReadContent` is fair.

## What is proved

For every finite set of servers, every set of commands and all bounds, TLAPS
checks:

* `TypeCorrect`: `Spec => []TypeOK`.
* `CommitsBacked`: `Spec => []CommitOnMajorityDisks`. The property alone is not
  inductive: a leader commits what its `matchIndex` says, which comes from a
  response, which comes from a follower's log. `DiskInv` follows that chain: a
  log is no longer than its disk log (logs are cut, disk logs are not), no
  `matchIndex` and no successful response counts more than the node it is about
  has on disk, and every commit index, of a node or in a message, is on the
  disks of a majority. `DiskInv` is kept because disk logs only grow, so all of
  these bounds can only become looser.
* `NextIndexSafe`: `Spec => []NextIndexInLog`. A leader's log only grows while
  it leads, and `nextIndex` only falls or is set to the log's end plus one.
* `VotesDurable` and `LeadersVoted`: `Spec => []VoteDurable` and
  `Spec => []LeaderHasDurableVotes`. `VoteInv` relates each grant in the network
  to two records, the voter's vote and the candidate's candidacy, each "yes" in
  a vote array to such a pair, and each election won to a majority of them. It
  needs that a vote request is sent after the candidacy is stored, and that the
  state log is only appended to.
* `LogsDurable`: `Spec => []LogDurable`, restarts included. Inductive as it
  stands: what a follower keeps was on disk, what it appends goes to its log and
  its disk log alike, and a node comes back with all of its disk log.

While no node goes down (`MaxPowerOffs = 0`, as in the run `cluster`; neither a
crash nor a shutdown). With power-offs these are not to be had: a node can come
back with an older term or with a log that no leader sent, and a leader that
goes down sends no NACKs.

* `TermsOrdered`: `Spec => []LogTermsOrdered`, and `TermsGrow`:
  `Spec => TermNeverDecreases`. `OrderInv` adds that the entries of a request are
  ordered, no newer than the request and no older than the entry before them;
  what a follower appends is then no older than what it keeps, because the last
  entry kept has the term of the entry the leader has there.
* `LeadersAnswer`: `Spec => UncommittedAnswered`. No invariant but the types is
  needed: each handler of the leader keeps the entry, delivers up to its new
  commit index, or sends a NACK for all that is uncommitted.
* `LogsMatch`: `Spec => []LogMatchingUnderElectionSafety`. A message is a slice
  of a log its sender may have lost since, so no invariant over the variables
  alone is inductive. `MatchInv` says that there is a set of logs, any two of
  which match, that holds the nodes' logs and one that each request was cut
  from (`Sources`). A follower's new log begins one of them
  (`SpliceIsPrefix`). A leader's new entry is the first at its place in its
  term, because every entry's term was won by someone, winners keep their term
  or have a higher one (`ElectedInv`), and a term had one winner.

As long as no node went down and one election was won at most, whatever the
bounds (`MaxTerm` may be any number, and elections may fail; the run
`replication` has one term):

* `OneLeaderAgreement`: `StateMachineSafety`. `SoloInv` says that there is one
  log (`LeadersLog`), the leader's, empty before the election: every node's log
  is a beginning of it, every request a slice, and a node has delivered what is
  at the beginning of its own. A second election breaks this: the new leader's
  log need not hold what was committed, which is the finding
  `state_machine_safety`.
* `OneLeaderCommits`: `CommitStoredOnMajority`. What a node reports, in a
  response or by way of `matchIndex`, stays in its log (`Reported`), because
  nothing the one leader sends can cut it.

For the replicated file servers, whatever the numbers of servers and clients:

* `FileServerType`: `Spec => []TypeOK`, crashes and restarts included. It needs
  that a goroutine that sends has a client and a command in hand, and that what
  a node delivers was submitted by a server (`SubmittedInv` of the cluster).
* `ServersRunRaft`: the nodes below the servers behave as module `Raft` says, so
  the theorems above hold of them too. `StepOfCluster` shows that each step of a
  server is a step of the cluster or none.
* `AnswersReachTheirClients`: `Spec => []AnswersAwaited`. `SteadyInv` follows a
  command through five places: in the handler's hand, in the node's
  `ReceiveChannel`, uncommitted in the leader's log, on the commit channel, in
  the backend's hand. Its client is waiting for it all the way, with that very
  command (`Waiting`), and a client has a command in one place only (`Alone`);
  otherwise the first answer would free it and the second find nobody. What a
  follower delivers is nobody's, because no follower answers it, and a node that
  comes to lead delivered nothing before. That is where a second election does
  harm, and a cas that succeeds is answered on followers too; hence `Steady`.
* `ReplicasHaveTheSameFiles`: `Spec => []ReplicasAgree`. `PositionInv` says that
  the k-th last commit on a channel that is no refusal is the k-th last command
  that the node delivered, so that a server executes them in order, each once,
  whatever refusals are in between. `HistoryInv` says that there is a sequence
  of maps, each made from the one before by the command delivered at that
  place, of which every server has one as its map: a server either makes the
  map that another had before, or the next one. Reads change nothing and the
  hour of an execution does not matter, because nothing expires.
* `OneLeaderSameFiles`: the same under one election, where `OneLeaderAgreement`
  makes the hypothesis about what nodes deliver superfluous.

For assignment 1's file server:

* `FileStoreTypes`: `Spec => []TypeOK` of the file server. Inductive with the
  remark that a goroutine reading content has a write or a cas in hand.
* `StoreImplemented`: `Spec => Implements`, for any connections, files, contents,
  life times, versions and bounds. `OutcomeAllowed` shows case by case that what
  a command does to the map is allowed to it by the abstract store; `StoreStep`
  that each action is one abstract step or a stutter. It needs the types: one
  answer, for exactly the goroutine that waits, and files from the past.

For one node, with channels of any capacity and any number of peers and events:

* `RuntimeTypes`: `Spec => []TypeOK`. What a handler may push is settled once for
  all its cases (`CasesFacts`): which kinds of actions, that no record comes
  after a message, and which alarms.
* `RecordsFirst`: `Spec => []RecordsBeforeMessages`. `RecordsInv` counts: the
  records asked for are on disk, in `SendChannel` or still to be pushed, and a
  message that is pending needs no more than what is on disk or pending before
  it. It rests on the channel's order and on no handler storing after it sends.
* `TimerRunsForRole`: `Spec => []TimerFollowsRole`. `TimerInv` looks at the last
  alarm on its way, in `todo` or else in `SendChannel`: it is for the role the
  node has, because a handler that changes the role is followed by a prologue
  with an alarm of its own. So whatever `handleActions` makes of the earlier
  ones, reading `sm.State` too late, the last one sets it right.

The proofs about Raft assume `ServerAssumption` (servers are finite, at least one, and
`NoServer` is none of them) and `BoundAssumption` (the bounds are natural
numbers), both checked by TLC on every run; those about assignment 1's file
server assume `DataAssumption` (life times are natural numbers, 0 is one of them,
the two markers for "none" are neither a file nor a command) and its
`BoundAssumption`; those about one node `SizeAssumption` (channels have a
capacity, numbers are natural); those about the replicated servers
`DataAssumption`, `ClusterAssumption` (Raft's two), `ConnectionAssumption`
(connections are numbered from 1) and `LineAssumption` (ages of files are
natural numbers).

`MatchInv`, `SoloInv` and `HistoryInv` quantify over sequences, so TLC cannot
evaluate them: TLC checks what they imply. The other invariants are conjunctions
TLC can evaluate.

Only model-checked: liveness (`EveryCommandAnswered`, `EventsHandled`,
`ShutdownCompletes`, `FollowerAnswers`), which is out of the prover's reach.
Every other property of a passing run is stated by a theorem, some under the
conditions named: no power-offs, or one election. With the one, nodes lose
their terms and leaders their clients (`restart_term`); without the other,
nodes commit different commands (`state_machine_safety`).

## Not modelled

* Assignment 2 (`assignment2/*.go`): single-step handlers driven by tests. Nothing
  uses them, and assignment 4 has the same handlers in their final form.
* Assignment 3 (`assignment3/*.go`): the node of assignment 4 but for the
  differences named above; a second model would repeat `Raft` and `NodeRuntime`.
* Start-up and configuration (`server_backend.go`, `raft.go:22-213`, `*.json`):
  set-up without behaviour of its own. Tests are read as documentation.
* The bytes of lines and contents: a byte count is taken to be one that the
  content can have. Unsynchronised accesses to Go maps may also crash the
  process; `FileServer` shows that they overlap and executes each in one step.
* That the entries of a message share memory with the leader's log
  (`leader.go:53`) until they are encoded.
* The `cluster` and `log` libraries are not in the repository and are modelled
  from how `raft.go` and `node.go` use them.

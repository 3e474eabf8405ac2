----------------------------- MODULE FileStore -----------------------------
(***************************************************************************)
(* The file server of assignment 1.  Each connection has a goroutine,      *)
(* handleClients, that reads lines, builds a command, sends it on the      *)
(* channel `commands` and waits on the command's own result channel.  One  *)
(* goroutine, channelHandler, owns the map: it takes a command, executes   *)
(* it and sends the answer.  Both channels are unbuffered: who sends waits *)
(* for who receives.                                                       *)
(*                                                                         *)
(* Lines are counted, not represented: what a line says is chosen when it  *)
(* is parsed, for nothing depends on it before.  A command line counts as  *)
(* one with the content that follows it; when it is rejected, its content  *)
(* is read as further lines.  A client that hangs up is one that sends no  *)
(* more: errors of writes to the connection are ignored.                   *)
(***************************************************************************)
EXTENDS FileMap

CONSTANTS
    MaxLines,       \* bound: the lines that clients send in all
    MaxNow          \* bound: the seconds that pass

ASSUME BoundAssumption == MaxLines \in Nat /\ MaxNow \in Nat

VARIABLES
    now,        \* the time in seconds
    data,       \* the map: data[f] is the file f, or NoFile
    sent,       \* how many lines the clients have sent so far
    unread,     \* unread[c]: lines of client c that wait in the connection
    buffered,   \* buffered[c]: those in the goroutine's bufio.Reader
    open,       \* open[c]: the server has not closed the connection
    phase,      \* phase[c]: where the goroutine of c is
    cmd,        \* cmd[c]: the command that it has in hand
    answers     \* answers[c]: what channelHandler has still to send on the
                \* result channel of cmd[c]

connVars == <<sent, unread, buffered, open>>
vars == <<now, data, connVars, phase, cmd, answers>>

Init == /\ now = 0
        /\ data = [f \in Files |-> NoFile]
        /\ sent = 0
        /\ unread = [c \in Clients |-> 0]
        /\ buffered = [c \in Clients |-> 0]
        /\ open = [c \in Clients |-> TRUE]
        /\ phase = [c \in Clients |-> "reading"]
        /\ cmd = [c \in Clients |-> NoCommand]
        /\ answers = [c \in Clients |-> <<>>]

-----------------------------------------------------------------------------
(* The connection.                                                         *)

(* A client may send its next line before it has the answer to the last.   *)
Send(c) == /\ open[c]
           /\ sent < MaxLines
           /\ sent' = sent + 1
           /\ unread' = [unread EXCEPT ![c] = @ + 1]
           /\ UNCHANGED <<now, data, buffered, open, phase, cmd, answers>>

(* ReadLine finds its buffer empty and reads from the connection whatever   *)
(* has arrived.  On a closed connection that is an error and the loop goes  *)
(* round without end: nothing changes.                                      *)
Fill(c) == /\ phase[c] = "reading"
           /\ open[c]
           /\ buffered[c] = 0
           /\ \E n \in 1..unread[c] :
                /\ buffered' = [buffered EXCEPT ![c] = n]
                /\ unread' = [unread EXCEPT ![c] = @ - n]
           /\ UNCHANGED <<now, data, sent, open, phase, cmd, answers>>

Close(c) == /\ open' = [open EXCEPT ![c] = FALSE]
            /\ unread' = [unread EXCEPT ![c] = 0]
            /\ UNCHANGED sent

-----------------------------------------------------------------------------
(* handleClients: one line.                                                *)

TakeLine(c) == /\ phase[c] = "reading"
               /\ buffered[c] > 0
               /\ buffered' = [buffered EXCEPT ![c] = @ - 1]
               /\ UNCHANGED <<now, data, answers>>

(* The line of a write is in order: the time is taken, the content is next. *)
ParseWrite(c) ==
    /\ TakeLine(c)
    /\ \E f \in Files, life \in Lives :
         cmd' = [cmd EXCEPT ![c] =
                   [op |-> "write", file |-> f,
                    struct |-> [version |-> 1, content |-> EmptyContent,
                                created |-> now, life |-> life]]]
    /\ phase' = [phase EXCEPT ![c] = "content"]
    /\ UNCHANGED <<sent, unread, open>>

ParseCas(c) ==
    /\ TakeLine(c)
    /\ \E f \in Files, v \in Versions, life \in Lives :
         cmd' = [cmd EXCEPT ![c] =
                   [op |-> "cas", file |-> f,
                    struct |-> [version |-> v, content |-> EmptyContent,
                                created |-> now, life |-> life]]]
    /\ phase' = [phase EXCEPT ![c] = "content"]
    /\ UNCHANGED <<sent, unread, open>>

ParseReadOrDelete(c) ==
    /\ TakeLine(c)
    /\ \E op \in {"read", "delete"}, f \in Files :
         cmd' = [cmd EXCEPT ![c] =
                   [op |-> op, file |-> f, struct |-> ZeroStruct]]
    /\ phase' = [phase EXCEPT ![c] = "submitting"]
    /\ UNCHANGED <<sent, unread, open>>

(* A line that names a command but is malformed closes the connection. The *)
(* `break` only leaves the switch: lines in the buffer are still read.     *)
RejectCommand(c) == /\ TakeLine(c)
                    /\ Close(c)
                    /\ UNCHANGED <<phase, cmd>>

(* A line without a known command, of one word, or too long for the buffer  *)
(* (isPrefix), only gets ERR_CMD_ERR.                                       *)
RejectUnknown(c) == /\ TakeLine(c)
                    /\ UNCHANGED <<sent, unread, open, phase, cmd>>

(* A line of more than 500 bytes ends the loop and with it the goroutine.  *)
RejectLong(c) == /\ TakeLine(c)
                 /\ Close(c)
                 /\ phase' = [phase EXCEPT ![c] = "left"]
                 /\ UNCHANGED cmd

(* The content has been read, byte by byte, and ends as it should.         *)
ReadContent(c) ==
    /\ phase[c] = "content"
    /\ \E x \in Contents : cmd' = [cmd EXCEPT ![c].struct.content = x]
    /\ phase' = [phase EXCEPT ![c] = "submitting"]
    /\ UNCHANGED <<now, data, connVars, answers>>

(* The connection fails in the middle of it, or it does not end in CR LF.  *)
RejectContent(c) ==
    /\ phase[c] = "content"
    /\ Close(c)
    /\ phase' = [phase EXCEPT ![c] = "reading"]
    /\ cmd' = [cmd EXCEPT ![c] = NoCommand]
    /\ UNCHANGED <<now, data, buffered, answers>>

-----------------------------------------------------------------------------
(* channelHandler and the rendezvous with it.                              *)

(* It is back at the receive on `commands`.                                *)
Idle == \A c \in Clients : answers[c] = <<>>

Serve(c) ==
    /\ phase[c] = "submitting"
    /\ Idle
    /\ LET f == cmd[c].file
           outcome == Outcome(cmd[c], data[f], now)
       IN  /\ data' = [data EXCEPT ![f] = outcome.entry]
           /\ answers' = [answers EXCEPT ![c] = outcome.answers]
    /\ phase' = [phase EXCEPT ![c] = "waiting"]
    /\ UNCHANGED <<now, connVars, cmd>>

(* Defect: a goroutine whose connection is closed does not wait for the     *)
(* answer.                                                                  *)
ReceiveIfOpen(c) ==
    /\ phase[c] = "waiting"
    /\ open[c]
    /\ answers[c] # <<>>
    /\ answers' = [answers EXCEPT ![c] = Tail(@)]
    /\ phase' = [phase EXCEPT ![c] = "reading"]
    /\ cmd' = [cmd EXCEPT ![c] = NoCommand]
    /\ UNCHANGED <<now, data, connVars>>

(* The goroutine gets its answer, writes it to the connection and goes back *)
(* to the top of its loop.                                                  *)
Receive(c) ==
    /\ phase[c] = "waiting"
    /\ answers[c] # <<>>
    /\ answers' = [answers EXCEPT ![c] = Tail(@)]
    /\ phase' = [phase EXCEPT ![c] = "reading"]
    /\ cmd' = [cmd EXCEPT ![c] = NoCommand]
    /\ UNCHANGED <<now, data, connVars>>

Tick == /\ now < MaxNow
        /\ now' = now + 1
        /\ UNCHANGED <<data, connVars, phase, cmd, answers>>

Parse(c) == \/ ParseWrite(c) \/ ParseCas(c) \/ ParseReadOrDelete(c)
            \/ RejectCommand(c) \/ RejectUnknown(c) \/ RejectLong(c)

Next == \/ \E c \in Clients :
             \/ Send(c) \/ Fill(c) \/ Parse(c)
             \/ ReadContent(c) \/ RejectContent(c)
             \/ Serve(c) \/ Receive(c)
        \/ Tick

(* The goroutines run. A sender that waits at a channel is taken in its     *)
(* turn (the channel's queue of senders is first in, first out), hence the  *)
(* strong fairness of Serve. Clients and their contents need not come.      *)
Fairness == \A c \in Clients :
              /\ WF_vars(Fill(c)) /\ WF_vars(Parse(c))
              /\ SF_vars(Serve(c)) /\ WF_vars(Receive(c))

Spec == Init /\ [][Next]_vars /\ Fairness

-----------------------------------------------------------------------------
(* Properties.                                                             *)

Phase == {"reading", "content", "submitting", "waiting", "left"}

(* Every variable has its type: in particular no file was created in the    *)
(* future, versions start at 1, and a read never tells of a negative time   *)
(* that is left (server.go:326).                                            *)
TypeOK ==
    /\ now \in Nat
    /\ data \in [Files -> File \cup {NoFile}]
    /\ \A f \in Files : data[f] # NoFile => data[f].created <= now
    /\ sent \in 0..MaxLines
    /\ unread \in [Clients -> Nat]
    /\ buffered \in [Clients -> Nat]
    /\ open \in [Clients -> BOOLEAN]
    /\ phase \in [Clients -> Phase]
    /\ cmd \in [Clients -> CommandsAt(0..now) \cup {NoCommand}]
    /\ \A c \in Clients :
         cmd[c] = NoCommand <=> phase[c] \in {"reading", "left"}
    /\ answers \in [Clients -> Seq(Answer)]
    /\ \A c \in Clients :
         Len(answers[c]) = IF phase[c] = "waiting" THEN 1 ELSE 0

(* The server implements an atomic store that loses files to their expiry   *)
(* only (ExpiringStore): a command is under way from the moment            *)
(* its goroutine has all of it to the moment the goroutine has the answer.  *)
Request == [c \in Clients |->
              IF phase[c] \in {"submitting", "waiting"} THEN cmd[c]
                                                        ELSE NoCommand]

Store == INSTANCE ExpiringStore WITH store <- data, request <- Request

Implements == Store!Spec

(* Whoever has handed over a command gets its answer: the owner of the map  *)
(* never waits for a receiver that does not come (server.go:315-375).       *)
EveryCommandAnswered ==
    \A c \in Clients : phase[c] = "submitting" ~> phase[c] = "reading"

(* A file that was written without an expiry does not expire               *)
(* (README.md:35): until a delete it stays and its version counts on.      *)
PermanentFilesStay ==
    [][\A f \in Files :
         LET old == data[f]
             new == data'[f]
         IN  old # NoFile /\ old.life = 0 =>
               \/ new = old
               \/ new # NoFile /\ new.version = old.version + 1
               \/ \E c \in Clients :
                    Serve(c) /\ cmd[c].op = "delete" /\ cmd[c].file = f]_vars

=============================================================================

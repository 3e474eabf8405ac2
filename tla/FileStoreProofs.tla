-------------------------- MODULE FileStoreProofs --------------------------
(***************************************************************************)
(* Proofs about the file server of assignment 1: type correctness, and     *)
(* that it implements the atomic store of ExpiringStore.                   *)
(***************************************************************************)
EXTENDS FileStore, SequenceTheorems, TLAPS

(* A command built in time stays one as time passes; the parser's place     *)
(* holder for "none" is never one.                                          *)
LEMMA CommandGrows ==
    ASSUME NEW t \in Nat, NEW u \in Nat, t <= u
    PROVE  /\ CommandsAt(0..t) \subseteq CommandsAt(0..u)
           /\ NoCommand \notin CommandsAt(0..t)
<1>1. 0..t \subseteq 0..u /\ 0..t \subseteq Nat
  OBVIOUS
<1>2. \A V : FileStruct(V, 0..t) \subseteq FileStruct(V, 0..u)
  BY <1>1 DEF FileStruct
<1>3. \A V : FileStruct(V, 0..t) \subseteq FileStruct(V, Nat)
  BY <1>1 DEF FileStruct
<1>4. CommandsAt(0..t) \subseteq CommandsAt(0..u)
  BY <1>2 DEF CommandsAt
<1>5. CommandsAt(0..t) \subseteq CommandsAt(Nat)
  BY <1>3 DEF CommandsAt
<1> QED
  BY <1>4, <1>5, DataAssumption

(* What a command says, by its kind.                                       *)
LEMMA CommandFields ==
    ASSUME NEW t \in Nat, NEW m \in CommandsAt(0..t)
    PROVE  /\ m.op \in {"write", "cas", "read", "delete"}
           /\ m.file \in Files
           /\ m.struct.content \in Contents
           /\ m.struct.created \in 0..t
           /\ m.struct.life \in Lives
           /\ m.struct.life \in Nat
           /\ m.op = "write" =>
                m.struct = [version |-> 1, content |-> m.struct.content,
                            created |-> m.struct.created,
                            life |-> m.struct.life]
           /\ m.op \in {"read", "delete"} => m.struct.life = 0
           /\ m.struct \in FileStruct(Int, 0..t)
<1> USE DataAssumption
<1>1. CASE m \in [op : {"write"}, file : Files,
                  struct : FileStruct({1}, 0..t)]
  <2>1. m.op = "write" /\ m.file \in Files
    BY <1>1
  <2>2. m.struct \in FileStruct({1}, 0..t)
    BY <1>1
  <2>3. /\ m.struct = [version |-> 1, content |-> m.struct.content,
                       created |-> m.struct.created, life |-> m.struct.life]
        /\ m.struct \in FileStruct(Int, 0..t)
    BY <2>2 DEF FileStruct
  <2> QED
    BY <2>1, <2>2, <2>3 DEF FileStruct
<1>2. CASE m \in [op : {"cas"}, file : Files,
                  struct : FileStruct(Versions, 0..t)]
  <2>1. m.op = "cas" /\ m.file \in Files
    BY <1>2
  <2>2. m.struct \in FileStruct(Versions, 0..t)
    BY <1>2
  <2> QED
    BY <2>1, <2>2 DEF FileStruct
<1>3. CASE m \in [op : {"read", "delete"}, file : Files,
                  struct : {ZeroStruct}]
  <2>1. m.op \in {"read", "delete"} /\ m.file \in Files
    BY <1>3
  <2>2. m.struct = ZeroStruct
    BY <1>3
  <2>3. /\ ZeroStruct \in FileStruct(Int, 0..t)
        /\ ZeroStruct.life = 0
    BY DEF FileStruct, ZeroStruct
  <2>4. /\ m.struct.content \in Contents
        /\ m.struct.created \in 0..t
        /\ m.struct.life \in Lives
        /\ m.struct.life = 0
    BY <2>2, <2>3 DEF FileStruct
  <2> QED
    BY <2>1, <2>2, <2>3, <2>4
<1> QED
  BY <1>1, <1>2, <1>3 DEF CommandsAt

(* An outcome leaves a file that was created in the past, or none, and      *)
(* exactly one answer.                                                      *)
LEMMA OutcomeTyped ==
    ASSUME NEW t \in Nat, NEW m \in CommandsAt(0..t),
           NEW fl \in File \cup {NoFile},
           fl # NoFile => fl.created <= t
    PROVE  /\ Outcome(m, fl, t).entry \in File \cup {NoFile}
           /\ Outcome(m, fl, t).entry # NoFile =>
                Outcome(m, fl, t).entry.created <= t
           /\ Outcome(m, fl, t).answers \in Seq(Answer)
           /\ Len(Outcome(m, fl, t).answers) = 1
<1> DEFINE Typed(o) == /\ o.entry \in File \cup {NoFile}
                       /\ o.entry # NoFile => o.entry.created <= t
                       /\ o.answers \in Seq(Answer)
                       /\ Len(o.answers) = 1
<1> USE DataAssumption
<1>1. Typed(Gone)
  BY DEF Gone, Answer
<1>2. ASSUME fl # NoFile
      PROVE  /\ NextVersion(fl, m.struct) \in File
             /\ NextVersion(fl, m.struct).created <= t
             /\ Ok(fl.version + 1) \in Answer
  <2>1. m.struct \in FileStruct(Int, 0..t)
    BY CommandFields
  <2>2. fl.version + 1 \in Nat \ {0}
    BY <1>2 DEF File
  <2>3. NextVersion(fl, m.struct) =
          [version |-> fl.version + 1, content |-> m.struct.content,
           created |-> m.struct.created, life |-> m.struct.life]
    BY <2>1 DEF NextVersion, FileStruct
  <2>4. /\ m.struct.content \in Contents
        /\ m.struct.created \in Nat
        /\ m.struct.created <= t
        /\ m.struct.life \in Lives
    <3>1. m.struct.created \in 0..t
      BY CommandFields
    <3>2. m.struct.created \in Nat /\ m.struct.created <= t
      BY <3>1
    <3>3. m.struct.content \in Contents /\ m.struct.life \in Lives
      BY CommandFields
    <3> QED
      BY <3>2, <3>3
  <2>5. NextVersion(fl, m.struct) \in File
    <3>1. \A v \in Nat \ {0}, x \in Contents, n \in Nat, life \in Lives :
            [version |-> v, content |-> x, created |-> n, life |-> life]
              \in File
      BY DEF File
    <3> QED
      BY <2>2, <2>3, <2>4, <3>1
  <2>6. NextVersion(fl, m.struct).created <= t
    BY <2>3, <2>4
  <2>7. Ok(fl.version + 1) \in Answer
    BY <2>2 DEF Ok, Answer
  <2> QED
    BY <2>5, <2>6, <2>7
<1>3. CASE m.op = "write"
  <2>1. Ok(1) \in Answer
    BY DEF Ok, Answer
  <2>2. /\ m.struct.content \in Contents
        /\ m.struct.created \in Nat
        /\ m.struct.created <= t
        /\ m.struct.life \in Lives
        /\ m.struct = [version |-> 1, content |-> m.struct.content,
                       created |-> m.struct.created, life |-> m.struct.life]
    BY <1>3, CommandFields
  <2>3. m.struct \in File
    BY <2>2 DEF File
  <2>4. Typed(WriteOutcome(m, fl, t))
    BY <1>2, <2>1, <2>2, <2>3 DEF WriteOutcome
  <2> QED
    BY <1>3, <2>4 DEF Outcome
<1>4. CASE m.op = "cas"
  <2>1. ASSUME fl # NoFile PROVE ErrVersion(fl.version) \in Answer
    BY <2>1 DEF ErrVersion, Answer, File
  <2>2. Typed(CasOutcome(m, fl, t))
    BY <1>1, <1>2, <2>1 DEF CasOutcome
  <2> QED
    BY <1>4, <2>2 DEF Outcome
<1>5. CASE m.op = "read"
  <2>1. ASSUME fl # NoFile, ~Expired(fl, fl, t)
        PROVE  [kind |-> "CONTENTS", version |-> fl.version,
                content |-> fl.content, remaining |-> Remaining(fl, t)]
                  \in Answer
    <3>1. Remaining(fl, t) \in Nat
      <4>1. /\ fl.created \in Nat /\ fl.created <= t /\ fl.life \in Nat
            /\ ~(fl.life > 0 /\ t - fl.created > fl.life)
        BY <2>1 DEF Expired, File
      <4> QED
        BY <4>1 DEF Remaining
    <3> QED
      BY <2>1, <3>1 DEF Answer, File
  <2>2. Typed(ReadOutcome(m, fl, t))
    BY <1>1, <2>1 DEF ReadOutcome
  <2> QED
    BY <1>5, <2>2 DEF Outcome
<1>6. CASE m.op = "delete"
  <2>1. Deleted \in Answer
    BY DEF Answer
  <2>2. Typed(DeleteOutcome(m, fl, t))
    BY <1>1, <2>1 DEF DeleteOutcome
  <2> QED
    BY <1>6, <2>2 DEF Outcome
<1> QED
  BY <1>3, <1>4, <1>5, <1>6, CommandFields

-----------------------------------------------------------------------------
(* A goroutine that takes a line has the parser's phase and hand; what it   *)
(* builds is a command of its time.                                         *)
LEMMA BuiltCommands ==
    ASSUME NEW t \in Nat, NEW f \in Files, NEW life \in Lives,
           NEW x \in Contents, NEW V, NEW v \in V
    PROVE  /\ [version |-> v, content |-> x, created |-> t, life |-> life]
                \in FileStruct(V, 0..t)
           /\ \A struct \in FileStruct({1}, 0..t) :
                [op |-> "write", file |-> f, struct |-> struct]
                  \in CommandsAt(0..t)
           /\ \A struct \in FileStruct(Versions, 0..t) :
                [op |-> "cas", file |-> f, struct |-> struct]
                  \in CommandsAt(0..t)
  BY DEF FileStruct, CommandsAt

(* The content that is read goes into the struct and changes nothing else. *)
LEMMA ContentRead ==
    ASSUME NEW t \in Nat, NEW m \in CommandsAt(0..t), NEW x \in Contents,
           m.op \in {"write", "cas"}
    PROVE  [m EXCEPT !.struct.content = x] \in CommandsAt(0..t)
<1>1. CASE m \in [op : {"write"}, file : Files,
                  struct : FileStruct({1}, 0..t)]
  BY <1>1 DEF CommandsAt, FileStruct
<1>2. CASE m \in [op : {"cas"}, file : Files,
                  struct : FileStruct(Versions, 0..t)]
  BY <1>2 DEF CommandsAt, FileStruct
<1> QED
  BY <1>1, <1>2 DEF CommandsAt

(* Type correctness, with what the goroutine in the middle of a content has *)
(* in hand.                                                                 *)
ContentPending ==
    \A c \in Clients : phase[c] = "content" => cmd[c].op \in {"write", "cas"}

TypeInv == TypeOK /\ ContentPending

LEMMA TypeInit == Init => TypeInv
  BY BoundAssumption DEF Init, TypeInv, TypeOK, ContentPending, Phase

LEMMA TypeStep == TypeInv /\ [Next]_vars => TypeInv'
<1> SUFFICES ASSUME TypeInv, [Next]_vars
             PROVE  TypeInv'
  OBVIOUS
<1> USE DEF TypeInv
<1>1. now \in Nat /\ NoCommand \notin CommandsAt(0..now)
  BY CommandGrows DEF TypeOK
<1>2. ASSUME NEW c \in Clients, Send(c)
      PROVE  TypeInv'
  BY <1>2, BoundAssumption DEF Send, TypeOK, ContentPending
<1>3. ASSUME NEW c \in Clients, Fill(c)
      PROVE  TypeInv'
  BY <1>3 DEF Fill, TypeOK, ContentPending
<1>4. ASSUME NEW c \in Clients, ParseWrite(c)
      PROVE  TypeInv'
  <2>1. PICK f \in Files, life \in Lives :
          cmd' = [cmd EXCEPT ![c] =
                    [op |-> "write", file |-> f,
                     struct |-> [version |-> 1, content |-> EmptyContent,
                                 created |-> now, life |-> life]]]
    BY <1>4 DEF ParseWrite
  <2>2. cmd'[c] \in CommandsAt(0..now) /\ cmd'[c].op = "write"
    BY <2>1, <1>1, BuiltCommands, DataAssumption DEF TypeOK
  <2> QED
    BY <1>1, <1>4, <2>1, <2>2
       DEF ParseWrite, TakeLine, TypeOK, ContentPending, Phase
<1>5. ASSUME NEW c \in Clients, ParseCas(c)
      PROVE  TypeInv'
  <2>1. PICK f \in Files, v \in Versions, life \in Lives :
          cmd' = [cmd EXCEPT ![c] =
                    [op |-> "cas", file |-> f,
                     struct |-> [version |-> v, content |-> EmptyContent,
                                 created |-> now, life |-> life]]]
    BY <1>5 DEF ParseCas
  <2>2. cmd'[c] \in CommandsAt(0..now) /\ cmd'[c].op = "cas"
    BY <2>1, <1>1, BuiltCommands, DataAssumption DEF TypeOK
  <2> QED
    BY <1>1, <1>5, <2>1, <2>2
       DEF ParseCas, TakeLine, TypeOK, ContentPending, Phase
<1>6. ASSUME NEW c \in Clients, ParseReadOrDelete(c)
      PROVE  TypeInv'
  <2>1. PICK op \in {"read", "delete"}, f \in Files :
          cmd' = [cmd EXCEPT ![c] =
                    [op |-> op, file |-> f, struct |-> ZeroStruct]]
    BY <1>6 DEF ParseReadOrDelete
  <2>2. cmd'[c] \in CommandsAt(0..now)
    <3>1. [op |-> op, file |-> f, struct |-> ZeroStruct] \in CommandsAt(0..now)
      BY DEF CommandsAt
    <3> QED
      BY <2>1, <3>1 DEF TypeOK
  <2> QED
    BY <1>1, <1>6, <2>1, <2>2
       DEF ParseReadOrDelete, TakeLine, TypeOK, ContentPending, Phase
<1>7. ASSUME NEW c \in Clients,
             RejectCommand(c) \/ RejectUnknown(c) \/ RejectLong(c)
      PROVE  TypeInv'
  <2>1. CASE RejectCommand(c)
    BY <2>1 DEF RejectCommand, TakeLine, Close, TypeOK, ContentPending, Phase
  <2>2. CASE RejectUnknown(c)
    BY <2>2 DEF RejectUnknown, TakeLine, TypeOK, ContentPending, Phase
  <2>3. CASE RejectLong(c)
    BY <2>3 DEF RejectLong, TakeLine, Close, TypeOK, ContentPending, Phase
  <2> QED
    BY <1>7, <2>1, <2>2, <2>3
<1>8. ASSUME NEW c \in Clients, ReadContent(c)
      PROVE  TypeInv'
  <2>1. PICK x \in Contents : cmd' = [cmd EXCEPT ![c].struct.content = x]
    BY <1>8 DEF ReadContent
  <2>2. cmd[c] \in CommandsAt(0..now) /\ cmd[c].op \in {"write", "cas"}
    BY <1>8 DEF ReadContent, TypeOK, ContentPending
  <2>3. cmd'[c] \in CommandsAt(0..now)
    BY <2>1, <2>2, <1>1, ContentRead DEF TypeOK
  <2> QED
    BY <1>1, <1>8, <2>1, <2>3
       DEF ReadContent, connVars, TypeOK, ContentPending, Phase
<1>9. ASSUME NEW c \in Clients, RejectContent(c)
      PROVE  TypeInv'
  BY <1>9 DEF RejectContent, Close, TypeOK, ContentPending, Phase
<1>10. ASSUME NEW c \in Clients, Serve(c)
       PROVE  TypeInv'
  <2> DEFINE f == cmd[c].file
             outcome == Outcome(cmd[c], data[f], now)
  <2>1. cmd[c] \in CommandsAt(0..now)
    BY <1>10 DEF Serve, TypeOK
  <2>2. f \in Files
    BY <1>1, <2>1, CommandFields
  <2>3. /\ data[f] \in File \cup {NoFile}
        /\ data[f] # NoFile => data[f].created <= now
    BY <2>2 DEF TypeOK
  <2>4. /\ outcome.entry \in File \cup {NoFile}
        /\ outcome.entry # NoFile => outcome.entry.created <= now
        /\ outcome.answers \in Seq(Answer)
        /\ Len(outcome.answers) = 1
    BY <1>1, <2>1, <2>3, OutcomeTyped
  <2>5. /\ data' = [data EXCEPT ![f] = outcome.entry]
        /\ answers' = [answers EXCEPT ![c] = outcome.answers]
        /\ phase' = [phase EXCEPT ![c] = "waiting"]
        /\ UNCHANGED <<now, connVars, cmd>>
        /\ phase[c] = "submitting"
    BY <1>10 DEF Serve
  <2> HIDE DEF f, outcome
  <2> QED
    BY <2>2, <2>4, <2>5 DEF connVars, TypeOK, ContentPending, Phase
<1>11. ASSUME NEW c \in Clients, Receive(c)
       PROVE  TypeInv'
  <2>1. answers[c] \in Seq(Answer) /\ Len(answers[c]) = 1
    BY <1>11 DEF Receive, TypeOK
  <2>2. Tail(answers[c]) \in Seq(Answer) /\ Len(Tail(answers[c])) = 0
    BY <1>11, <2>1, HeadTailProperties DEF Receive
  <2> QED
    BY <1>11, <2>2 DEF Receive, connVars, TypeOK, ContentPending, Phase
<1>12. CASE Tick
  <2>1. now' \in Nat /\ now <= now'
    BY <1>12 DEF Tick, TypeOK
  <2>2. CommandsAt(0..now) \subseteq CommandsAt(0..now')
    BY <1>1, <2>1, CommandGrows
  <2>3. \A f \in Files : data[f] # NoFile => data[f].created <= now'
    BY <2>1 DEF TypeOK, File
  <2> QED
    BY <1>12, <2>1, <2>2, <2>3 DEF Tick, connVars, TypeOK, ContentPending
<1>13. CASE UNCHANGED vars
  BY <1>13 DEF vars, connVars, TypeOK, ContentPending
<1> QED
  BY <1>2, <1>3, <1>4, <1>5, <1>6, <1>7, <1>8, <1>9, <1>10, <1>11, <1>12,
     <1>13 DEF Next, Parse

LEMMA TypeInvariant == Spec => []TypeInv
  BY TypeInit, TypeStep, PTL DEF Spec

(* The variables of the file server keep their types (server.go:14-29,     *)
(* 281): in particular a read never answers with a negative time left, a    *)
(* file's version is at least 1 and the owner of the map has one answer for *)
(* exactly those goroutines that wait for one.                              *)
THEOREM FileStoreTypes == Spec => []TypeOK
  BY TypeInvariant, PTL DEF TypeInv

-----------------------------------------------------------------------------
(* The records of the abstract store are those of the server.               *)
LEMMA SameRecords ==
    /\ Store!CommandsAt(0..now) = CommandsAt(0..now)
    /\ \A v : Store!Ok(v) = Ok(v) /\ Store!ErrVersion(v) = ErrVersion(v)
    /\ Store!Deleted = Deleted
    /\ Store!ErrFileNotFound = ErrFileNotFound
<1>1. \A V, T : Store!FileStruct(V, T) = FileStruct(V, T)
  BY DEF FileStruct, Store!FileStruct
<1>2. Store!ZeroStruct = ZeroStruct
  BY DEF ZeroStruct, Store!ZeroStruct
<1>3. Store!CommandsAt(0..now) = CommandsAt(0..now)
  BY <1>1, <1>2 DEF CommandsAt, Store!CommandsAt
<1> QED
  BY <1>3 DEF Ok, ErrVersion, Deleted, ErrFileNotFound, Store!Ok,
              Store!ErrVersion, Store!Deleted, Store!ErrFileNotFound

(* Every outcome is one that the abstract store allows: the command found   *)
(* the file as it is, or lost it to an expiry.                              *)
Allowed(m, fl, entry, reply) ==
    \E found \in Store!Found(m, fl) :
      \/ Store!Write(m, found, entry, reply)
      \/ Store!Read(m, found, entry, reply)
      \/ Store!Cas(m, found, entry, reply)
      \/ Store!Delete(m, found, entry, reply)
      \/ Store!NotFound(m, found, entry, reply)

LEMMA OutcomeAllowed ==
    ASSUME now \in Nat, NEW m \in CommandsAt(0..now),
           NEW fl \in File \cup {NoFile},
           fl # NoFile => fl.created <= now
    PROVE  Allowed(m, fl, Outcome(m, fl, now).entry,
                   Outcome(m, fl, now).answers[1])
<1> USE SameRecords DEF Allowed
<1>1. m.struct.life \in Nat /\ m.op \in {"write", "cas", "read", "delete"}
  BY CommandFields
<1>2. ASSUME fl # NoFile
      PROVE  /\ fl.life \in Nat /\ fl.created \in Nat /\ fl.created <= now
             /\ fl.version \in Nat
  BY <1>2, DataAssumption DEF File
<1>3. fl = NoFile => Store!Found(m, fl) = {NoFile}
  BY DEF Store!Found
<1>4. CASE m.op = "write"
  <2>1. m.struct = [version |-> 1, content |-> m.struct.content,
                    created |-> m.struct.created, life |-> m.struct.life]
    BY <1>4, CommandFields
  <2>2. m.struct = [m.struct EXCEPT !.version = 1]
    BY <2>1
  <2>3. Outcome(m, fl, now) = WriteOutcome(m, fl, now)
    BY <1>4 DEF Outcome
  <2>4. CASE fl = NoFile
    <3>1. Store!Write(m, NoFile, Outcome(m, fl, now).entry,
                      Outcome(m, fl, now).answers[1])
      BY <1>4, <2>2, <2>3, <2>4 DEF WriteOutcome, Store!Write
    <3> QED
      BY <1>3, <2>4, <3>1
  <2>5. CASE fl # NoFile /\ Expired(fl, m.struct, now)
    <3>1. NoFile \in Store!Found(m, fl)
      BY <1>1, <1>2, <1>4, <2>5 DEF Expired, Store!Found
    <3>2. Store!Write(m, NoFile, Outcome(m, fl, now).entry,
                      Outcome(m, fl, now).answers[1])
      BY <1>4, <2>2, <2>3, <2>5 DEF WriteOutcome, Store!Write
    <3> QED
      BY <3>1, <3>2
  <2>6. CASE fl # NoFile /\ ~Expired(fl, m.struct, now)
    <3>1. fl \in Store!Found(m, fl)
      BY <1>4, <2>6 DEF Store!Found
    <3>2. Store!Write(m, fl, Outcome(m, fl, now).entry,
                      Outcome(m, fl, now).answers[1])
      BY <1>4, <2>3, <2>6 DEF WriteOutcome, NextVersion, Store!Write
    <3> QED
      BY <3>1, <3>2
  <2> QED
    BY <2>4, <2>5, <2>6
<1>5. CASE m.op = "cas"
  <2>1. Outcome(m, fl, now) = CasOutcome(m, fl, now)
    BY <1>5 DEF Outcome
  <2>2. CASE fl = NoFile \/ Expired(fl, m.struct, now)
    <3>1. NoFile \in Store!Found(m, fl)
      BY <1>1, <1>2, <1>3, <1>5, <2>2 DEF Expired, Store!Found
    <3>2. Store!NotFound(m, NoFile, Outcome(m, fl, now).entry,
                         Outcome(m, fl, now).answers[1])
      BY <1>5, <2>1, <2>2 DEF CasOutcome, Gone, Store!NotFound
    <3> QED
      BY <3>1, <3>2
  <2>3. CASE fl # NoFile /\ ~Expired(fl, m.struct, now)
    <3>1. fl \in Store!Found(m, fl)
      BY <1>5, <2>3 DEF Store!Found
    <3>2. Store!Cas(m, fl, Outcome(m, fl, now).entry,
                    Outcome(m, fl, now).answers[1])
      BY <1>5, <2>1, <2>3 DEF CasOutcome, NextVersion, Store!Cas
    <3> QED
      BY <3>1, <3>2
  <2> QED
    BY <2>2, <2>3
<1>6. CASE m.op \in {"read", "delete"}
  <2>1. m.struct.life = 0
    BY <1>6, CommandFields
  <2>2. Outcome(m, fl, now) = IF m.op = "read" THEN ReadOutcome(m, fl, now)
                                              ELSE DeleteOutcome(m, fl, now)
    BY <1>6 DEF Outcome
  <2>3. CASE fl = NoFile \/ Expired(fl, fl, now)
    <3>1. NoFile \in Store!Found(m, fl)
      BY <1>2, <1>3, <1>6, <2>3 DEF Expired, Store!Found
    <3>2. Store!NotFound(m, NoFile, Outcome(m, fl, now).entry,
                         Outcome(m, fl, now).answers[1])
      BY <1>6, <2>2, <2>3
         DEF ReadOutcome, DeleteOutcome, Gone, Store!NotFound
    <3> QED
      BY <3>1, <3>2
  <2>4. CASE fl # NoFile /\ ~Expired(fl, fl, now)
    <3>1. fl \in Store!Found(m, fl)
      BY <1>2, <2>1, <2>4 DEF Expired, Store!Found
    <3>2. CASE m.op = "read"
      <4>1. /\ fl.life > 0 =>
                  now + Remaining(fl, now) = fl.created + fl.life
            /\ fl.life = 0 => Remaining(fl, now) = 0
        BY <1>2, <2>4 DEF Remaining
      <4>2. Store!Read(m, fl, Outcome(m, fl, now).entry,
                       Outcome(m, fl, now).answers[1])
        BY <2>2, <2>4, <3>2, <4>1 DEF ReadOutcome, Store!Read
      <4> QED
        BY <3>1, <4>2
    <3>3. CASE m.op = "delete"
      <4>1. Store!Delete(m, fl, Outcome(m, fl, now).entry,
                         Outcome(m, fl, now).answers[1])
        BY <2>2, <2>4, <3>3 DEF DeleteOutcome, Store!Delete
      <4> QED
        BY <3>1, <4>1
    <3> QED
      BY <1>6, <3>2, <3>3
  <2> QED
    BY <2>3, <2>4
<1> QED
  BY <1>1, <1>4, <1>5, <1>6

-----------------------------------------------------------------------------
(* The initial state and every step of the server are an initial state and  *)
(* a step, or a stutter, of the abstract store.                             *)
LEMMA StoreInit == Init => Store!Init
  BY DEF Init, Request, Store!Init

LEMMA StoreStep == TypeInv /\ [Next]_vars => [Store!Next]_Store!vars
<1> SUFFICES ASSUME TypeInv, [Next]_vars
             PROVE  [Store!Next]_Store!vars
  OBVIOUS
<1>1. /\ TypeOK
      /\ now \in Nat
      /\ NoCommand \notin CommandsAt(0..now)
  BY CommandGrows DEF TypeInv, TypeOK
(* Nothing that counts changed, in no goroutine a command under way.        *)
<1>2. ASSUME UNCHANGED <<now, data, answers>>,
             \A c \in Clients :
               \/ UNCHANGED <<phase[c], cmd[c]>>
               \/ /\ phase[c] \notin {"submitting", "waiting"}
                  /\ phase'[c] \notin {"submitting", "waiting"}
      PROVE  UNCHANGED Store!vars
  BY <1>2 DEF Request, Store!vars
(* A goroutine that is ready to submit its command.                         *)
<1>3. ASSUME NEW c \in Clients, TypeInv',
             UNCHANGED <<now, data, answers>>,
             phase[c] \in {"reading", "content"},
             phase' = [phase EXCEPT ![c] = "submitting"],
             \A d \in Clients \ {c} : cmd'[d] = cmd[d]
      PROVE  Store!Invoke(c)
  <2>1. cmd'[c] \in CommandsAt(0..now) /\ phase'[c] = "submitting"
    BY <1>1, <1>3 DEF TypeInv, TypeOK
  <2>2. Request[c] = NoCommand
    BY <1>3 DEF Request
  <2>3. Request' = [Request EXCEPT ![c] = cmd'[c]]
    BY <1>1, <1>3, <2>1 DEF Request, TypeOK
  <2>4. cmd'[c] \in Store!CommandsAt(0..now)
    BY <2>1, SameRecords
  <2> QED
    BY <1>3, <2>2, <2>3, <2>4 DEF Store!Invoke
<1>4. TypeInv'
  BY TypeStep
<1>5. ASSUME NEW c \in Clients, Send(c) \/ Fill(c)
      PROVE  UNCHANGED Store!vars
  BY <1>2, <1>5 DEF Send, Fill
<1>6. ASSUME NEW c \in Clients, ParseWrite(c) \/ ParseCas(c)
      PROVE  UNCHANGED Store!vars
  <2>1. /\ UNCHANGED <<now, data, answers>>
        /\ phase[c] = "reading"
        /\ phase' = [phase EXCEPT ![c] = "content"]
        /\ \A d \in Clients \ {c} : cmd'[d] = cmd[d]
    BY <1>1, <1>6 DEF ParseWrite, ParseCas, TakeLine, TypeOK
  <2> QED
    BY <1>1, <1>2, <2>1 DEF TypeOK
<1>7. ASSUME NEW c \in Clients, ParseReadOrDelete(c)
      PROVE  Store!Invoke(c)
  <2>1. /\ UNCHANGED <<now, data, answers>>
        /\ phase[c] = "reading"
        /\ phase' = [phase EXCEPT ![c] = "submitting"]
        /\ \A d \in Clients \ {c} : cmd'[d] = cmd[d]
    BY <1>1, <1>7 DEF ParseReadOrDelete, TakeLine, TypeOK
  <2> QED
    BY <1>3, <1>4, <2>1
<1>8. ASSUME NEW c \in Clients,
             RejectCommand(c) \/ RejectUnknown(c) \/ RejectLong(c)
      PROVE  UNCHANGED Store!vars
  <2>1. /\ UNCHANGED <<now, data, answers, cmd>>
        /\ phase[c] = "reading"
        /\ phase' \in {phase, [phase EXCEPT ![c] = "left"]}
    BY <1>8 DEF RejectCommand, RejectUnknown, RejectLong, TakeLine
  <2> QED
    BY <1>1, <1>2, <2>1 DEF TypeOK
<1>9. ASSUME NEW c \in Clients, ReadContent(c)
      PROVE  Store!Invoke(c)
  <2>1. /\ UNCHANGED <<now, data, answers>>
        /\ phase[c] = "content"
        /\ phase' = [phase EXCEPT ![c] = "submitting"]
        /\ \A d \in Clients \ {c} : cmd'[d] = cmd[d]
    BY <1>1, <1>9 DEF ReadContent, TypeOK
  <2> QED
    BY <1>3, <1>4, <2>1
<1>10. ASSUME NEW c \in Clients, RejectContent(c)
       PROVE  UNCHANGED Store!vars
  <2>1. /\ UNCHANGED <<now, data, answers>>
        /\ phase[c] = "content"
        /\ phase' = [phase EXCEPT ![c] = "reading"]
        /\ \A d \in Clients \ {c} : cmd'[d] = cmd[d]
    BY <1>1, <1>10 DEF RejectContent, TypeOK
  <2> QED
    BY <1>1, <1>2, <2>1 DEF TypeOK
<1>11. ASSUME NEW c \in Clients, Serve(c)
       PROVE  Store!Effect(c)
  <2> DEFINE m == cmd[c]
             outcome == Outcome(m, data[m.file], now)
  <2>1. /\ phase[c] = "submitting"
        /\ data' = [data EXCEPT ![m.file] = outcome.entry]
        /\ answers' = [answers EXCEPT ![c] = outcome.answers]
        /\ phase' = [phase EXCEPT ![c] = "waiting"]
        /\ UNCHANGED <<now, cmd>>
    BY <1>11 DEF Serve
  <2>2. m \in CommandsAt(0..now) /\ m # NoCommand
    BY <1>1, <2>1 DEF TypeOK
  <2>3. m.file \in Files
    BY <1>1, <2>2, CommandFields
  <2>4. /\ data[m.file] \in File \cup {NoFile}
        /\ data[m.file] # NoFile => data[m.file].created <= now
    BY <1>1, <2>3 DEF TypeOK
  <2>5. Request[c] = m /\ Request' = Request
    BY <1>1, <2>1 DEF Request, TypeOK
  <2>6. answers[c] = <<>>
    BY <1>11 DEF Serve, Idle
  <2>7. Len(answers'[c]) = 1
    BY <1>4, <2>1, <1>1 DEF TypeInv, TypeOK
  <2>8. /\ data'[m.file] = outcome.entry
        /\ answers'[c] = outcome.answers
    BY <1>1, <2>1, <2>3 DEF TypeOK
  <2>9. Allowed(m, data[m.file], outcome.entry, outcome.answers[1])
    BY <1>1, <2>2, <2>4, OutcomeAllowed
  <2>10. Allowed(m, data[m.file], data'[m.file], answers'[c][1])
    BY <2>8, <2>9
  <2> HIDE DEF m, outcome
  <2>11. /\ data' = [data EXCEPT ![m.file] = data'[m.file]]
         /\ answers' = [answers EXCEPT ![c] = answers'[c]]
    BY <2>1, <2>8
  <2> QED
    BY <2>1, <2>2, <2>5, <2>6, <2>7, <2>10, <2>11 DEF Allowed, Store!Effect
<1>12. ASSUME NEW c \in Clients, Receive(c)
       PROVE  Store!Return(c)
  <2>1. /\ phase[c] = "waiting"
        /\ answers[c] # <<>>
        /\ answers' = [answers EXCEPT ![c] = Tail(answers[c])]
        /\ phase' = [phase EXCEPT ![c] = "reading"]
        /\ UNCHANGED <<now, data>>
        /\ cmd' = [cmd EXCEPT ![c] = NoCommand]
    BY <1>12 DEF Receive
  <2>2. answers[c] \in Seq(Answer) /\ Len(answers[c]) = 1
    BY <1>1, <2>1 DEF TypeOK
  <2>3. Tail(answers[c]) = <<>>
    <3>1. Tail(answers[c]) \in Seq(Answer) /\ Len(Tail(answers[c])) = 0
      BY <2>1, <2>2, HeadTailProperties
    <3>2. \A s \in Seq(Answer) : Len(s) = 0 => s = <<>>
      BY EmptySeq
    <3> QED
      BY <3>1, <3>2
  <2>4. Request' = [Request EXCEPT ![c] = NoCommand]
    BY <1>1, <2>1 DEF Request, TypeOK
  <2> QED
    BY <2>1, <2>3, <2>4 DEF Store!Return
<1>13. CASE Tick
  BY <1>13 DEF Tick, Request, Store!Advance, Store!Next
<1>14. CASE UNCHANGED vars
  BY <1>14 DEF vars, Request, Store!vars
<1> QED
  BY <1>5, <1>6, <1>7, <1>8, <1>9, <1>10, <1>11, <1>12, <1>13, <1>14
     DEF Next, Parse, Store!Next

(* The file server of assignment 1 implements the atomic, expiring store    *)
(* (server.go:38-379): each command takes effect once, between the moment   *)
(* it is read and the moment its answer is there, and a file that is lost   *)
(* is older than its life, with an expiry given somewhere.                  *)
THEOREM StoreImplemented == Spec => Implements
<1>1. Spec => Store!Init /\ [][Store!Next]_Store!vars
  BY TypeInvariant, StoreInit, StoreStep, PTL DEF Spec
<1> QED
  BY <1>1 DEF Implements, Store!Spec

=============================================================================

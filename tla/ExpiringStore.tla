--------------------------- MODULE ExpiringStore ---------------------------
(***************************************************************************)
(* What the file server promises its clients: an atomic store of versioned *)
(* files.  A client invokes a command, at one moment before the answer the *)
(* command takes effect on the whole store, then the answer returns.       *)
(*                                                                         *)
(* A file may be lost only if it is older than its life and an expiry was  *)
(* given, with the file or with the command that loses it.  Whoever gives  *)
(* no life to any file thus has a store that loses nothing.                *)
(***************************************************************************)
EXTENDS FileTypes

VARIABLES
    now,        \* the time
    store,      \* store[f] is the file f, or NoFile
    request,    \* request[c] is the command of c under way, or NoCommand
    answers     \* answers[c] is the answer to it, once there is one

vars == <<now, store, request, answers>>

Init == /\ now = 0
        /\ store = [f \in Files |-> NoFile]
        /\ request = [c \in Clients |-> NoCommand]
        /\ answers = [c \in Clients |-> <<>>]

Invoke(c) == /\ request[c] = NoCommand
             /\ \E m \in CommandsAt(0..now) : request' = [request EXCEPT ![c] = m]
             /\ UNCHANGED <<now, store, answers>>

(* What a command may find under its file's name.  A read or a delete never *)
(* finds a file that has expired.                                           *)
Found(m, fl) ==
    IF fl = NoFile \/ now - fl.created <= fl.life \/ (fl.life = 0 /\ m.struct.life = 0)
    THEN {fl}
    ELSE IF m.op \in {"read", "delete"} THEN {NoFile}
    ELSE {fl, NoFile}

Write(m, fl, entry, reply) ==
    LET version == IF fl = NoFile THEN 1 ELSE fl.version + 1
    IN  /\ m.op = "write"
        /\ entry = [m.struct EXCEPT !.version = version]
        /\ reply = Ok(version)

Read(m, fl, entry, reply) ==
    /\ m.op = "read"
    /\ fl # NoFile
    /\ entry = fl
    /\ reply.kind = "CONTENTS"
    /\ reply.version = fl.version
    /\ reply.content = fl.content
    /\ fl.life > 0 => now + reply.remaining = fl.created + fl.life
    /\ fl.life = 0 => reply.remaining = 0

Cas(m, fl, entry, reply) ==
    /\ m.op = "cas"
    /\ fl # NoFile
    /\ \/ /\ fl.version = m.struct.version
          /\ entry = [m.struct EXCEPT !.version = fl.version + 1]
          /\ reply = Ok(fl.version + 1)
       \/ /\ fl.version # m.struct.version
          /\ entry = fl
          /\ reply = ErrVersion(fl.version)

Delete(m, fl, entry, reply) ==
    /\ m.op = "delete"
    /\ fl # NoFile
    /\ entry = NoFile
    /\ reply = Deleted

NotFound(m, fl, entry, reply) ==
    /\ m.op # "write"
    /\ fl = NoFile
    /\ entry = NoFile
    /\ reply = ErrFileNotFound

(* The command takes effect: on its own file only, with its one answer.    *)
Effect(c) ==
    LET m == request[c]
    IN  /\ m # NoCommand
        /\ answers[c] = <<>>
        /\ Len(answers'[c]) = 1
        /\ \E fl \in Found(m, store[m.file]) :
             LET entry == store'[m.file]
                 reply == answers'[c][1]
             IN  \/ Write(m, fl, entry, reply)
                 \/ Read(m, fl, entry, reply)
                 \/ Cas(m, fl, entry, reply)
                 \/ Delete(m, fl, entry, reply)
                 \/ NotFound(m, fl, entry, reply)
        /\ store' = [store EXCEPT ![m.file] = store'[m.file]]
        /\ answers' = [answers EXCEPT ![c] = answers'[c]]
        /\ UNCHANGED <<now, request>>

Return(c) == /\ answers[c] # <<>>
             /\ request' = [request EXCEPT ![c] = NoCommand]
             /\ answers' = [answers EXCEPT ![c] = <<>>]
             /\ UNCHANGED <<now, store>>

Advance == /\ now' = now + 1
           /\ UNCHANGED <<store, request, answers>>

Next == \/ \E c \in Clients : Invoke(c) \/ Effect(c) \/ Return(c)
        \/ Advance

Spec == Init /\ [][Next]_vars

=============================================================================

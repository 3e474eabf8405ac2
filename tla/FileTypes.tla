----------------------------- MODULE FileTypes -----------------------------
(***************************************************************************)
(* The records of the file server: a file of the map, the command that a   *)
(* connection's goroutine sends to the owner of the map, and the answers   *)
(* that go back.  A file's name and content are data of which only the     *)
(* identity matters.                                                       *)
(***************************************************************************)
EXTENDS Integers, Sequences

CONSTANTS
    Clients,        \* the connections, each with a goroutine of its own
    Files,          \* file names
    Contents,       \* file contents
    EmptyContent,   \* the content of no bytes
    Lives,          \* life times in seconds that commands give; 0 is "none"
    Versions,       \* versions that cas commands name
    NoFile,         \* what the map holds under a name that it does not have
    NoCommand       \* a goroutine has no command in hand

(* The struct file, with time as the seconds since the server started.  The *)
(* parser sets expirySpecified exactly when the life is not 0, so the life  *)
(* says both.                                                               *)
FileStruct(V, T) ==
    [version : V, content : Contents, created : T, life : Lives]

ZeroStruct ==
    [version |-> 0, content |-> EmptyContent, created |-> 0, life |-> 0]

(* The commands that a parser can have built at the times T.               *)
CommandsAt(T) ==
         [op : {"write"}, file : Files, struct : FileStruct({1}, T)]
    \cup [op : {"cas"}, file : Files, struct : FileStruct(Versions, T)]
    \cup [op : {"read", "delete"}, file : Files, struct : {ZeroStruct}]

Ok(version) == [kind |-> "OK", version |-> version]

ErrVersion(version) == [kind |-> "ERR_VERSION", version |-> version]

Deleted == [kind |-> "OK"]

ErrFileNotFound == [kind |-> "ERR_FILE_NOT_FOUND"]

Answer ==
         [kind : {"OK", "ERR_VERSION"}, version : Nat \ {0}]
    \cup [kind : {"CONTENTS"}, version : Nat \ {0}, content : Contents,
          remaining : Nat]
    \cup {Deleted, ErrFileNotFound}

File == [version : Nat \ {0}, content : Contents, created : Nat, life : Lives]

ASSUME DataAssumption ==
    /\ EmptyContent \in Contents
    /\ 0 \in Lives /\ Lives \subseteq Nat
    /\ Versions \subseteq Int
    /\ NoFile \notin File
    /\ NoCommand \notin CommandsAt(Nat)

=============================================================================

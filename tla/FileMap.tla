------------------------------ MODULE FileMap ------------------------------
(***************************************************************************)
(* What one command does to the map: the cases of channelHandler.  An      *)
(* outcome is the entry that the command leaves under its file's name and  *)
(* the answers that are then sent on the command's result channel, one     *)
(* after the other.                                                        *)
(***************************************************************************)
EXTENDS FileTypes

(* "The file has already expired": the age of the file is compared with the *)
(* life of the file, but only if `by` says that an expiry was specified. A  *)
(* read or a delete looks at the file for that, a write or a cas at its own *)
(* struct.                                                                  *)
Expired(fl, by, now) == /\ by.life > 0
                        /\ now - fl.created > fl.life

(* The new struct takes over everything but the version, which goes on.    *)
NextVersion(fl, struct) == [struct EXCEPT !.version = fl.version + 1]

Gone == [entry |-> NoFile, answers |-> <<ErrFileNotFound>>]

WriteOutcome(m, fl, now) ==
    IF fl = NoFile \/ Expired(fl, m.struct, now)
    THEN [entry |-> m.struct, answers |-> <<Ok(1)>>]
    ELSE [entry |-> NextVersion(fl, m.struct),
          answers |-> <<Ok(fl.version + 1)>>]

(* What is left of the life is only computed if there is one.              *)
Remaining(fl, now) ==
    IF fl.life > 0 THEN fl.life - (now - fl.created) ELSE fl.life

(* Defect: no check whether the file has expired.                          *)
ReadUnexpired(m, fl, now) ==
    IF fl = NoFile THEN Gone
    ELSE [entry |-> fl,
          answers |-> <<[kind |-> "CONTENTS", version |-> fl.version,
                         content |-> fl.content,
                         remaining |-> Remaining(fl, now)]>>]

ReadOutcome(m, fl, now) ==
    IF fl = NoFile \/ Expired(fl, fl, now) THEN Gone
    ELSE [entry |-> fl,
          answers |-> <<[kind |-> "CONTENTS", version |-> fl.version,
                         content |-> fl.content,
                         remaining |-> Remaining(fl, now)]>>]

(* Defect: the check of the version is gone.                               *)
CasUnchecked(m, fl, now) ==
    IF fl = NoFile \/ Expired(fl, m.struct, now) THEN Gone
    ELSE [entry |-> NextVersion(fl, m.struct),
          answers |-> <<Ok(fl.version + 1)>>]

CasOutcome(m, fl, now) ==
    IF fl = NoFile \/ Expired(fl, m.struct, now) THEN Gone
    ELSE IF fl.version # m.struct.version
    THEN [entry |-> fl, answers |-> <<ErrVersion(fl.version)>>]
    ELSE [entry |-> NextVersion(fl, m.struct),
          answers |-> <<Ok(fl.version + 1)>>]

DeleteOutcome(m, fl, now) ==
    IF fl = NoFile \/ Expired(fl, fl, now) THEN Gone
    ELSE [entry |-> NoFile, answers |-> <<Deleted>>]

Outcome(m, fl, now) ==
    CASE m.op = "write"  -> WriteOutcome(m, fl, now)
      [] m.op = "read"   -> ReadOutcome(m, fl, now)
      [] m.op = "cas"    -> CasOutcome(m, fl, now)
      [] m.op = "delete" -> DeleteOutcome(m, fl, now)

=============================================================================

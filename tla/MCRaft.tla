------------------------------- MODULE MCRaft -------------------------------
(***************************************************************************)
(* What the configurations of Raft need besides values for its constants.  *)
(***************************************************************************)
EXTENDS Raft, TLC

\* Nodes are interchangeable; so are commands.
Symmetry == Permutations(Server) \cup Permutations(Command)

\* No handler reads a node's disks or its leaderId: only a restart reads the
\* disks.  Runs without a power-off, whose properties mention neither, look at
\* the rest of the state.
WithoutDisks ==
    <<role, term, votedFor, log, commitIndex, votes, leaderVars,
      net, delivered, nacked, submitted, elected>>

=============================================================================

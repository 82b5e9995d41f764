---------------------------- MODULE MuninSingleton ----------------------------
(***************************************************************************)
(* What lazy auto-start promises: at any time at most one munind owns the  *)
(* store and the socket.  A new owner comes only after the previous one is *)
(* gone, and only an owner ever answers.                                   *)
(***************************************************************************)
CONSTANTS Daemons, NoDaemon

VARIABLES
  owner,      \* the daemon process that is alive, or NoDaemon
  answering   \* the owner accepts connections

Init == owner = NoDaemon /\ answering = FALSE

Start(d) ==
  /\ owner = NoDaemon
  /\ owner' = d
  /\ answering' = FALSE

Answer ==
  /\ owner # NoDaemon
  /\ answering' = TRUE
  /\ UNCHANGED owner

End ==
  /\ owner # NoDaemon
  /\ owner' = NoDaemon
  /\ answering' = FALSE

Next == Answer \/ End \/ \E d \in Daemons : Start(d)

Spec == Init /\ [][Next]_<<owner, answering>>
=============================================================================

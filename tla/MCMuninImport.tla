----------------------------- MODULE MCMuninImport -----------------------------
EXTENDS MuninImport, TLC

CONSTANTS c1, c2, d1, d2, atuin, zsh

(* Both imports are of one source, an atuin database or a file: those of    *)
(* different sources have nothing in common but the channel and the lock.   *)
OneSource == \E x \in Sources : \A y \in Sources \ {x} :
  size'[y] = 0 /\ \A c \in Clients : asked'[c].source # y

MCSpec == Init /\ [][Next /\ OneSource]_vars /\ Fairness
=============================================================================

-------------------------- MODULE MCTcpConnection ---------------------------
(***************************************************************************)
(* TcpConnection for the safety runs of TLC: the threads other than the    *)
(* loop's have the same roles there, and messages are all alike.           *)
(***************************************************************************)
EXTENDS TcpConnection, TLC

Alike == Permutations(Threads) \cup Permutations(Messages)
=============================================================================

---------------------------- MODULE MCTcpServer ----------------------------
(***************************************************************************)
(* Instances of TcpServer for TLC.                                         *)
(***************************************************************************)
EXTENDS TcpServer, TLC

\* One complete request.
OneRequest == { <<"a", "n">> }

\* Every stream of six bytes, CR and LF in every place: twice what the buffer
\* of the run holds.
AllStreams == [1..6 -> {"a", "r", "n"}]

\* Connections are interchangeable.
ConnSymmetry == Permutations(Conns)

=============================================================================

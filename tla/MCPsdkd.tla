------------------------------ MODULE MCPsdkd ------------------------------
(***************************************************************************)
(* Instances of Psdkd for TLC.                                             *)
(***************************************************************************)
EXTENDS Psdkd

\* The command lines the scripts of the repository use, a malformed bind
\* address, an option whose operand is missing, and the usage option.
MCCommandLines == { <<>>,
                    <<"--debug">>,
                    <<"--debug", "--port", "5555">>,
                    <<"--bind-ip", "malformed">>,
                    <<"--debug", "--bind-ip">>,
                    <<"--help">> }

=============================================================================

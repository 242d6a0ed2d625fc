------------------------------ MODULE MCWsMux -------------------------------
(***************************************************************************)
(* Model-checking instances of WsMux, by how the workers are configured.   *)
(***************************************************************************)
EXTENDS WsMux

\* Heartbeats with an encoder that never fails, and the reverse. One worker
\* with both, or two workers whose encoder may fail, reach the exception that
\* NoMutualBlock allows: the mux and a worker block each other for good.
MCModes == {[ping |-> TRUE, encodeMayFail |-> FALSE],
            [ping |-> FALSE, encodeMayFail |-> TRUE]}

MCPlain == {[ping |-> FALSE, encodeMayFail |-> FALSE]}

=============================================================================

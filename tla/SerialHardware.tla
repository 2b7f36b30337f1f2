--------------------------- MODULE SerialHardware ---------------------------
(***************************************************************************)
(* What backend/command_queue.py promises about the hardware, with callers *)
(* and futures left out: commands are handed over one at a time, only when *)
(* nothing is outstanding, and a recovery is only ever reserved directly   *)
(* behind the one command it belongs to.                                   *)
(***************************************************************************)
EXTENDS Naturals, Sequences

VARIABLE outstanding   \* kinds of the calls not yet returned, oldest first

Init == outstanding = <<>>

\* A command is handed over; nothing else may be outstanding.
Begin == outstanding = <<>> /\ outstanding' = <<"command">>

\* A recovery is reserved behind the command, which may have just returned.
Reserve ==
    \/ outstanding = <<>> /\ outstanding' = <<"recovery">>
    \/ outstanding = <<"command">> /\ outstanding' = <<"command", "recovery">>

\* The oldest call returns.
Finish == outstanding # <<>> /\ outstanding' = Tail(outstanding)

Next == Begin \/ Reserve \/ Finish

Spec == Init /\ [][Next]_outstanding
=============================================================================

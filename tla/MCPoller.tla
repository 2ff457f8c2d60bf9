------------------------------ MODULE MCPoller ------------------------------
(* Small instances of the Mode 3 poller for TLC. *)
EXTENDS Poller, TLC

CONSTANTS in, out, hup

MCMasks == {{in}, {out}}
MixedMasks == {{in}, {out, hup}}  \* connectReadyEvents asks for EPOLLHUP too
MCTerminal == {hup}
=============================================================================

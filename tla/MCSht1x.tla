------------------------------ MODULE MCSht1x -------------------------------
(* Constants of the model-checking runs of Sht1x. *)
EXTENDS Sht1x, TLC

TaskSymmetry == Permutations(Tasks)

AllOps == Operations

\* One writable value next to {}: they differ in the flag conversions depend on.
OneArg == {{"LOW_RES"}}

\* A value whose only flag is masked out of the payload.
MaskedArg == {{"LOW_VOLTAGE"}}

ReadOps == {"temperature", "status_read"}

\* A measurement, which starts with its interrupt unmasked, and the command with
\* two transfers, which starts with it masked.
RaceOps == {"temperature", "status_write"}
=============================================================================

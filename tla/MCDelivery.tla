----------------------------- MODULE MCDelivery -----------------------------
(***************************************************************************)
(* Small instances of Delivery for TLC.  The installer appends a transport *)
(* with the arguments Installed, and keeps a mailapi entry it finds; the   *)
(* arguments Matching fit what the script reads.                           *)
(***************************************************************************)
EXTENDS Delivery

Installed == <<"sender", "recipient">>
Matching == <<"user", "sender", "recipient">>

Both == {Installed, Matching}
MatchingOnly == {Matching}
=============================================================================

-------------------------- MODULE InboundContract ---------------------------
(***************************************************************************)
(* What the mail API promises the clients of POST /mail/inbound: a request *)
(* is answered at most once, and "ok" (HTTP 200) only when its email is    *)
(* completely stored.  It promises no more: an email may be stored after   *)
(* its client was given another answer, or none.                           *)
(***************************************************************************)
CONSTANTS
  Requests,
  Answers     \* what a client can be told; "ok" is one of them

VARIABLES
  file,       \* the file of each request: "none", "partial" or "complete"
  wire        \* the answer each client has been given, or "none"

Init ==
  /\ file = [r \in Requests |-> "none"]
  /\ wire = [r \in Requests |-> "none"]

Begin(r) ==
  /\ file[r] = "none"
  /\ file' = [file EXCEPT ![r] = "partial"]
  /\ UNCHANGED wire

Complete(r) ==
  /\ file[r] = "partial"
  /\ file' = [file EXCEPT ![r] = "complete"]
  /\ UNCHANGED wire

Reply(r, answer) ==
  /\ wire[r] = "none"
  /\ answer = "ok" => file[r] = "complete"
  /\ wire' = [wire EXCEPT ![r] = answer]
  /\ UNCHANGED file

Next ==
  \E r \in Requests :
    Begin(r) \/ Complete(r) \/ \E answer \in Answers : Reply(r, answer)

Spec == Init /\ [][Next]_<<file, wire>>
=============================================================================

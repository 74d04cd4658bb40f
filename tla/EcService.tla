------------------------------ MODULE EcService ------------------------------
(***************************************************************************)
(* What EcManager promises about one EC command: it is executed by the EC  *)
(* at most once, commands are executed one at a time, the requester gets   *)
(* at most one reply (an answer, which only an executed command has, or a  *)
(* time-out), and nothing breaks unless some request has timed out.  A     *)
(* command may still be executed after its requester gave up on it.        *)
(* EcCommand implements this specification.                                *)
(***************************************************************************)
CONSTANT Ids

VARIABLES phase,    \* how far the EC is with each command
          outcome,  \* what the requester of each command has been told
          broken    \* the process is corrupted or terminated

svars == <<phase, outcome, broken>>

SInit == /\ phase   = [k \in Ids |-> "unused"]
         /\ outcome = [k \in Ids |-> "open"]
         /\ broken  = FALSE

Accept(k) == /\ phase[k] = "unused"
             /\ phase' = [phase EXCEPT ![k] = "accepted"]
             /\ UNCHANGED <<outcome, broken>>

Execute(k) == /\ phase[k] = "accepted"
              /\ \A j \in Ids : phase[j] # "executing"
              /\ phase' = [phase EXCEPT ![k] = "executing"]
              /\ UNCHANGED <<outcome, broken>>

Complete(k) == /\ phase[k] = "executing"
               /\ phase' = [phase EXCEPT ![k] = "executed"]
               /\ UNCHANGED <<outcome, broken>>

Answer(k) == /\ phase[k] = "executed"
             /\ outcome[k] = "open"
             /\ outcome' = [outcome EXCEPT ![k] = "answered"]
             /\ UNCHANGED <<phase, broken>>

GiveUp(k) == /\ phase[k] # "unused"
             /\ outcome[k] = "open"
             /\ outcome' = [outcome EXCEPT ![k] = "timeout"]
             /\ UNCHANGED <<phase, broken>>

Break == /\ \E k \in Ids : outcome[k] = "timeout"
         /\ broken' = TRUE
         /\ UNCHANGED <<phase, outcome>>

SNext == \/ \E k \in Ids : \/ Accept(k)  \/ Execute(k) \/ Complete(k)
                           \/ Answer(k)  \/ GiveUp(k)
         \/ Break

SSpec == SInit /\ [][SNext]_svars
=============================================================================

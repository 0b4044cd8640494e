------------------------------ MODULE FsmOwner ------------------------------
(***************************************************************************)
(* What a mailbox promises about its state machine (FSM), with none of the *)
(* atomics that implement it: the FSM is idle in its mailbox, busy in one   *)
(* place outside it, or dropped; and it does not stay idle while its       *)
(* mailbox holds more messages than when it last looked                    *)
(* (batch_system/src/fsm.rs:95-99 and batch.rs:116-120, 214-218).           *)
(* FsmState implements this specification.                                 *)
(***************************************************************************)
EXTENDS Naturals

VARIABLES place,  \* "idle", "busy" or "dropped"
          mail,   \* number of messages in the mailbox's channel
          seen    \* how many of them the FSM has accounted for

vars == <<place, mail, seen>>

TypeOK == /\ place \in {"idle", "busy", "dropped"}
          /\ mail \in Nat
          /\ seen \in Nat

Init == place = "idle" /\ mail = 0 /\ seen = 0

Deliver == /\ place # "dropped"
           /\ mail' = mail + 1
           /\ UNCHANGED <<place, seen>>

\* Having taken a message, the FSM has yet to look at the ones behind it.
Consume == /\ place = "busy" /\ mail > 0
           /\ mail' = mail - 1
           /\ seen' = 0
           /\ UNCHANGED place

\* The FSM decides to leave in its mailbox what is there now.
Look == place = "busy" /\ seen' = mail /\ UNCHANGED <<place, mail>>

Sleep == place = "busy" /\ place' = "idle" /\ UNCHANGED <<mail, seen>>

\* An FSM may be woken for nothing, and must be woken for a new message.
Wake == place = "idle" /\ place' = "busy" /\ UNCHANGED <<mail, seen>>

WakeForMail == mail > seen /\ Wake

Drop == /\ place # "dropped" /\ place' = "dropped"
        /\ mail' = 0
        /\ UNCHANGED seen

Next == Deliver \/ Consume \/ Look \/ Sleep \/ Wake \/ Drop

SafeSpec == Init /\ [][Next]_vars
Spec == SafeSpec /\ WF_vars(WakeForMail)
=============================================================================

--------------------------- MODULE FsmStateProofs ---------------------------
(***************************************************************************)
(* Proofs about FsmState, for any sets of clients and pollers and any      *)
(* number of messages.                                                     *)
(***************************************************************************)
EXTENDS FsmState, TLAPS

\* A new mailbox holds an idle FSM, which satisfies the invariant.
LEMMA InitInv == Init => IInv
<1> SUFFICES ASSUME Init PROVE IInv
  BY Zenon
<1>1. TypeOK /\ NoPanic BY ZenonT(60) DEF Init, TypeOK, NoPanic, PCs
<1>2. \A t \in Threads : pc[t] = "ready" BY Zenon DEF Init
<1>3. OneClaim /\ IdleInSlot /\ Ended /\ Roused
  BY <1>2 DEF Init, OneClaim, IdleInSlot, Ended, Roused, Claims, Holds, Holding
<1>4. \A t \in Threads : Claim(t) /\ Declared(t)
  BY <1>2, Zenon DEF Init, Claim, Declared, Holds, Holding
<1> QED BY <1>1, <1>3, <1>4, Zenon DEF IInv

\* The steps of a send preserve the invariant.
LEMMA SendInv ==
  ASSUME IInv, NEW t \in Threads, Send(t)
  PROVE  IInv'
<1> USE DEF IInv, TypeOK, NoPanic, OneClaim, IdleInSlot, Ended, Roused, Claim,
            Declared, Claims, Holds, Holding, PCs, Polling, Releasing,
            Goto, chan, sys, loc, DropFsm, KeepFsm
<1>1. CASE SendCheck(t)
  <2>1. TypeOK' BY <1>1 DEF SendCheck
  <2>2. NoPanic' BY <1>1, Zenon DEF SendCheck
  <2>3. OneClaim' BY <1>1 DEF SendCheck
  <2>4. IdleInSlot' /\ Ended' BY <1>1, Zenon DEF SendCheck
  <2>5. Roused' BY <1>1, Zenon DEF SendCheck
  <2>6. \A u \in Threads : Claim(u)' /\ Declared(u)' BY <1>1, ZenonT(40) DEF SendCheck
  <2> QED BY <2>1, <2>2, <2>3, <2>4, <2>5, <2>6, Zenon
<1>2. CASE Push(t)
  <2>1. TypeOK' BY <1>2 DEF Push
  <2>2. NoPanic' BY <1>2, Zenon DEF Push
  <2>3. OneClaim' BY <1>2 DEF Push
  <2>4. IdleInSlot' /\ Ended' BY <1>2, Zenon DEF Push
  <2>5. Roused' BY <1>2, Zenon DEF Push
  <2>6. \A u \in Threads : Claim(u)' /\ Declared(u)' BY <1>2 DEF Push
  <2> QED BY <2>1, <2>2, <2>3, <2>4, <2>5, <2>6, Zenon
<1>3. CASE NotifyStatus(t)
  <2>1. TypeOK' BY <1>3, Zenon DEF NotifyStatus, TakeStatus
  <2>2. NoPanic' BY <1>3, Zenon DEF NotifyStatus, TakeStatus
  <2>3. OneClaim' BY <1>3 DEF NotifyStatus, TakeStatus
  <2>4. IdleInSlot' /\ Ended' BY <1>3, Zenon DEF NotifyStatus, TakeStatus
  <2>5. Roused' BY <1>3, Zenon DEF NotifyStatus, TakeStatus
  <2>6. \A u \in Threads : Claim(u)' /\ Declared(u)' BY <1>3 DEF NotifyStatus, TakeStatus
  <2> QED BY <2>1, <2>2, <2>3, <2>4, <2>5, <2>6, Zenon
<1>4. CASE NotifyData(t)
  <2>1. TypeOK' BY ZenonT(60), <1>4 DEF NotifyData, TakeData
  <2>2. NoPanic' /\ OneClaim' BY <1>4 DEF NotifyData, TakeData
  <2>4. IdleInSlot' /\ Ended' /\ Roused' BY <1>4, Zenon DEF NotifyData, TakeData
  <2>3. \A u \in Threads : Claim(u)' /\ Declared(u)'
    BY <1>4, ZenonT(40) DEF NotifyData, TakeData
  <2> QED BY <2>1, <2>2, <2>3, <2>4, Zenon
<1>5. CASE Schedule(t)
  <2>1. CASE pool = "gone"
    <3>1. TypeOK'
      <4>1. DropFsm /\ UNCHANGED <<status, data, pool, handles, waiting, loc, seen, panicked, sched>>
        BY <1>5, <2>1, Zenon DEF Schedule
      <4>2. pc' \in [Threads -> PCs] BY <1>5, Zenon DEF Schedule
      <4> QED BY ZenonT(60), <4>1, <4>2
    <3>2. NoPanic' /\ OneClaim' BY <1>5, <2>1, ZenonT(40) DEF Schedule
    <3>4. IdleInSlot' /\ Ended' /\ Roused' BY <1>5, <2>1, Zenon DEF Schedule
    <3>3. \A u \in Threads : Claim(u)' /\ Declared(u)'
      BY <1>5, <2>1, ZenonT(40) DEF Schedule
    <3> QED BY <3>1, <3>2, <3>3, <3>4, Zenon
  <2>2. CASE pool # "gone"
    <3>1. /\ pc[t] = "schedule" /\ pc' = [pc EXCEPT ![t] = "ready"]
          /\ sched = 0 /\ sched' = 1 /\ live /\ ~data /\ status # "IDLE"
          /\ \A u \in Threads \ {t} : ~Claims(u)
      BY <1>5, <2>2 DEF Schedule
    <3>2. UNCHANGED <<status, data, chan, pool, handles, live, waiting, loc, seen, panicked>>
      BY <1>5, <2>2, Zenon DEF Schedule
    <3> QED BY <3>1, <3>2
  <2> QED BY <2>1, <2>2, Zenon
<1> HIDE DEF IInv
<1> QED BY <1>1, <1>2, <1>3, <1>4, <1>5, Zenon DEF Send

\* The steps of a poll round preserve the invariant.
LEMMA PollInv ==
  ASSUME IInv, NEW t \in Threads, Recv(t) \/ Poll(t) \/ PollerExit(t)
  PROVE  IInv'
<1> USE DEF IInv, TypeOK, NoPanic, OneClaim, IdleInSlot, Ended, Roused, Claim,
            Declared, Claims, Holds, Holding, PCs, Polling, Releasing,
            Goto, chan, sys, loc, DropFsm, KeepFsm
<1>1. CASE Recv(t)
  <2>1. TypeOK' BY <1>1 DEF Recv
  <2>2. NoPanic' BY <1>1, Zenon DEF Recv
  <2>3. OneClaim' BY <1>1 DEF Recv
  <2>4. IdleInSlot' /\ Ended' BY <1>1, Zenon DEF Recv
  <2>5. Roused' BY <1>1, Zenon DEF Recv
  <2>6. \A u \in Threads : Claim(u)' /\ Declared(u)' BY <1>1, Zenon DEF Recv
  <2> QED BY <2>1, <2>2, <2>3, <2>4, <2>5, <2>6, Zenon
<1>2. CASE Receive(t)
  <2>1. TypeOK' BY <1>2 DEF Receive
  <2>2. NoPanic' BY <1>2, Zenon DEF Receive
  <2>3. OneClaim' BY <1>2 DEF Receive
  <2>4. IdleInSlot' /\ Ended' BY <1>2, Zenon DEF Receive
  <2>5. Roused' BY <1>2, Zenon DEF Receive
  <2>6. \A u \in Threads : Claim(u)' /\ Declared(u)' BY <1>2 DEF Receive
  <2> QED BY <2>1, <2>2, <2>3, <2>4, <2>5, <2>6, Zenon
<1>3. CASE FindEmpty(t)
  <2>1. TypeOK' BY <1>3, Zenon DEF FindEmpty
  <2>2. NoPanic' BY <1>3, Zenon DEF FindEmpty
  <2>3. OneClaim' BY <1>3 DEF FindEmpty
  <2>4. IdleInSlot' /\ Ended' BY <1>3, Zenon DEF FindEmpty
  <2>5. Roused' BY <1>3, Zenon DEF FindEmpty
  <2>6. \A u \in Threads : Claim(u)' /\ Declared(u)' BY <1>3 DEF FindEmpty
  <2> QED BY <2>1, <2>2, <2>3, <2>4, <2>5, <2>6, Zenon
<1>4. CASE QueryLen(t)
  <2>1. TypeOK' BY <1>4, Zenon DEF QueryLen
  <2>2. NoPanic' BY <1>4, Zenon DEF QueryLen
  <2>3. OneClaim' BY <1>4 DEF QueryLen
  <2>4. IdleInSlot' /\ Ended' BY <1>4, Zenon DEF QueryLen
  <2>5. Roused' BY <1>4, Zenon DEF QueryLen
  <2>6. \A u \in Threads : Claim(u)' /\ Declared(u)' BY <1>4 DEF QueryLen
  <2> QED BY <2>1, <2>2, <2>3, <2>4, <2>5, <2>6, Zenon
<1>5. CASE Resume(t)
  <2>1. TypeOK' BY <1>5, Zenon DEF Resume
  <2>2. NoPanic' BY <1>5, Zenon DEF Resume
  <2>3. OneClaim' BY <1>5 DEF Resume
  <2>4. IdleInSlot' /\ Ended' BY <1>5, Zenon DEF Resume
  <2>5. Roused' BY <1>5, Zenon DEF Resume
  <2>6. \A u \in Threads : Claim(u)' /\ Declared(u)' BY <1>5 DEF Resume
  <2> QED BY <2>1, <2>2, <2>3, <2>4, <2>5, <2>6, Zenon
<1>6. CASE Stop(t)
  <2>1. TypeOK' BY <1>6, Zenon DEF Stop
  <2>2. NoPanic' BY <1>6, Zenon DEF Stop
  <2>3. OneClaim' BY <1>6 DEF Stop
  <2>4. IdleInSlot' /\ Ended' BY <1>6, Zenon DEF Stop
  <2>5. Roused' BY <1>6, Zenon DEF Stop
  <2>6. \A u \in Threads : Claim(u)' /\ Declared(u)' BY <1>6, Zenon DEF Stop
  <2> QED BY <2>1, <2>2, <2>3, <2>4, <2>5, <2>6, Zenon
<1>7. CASE Remove(t)
  <2>1. TypeOK' BY <1>7, Zenon DEF Remove
  <2>2. NoPanic' BY <1>7, Zenon DEF Remove
  <2>3. OneClaim' BY <1>7 DEF Remove
  <2>4. IdleInSlot' /\ Ended' BY <1>7, Zenon DEF Remove
  <2>5. Roused' BY <1>7, Zenon DEF Remove
  <2>6. \A u \in Threads : Claim(u)' /\ Declared(u)' BY <1>7, ZenonT(40) DEF Remove
  <2> QED BY <2>1, <2>2, <2>3, <2>4, <2>5, <2>6, Zenon
<1>8. CASE PollerExit(t)
  <2>1. TypeOK' BY ZenonT(60), <1>8 DEF PollerExit
  <2>2. NoPanic' /\ OneClaim' BY <1>8, ZenonT(40) DEF PollerExit
  <2>4. IdleInSlot' /\ Ended' /\ Roused' BY <1>8, Zenon DEF PollerExit
  <2>3. \A u \in Threads : Claim(u)' /\ Declared(u)'
    BY <1>8, Zenon DEF PollerExit
  <2> QED BY <2>1, <2>2, <2>3, <2>4, Zenon
<1> HIDE DEF IInv
<1> QED BY <1>1, <1>2, <1>3, <1>4, <1>5, <1>6, <1>7, <1>8, Zenon DEF Poll

\* The steps of Batch::release preserve the invariant.
LEMMA ReleaseInv ==
  ASSUME IInv, NEW t \in Threads, Release(t)
  PROVE  IInv'
<1> USE DEF IInv, TypeOK, NoPanic, OneClaim, IdleInSlot, Ended, Roused, Claim,
            Declared, Claims, Holds, Holding, PCs, Polling, Releasing,
            Goto, chan, sys, loc, DropFsm, KeepFsm
<1>1. CASE ReleaseData(t)
  <2>1. TypeOK' BY <1>1, Zenon DEF ReleaseData
  <2>2. NoPanic' BY <1>1, Zenon DEF ReleaseData
  <2>3. OneClaim' BY <1>1 DEF ReleaseData
  <2>4. IdleInSlot' /\ Ended' BY <1>1, Zenon DEF ReleaseData
  <2>5. Roused' BY <1>1, Zenon DEF ReleaseData
  <2>6. \A u \in Threads : Claim(u)' /\ Declared(u)' BY <1>1, ZenonT(40) DEF ReleaseData
  <2> QED BY <2>1, <2>2, <2>3, <2>4, <2>5, <2>6, Zenon
<1>2. CASE ReleaseStatus(t)
  <2>1. TypeOK' BY <1>2, Zenon DEF ReleaseStatus
  <2>2. NoPanic' BY <1>2, Zenon DEF ReleaseStatus
  <2>3. OneClaim' BY <1>2 DEF ReleaseStatus
  <2>4. IdleInSlot' /\ Ended' BY <1>2 DEF ReleaseStatus
  <2>5. Roused' BY <1>2, Zenon DEF ReleaseStatus
  <2>6. \A u \in Threads : Claim(u)' /\ Declared(u)' BY <1>2 DEF ReleaseStatus
  <2> QED BY <2>1, <2>2, <2>3, <2>4, <2>5, <2>6, Zenon
<1>3. CASE ReleaseDrop(t)
  <2>1. TypeOK' BY ZenonT(60), <1>3 DEF ReleaseDrop
  <2>2. NoPanic' /\ OneClaim' BY <1>3, ZenonT(40) DEF ReleaseDrop
  <2>4. IdleInSlot' /\ Ended' /\ Roused' BY <1>3, Zenon DEF ReleaseDrop
  <2>3. \A u \in Threads : Claim(u)' /\ Declared(u)'
    BY <1>3, ZenonT(40) DEF ReleaseDrop
  <2> QED BY <2>1, <2>2, <2>3, <2>4, Zenon
<1>4. CASE CheckLen(t)
  <2>1. TypeOK' BY <1>4, Zenon DEF CheckLen
  <2>2. NoPanic' BY <1>4, Zenon DEF CheckLen
  <2>3. OneClaim' BY <1>4 DEF CheckLen
  <2>4. IdleInSlot' /\ Ended' BY <1>4, Zenon DEF CheckLen
  <2>5. Roused' BY <1>4 DEF CheckLen
  <2>6. \A u \in Threads : Claim(u)' /\ Declared(u)' BY <1>4, ZenonT(40) DEF CheckLen
  <2> QED BY <2>1, <2>2, <2>3, <2>4, <2>5, <2>6, Zenon
<1>5. CASE RetakeStatus(t)
  <2>1. TypeOK' BY <1>5, Zenon DEF RetakeStatus, TakeStatus
  <2>2. NoPanic' BY <1>5, Zenon DEF RetakeStatus, TakeStatus
  <2>3. OneClaim' BY <1>5 DEF RetakeStatus, TakeStatus
  <2>4. IdleInSlot' /\ Ended' BY <1>5, Zenon DEF RetakeStatus, TakeStatus
  <2>5. Roused' BY <1>5, Zenon DEF RetakeStatus, TakeStatus
  <2>6. \A u \in Threads : Claim(u)' /\ Declared(u)' BY <1>5, ZenonT(40) DEF RetakeStatus, TakeStatus
  <2> QED BY <2>1, <2>2, <2>3, <2>4, <2>5, <2>6, Zenon
<1>6. CASE RetakeData(t)
  <2>1. TypeOK' BY ZenonT(60), <1>6 DEF RetakeData, TakeData
  <2>2. NoPanic' /\ OneClaim' BY <1>6 DEF RetakeData, TakeData
  <2>4. IdleInSlot' /\ Ended' /\ Roused' BY <1>6, Zenon DEF RetakeData, TakeData
  <2>3. \A u \in Threads : Claim(u)' /\ Declared(u)'
    BY <1>6, Zenon DEF RetakeData, TakeData
  <2> QED BY <2>1, <2>2, <2>3, <2>4, Zenon
<1> HIDE DEF IInv
<1> QED BY <1>1, <1>2, <1>3, <1>4, <1>5, <1>6, Zenon DEF Release

\* Closing, shutting down and the end of the last handle preserve the invariant.
LEMMA CloseInv ==
  ASSUME IInv, \/ \E t \in Threads : Clear(t)
               \/ Shutdown \/ DropChannel \/ DropState
  PROVE  IInv'
<1> USE DEF IInv, TypeOK, NoPanic, OneClaim, IdleInSlot, Ended, Roused, Claim,
            Declared, Claims, Holds, Holding, PCs, Polling, Releasing,
            Goto, chan, sys, loc, DropFsm, KeepFsm
<1>1. ASSUME NEW t \in Threads, Close(t) PROVE IInv'
  <2>1. TypeOK' BY ZenonT(60), <1>1 DEF Close
  <2>2. NoPanic' /\ OneClaim' BY <1>1 DEF Close
  <2>4. IdleInSlot' /\ Ended' /\ Roused' BY <1>1, Zenon DEF Close
  <2>3. \A u \in Threads : Claim(u)' /\ Declared(u)'
    BY <1>1, ZenonT(40) DEF Close
  <2> QED BY <2>1, <2>2, <2>3, <2>4, Zenon
<1>2. ASSUME NEW t \in Threads, ClearStatus(t) PROVE IInv'
  <2>1. TypeOK' BY <1>2, Zenon DEF ClearStatus
  <2>2. NoPanic' BY <1>2, Zenon DEF ClearStatus
  <2>3. OneClaim' BY <1>2 DEF ClearStatus
  <2>4. IdleInSlot' /\ Ended' BY <1>2, Zenon DEF ClearStatus
  <2>5. Roused' BY <1>2, Zenon DEF ClearStatus
  <2>6. \A u \in Threads : Claim(u)' /\ Declared(u)' BY <1>2, Zenon DEF ClearStatus
  <2> QED BY <2>1, <2>2, <2>3, <2>4, <2>5, <2>6, Zenon
<1>3. ASSUME NEW t \in Threads, ClearData(t) PROVE IInv'
  <2>1. data /\ live /\ status = "DROP" /\ sched = 0 BY <1>3 DEF ClearData
  <2> QED BY ZenonT(60), <1>3, <2>1 DEF ClearData
<1>4. CASE Shutdown    BY <1>4, ZenonT(40) DEF Shutdown
<1>5. CASE DropChannel
  <2>1. CASE sched > 0
    <3>1. TypeOK'
      <4>1. /\ DropFsm /\ pool' = "gone" /\ sched' = 0
            /\ UNCHANGED <<status, data, handles, waiting, pc, loc, seen, panicked>>
        BY <1>5, <2>1, Zenon DEF DropChannel
      <4> QED BY ZenonT(60), <4>1
    <3>2. NoPanic' /\ OneClaim' BY <1>5, <2>1 DEF DropChannel
    <3>4. IdleInSlot' /\ Ended' /\ Roused' BY <1>5, <2>1, Zenon DEF DropChannel
    <3>3. \A u \in Threads : Claim(u)' /\ Declared(u)'
      BY <1>5, <2>1, Zenon DEF DropChannel
    <3> QED BY <3>1, <3>2, <3>3, <3>4, Zenon
  <2>2. CASE sched = 0 BY <1>5, <2>2 DEF DropChannel
  <2> QED BY <2>1, <2>2
<1>6. CASE DropState
  <2>1. CASE data  BY ZenonT(60), <1>6, <2>1 DEF DropState
  <2>2. CASE ~data
    <3>1. TypeOK' BY ZenonT(60), <1>6, <2>2 DEF DropState
    <3>2. NoPanic' /\ OneClaim' BY <1>6, <2>2, Zenon DEF DropState
    <3>4. IdleInSlot' /\ Ended' /\ Roused' BY <1>6, <2>2 DEF DropState
    <3>3. \A u \in Threads : Claim(u)' /\ Declared(u)'
      BY <1>6, <2>2, Zenon DEF DropState
    <3> QED BY <3>1, <3>2, <3>3, <3>4, Zenon
  <2> QED BY <2>1, <2>2, Zenon
<1> HIDE DEF IInv
<1> QED BY <1>1, <1>2, <1>3, <1>4, <1>5, <1>6, Zenon DEF Clear

\* A step that changes nothing preserves the invariant.
LEMMA StutterInv == IInv /\ UNCHANGED vars => IInv'
BY DEF vars, IInv, TypeOK, NoPanic, OneClaim, IdleInSlot, Ended, Roused, Claim,
       Declared, Claims, Holds

\* Every step of the mailbox preserves the invariant.
LEMMA NextInv == IInv /\ [Next]_vars => IInv'
<1> SUFFICES ASSUME IInv, [Next]_vars PROVE IInv'
  BY Zenon
<1>1. ASSUME NEW c \in Clients, Send(c) PROVE IInv'
  BY <1>1, SendInv, Zenon DEF Threads
<1>2. ASSUME NEW c \in Clients, Clear(c) PROVE IInv'
  BY <1>2, CloseInv, Zenon DEF Threads
<1>3. ASSUME NEW p \in Pollers, Recv(p) \/ Poll(p) \/ PollerExit(p) PROVE IInv'
  BY <1>3, PollInv, Zenon DEF Threads
<1>4. ASSUME NEW p \in Pollers, Release(p) PROVE IInv'
  BY <1>4, ReleaseInv, Zenon DEF Threads
<1>5. CASE Shutdown \/ DropChannel \/ DropState
  BY <1>5, CloseInv, Zenon
<1>6. CASE UNCHANGED vars
  BY <1>6, StutterInv, Zenon
<1> QED BY <1>1, <1>2, <1>3, <1>4, <1>5, <1>6, Zenon DEF Next

\* The inductive invariant holds in every reachable state of the mailbox, for
\* any clients, pollers and number of messages.
THEOREM Invariance == Spec => []IInv
<1>1. Init => IInv BY InitInv, Zenon
<1>2. IInv /\ [Next]_vars => IInv' BY NextInv, Zenon
<1> QED BY <1>1, <1>2, PTL DEF Spec

\* Every variable keeps its type: in particular no queue length, schedule count
\* or checked length ever goes below zero.
THEOREM TypeCorrect == Spec => []TypeOK
<1>1. IInv => TypeOK BY Zenon DEF IInv
<1> QED BY <1>1, Invariance, PTL

\* The boxed FSM of fsm.rs is never aliased, leaked or used after it is dropped.
THEOREM Ownership == Spec => []SingleOwner
<1>1. IInv => SingleOwner
  <2> SUFFICES ASSUME IInv PROVE SingleOwner
    BY Zenon
  <2>1. live => data \/ sched > 0 \/ \E t \in Threads : Holds(t)
    BY Zenon DEF IInv, OneClaim
  <2>2. data => live /\ sched = 0 /\ \A t \in Threads : ~Holds(t)
    BY DEF IInv, OneClaim, Claim, TypeOK
  <2>3. sched > 0 => live /\ sched = 1 /\ \A t \in Threads : ~Holds(t)
    BY Zenon DEF IInv, OneClaim, Claims
  <2>4. \A t \in Threads : Holds(t) => live /\ \A u \in Threads \ {t} : ~Holds(u)
    BY Zenon DEF IInv, OneClaim, Claim, Claims
  <2> QED BY <2>1, <2>2, <2>3, <2>4, Zenon DEF SingleOwner
<1> QED BY <1>1, Invariance, PTL

\* Neither panic! of fsm.rs is reachable.
THEOREM PanicFree == Spec => []NoPanic
<1>1. IInv => NoPanic BY Zenon DEF IInv
<1> QED BY <1>1, Invariance, PTL

\* No interleaving of sends with Batch::release loses the wake-up of an idle FSM.
THEOREM WakeupKept == Spec => []NoLostWakeup
<1>1. IInv => NoLostWakeup
  BY SMTT(60) DEF IInv, Roused, NoLostWakeup, Rousing, TypeOK
<1> QED BY <1>1, Invariance, PTL

\* A step of the mailbox is a step of FsmOwner, or changes nothing it sees.
LEMMA OwnerStep == IInv /\ [Next]_vars => [Owner!Next]_(Owner!vars)
<1> SUFFICES ASSUME IInv, [Next]_vars PROVE [Owner!Next]_(Owner!vars)
  BY Zenon
<1> USE DEF IInv, TypeOK, OneClaim, IdleInSlot, Ended, Claim, Claims, Holds, Holding,
            Goto, chan, sys, loc, DropFsm, KeepFsm,
            Owner!Next, Owner!vars, Owner!Deliver, Owner!Consume, Owner!Look,
            Owner!Sleep, Owner!Wake, Owner!Drop
<1>1. ASSUME NEW t \in Threads, Send(t) PROVE [Owner!Next]_(Owner!vars)
  <2>1. CASE SendCheck(t)    BY <2>1, Zenon DEF SendCheck
  <2>2. CASE Push(t)         BY <2>2, Zenon DEF Push
  <2>3. CASE NotifyStatus(t) BY <2>3, Zenon DEF NotifyStatus, TakeStatus
  <2>4. CASE NotifyData(t)   BY <2>4, Zenon DEF NotifyData, TakeData
  <2>5. CASE Schedule(t)     BY <2>5, Zenon DEF Schedule
  <2> HIDE DEF IInv, Owner!Next, Owner!vars
  <2> QED BY <1>1, <2>1, <2>2, <2>3, <2>4, <2>5, Zenon DEF Send
<1>2. ASSUME NEW t \in Threads, Poll(t) \/ Recv(t) \/ PollerExit(t)
      PROVE [Owner!Next]_(Owner!vars)
  <2>1. CASE Recv(t)       BY <2>1, Zenon DEF Recv
  <2>2. CASE Receive(t)    BY <2>2, Zenon DEF Receive
  <2>3. CASE FindEmpty(t)  BY <2>3, Zenon DEF FindEmpty
  <2>4. CASE QueryLen(t)   BY <2>4, Zenon DEF QueryLen
  <2>5. CASE Resume(t)     BY <2>5, Zenon DEF Resume
  <2>6. CASE Stop(t)       BY <2>6, Zenon DEF Stop
  <2>7. CASE Remove(t)     BY <2>7, Zenon DEF Remove
  <2>8. CASE PollerExit(t) BY <2>8, Zenon DEF PollerExit
  <2> HIDE DEF IInv, Owner!Next, Owner!vars
  <2> QED BY <1>2, <2>1, <2>2, <2>3, <2>4, <2>5, <2>6, <2>7, <2>8, Zenon DEF Poll
<1>3. ASSUME NEW t \in Threads, Release(t) PROVE [Owner!Next]_(Owner!vars)
  <2>1. CASE ReleaseData(t)   BY <2>1, Zenon DEF ReleaseData
  <2>2. CASE ReleaseStatus(t) BY <2>2, Zenon DEF ReleaseStatus
  <2>3. CASE ReleaseDrop(t)   BY <2>3, Zenon DEF ReleaseDrop
  <2>4. CASE CheckLen(t)      BY <2>4, Zenon DEF CheckLen
  <2>5. CASE RetakeStatus(t)  BY <2>5, Zenon DEF RetakeStatus, TakeStatus
  <2>6. CASE RetakeData(t)    BY <2>6, Zenon DEF RetakeData, TakeData
  <2> HIDE DEF IInv, Owner!Next, Owner!vars
  <2> QED BY <1>3, <2>1, <2>2, <2>3, <2>4, <2>5, <2>6, Zenon DEF Release
<1>4. ASSUME NEW t \in Threads, Clear(t) PROVE [Owner!Next]_(Owner!vars)
  <2>1. CASE Close(t)       BY <2>1, Zenon DEF Close
  <2>2. CASE ClearStatus(t) BY <2>2, Zenon DEF ClearStatus
  <2>3. CASE ClearData(t)   BY <2>3, Zenon DEF ClearData
  <2> HIDE DEF IInv, Owner!Next, Owner!vars
  <2> QED BY <1>4, <2>1, <2>2, <2>3, Zenon DEF Clear
<1>5. CASE Shutdown       BY <1>5, Zenon DEF Shutdown
<1>6. CASE DropChannel    BY <1>6, Zenon DEF DropChannel
<1>7. CASE DropState      BY <1>7, Zenon DEF DropState
<1>8. CASE UNCHANGED vars BY <1>8, Zenon DEF vars
<1> HIDE DEF IInv, Owner!Next, Owner!vars
<1> QED BY <1>1, <1>2, <1>3, <1>4, <1>5, <1>6, <1>7, <1>8, Zenon DEF Next, Threads

\* The mailbox implements the safety part of FsmOwner: only a busy FSM consumes,
\* looks or goes to sleep, and it goes from idle to busy and back one owner at a
\* time.
THEOREM Refinement == Spec => Owner!SafeSpec
<1>1. Init => Owner!Init BY Zenon DEF Init, Owner!Init
<1> QED BY <1>1, Invariance, OwnerStep, PTL DEF Spec, Owner!SafeSpec
=============================================================================

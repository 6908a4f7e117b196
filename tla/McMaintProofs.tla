---------------------------- MODULE McMaintProofs ----------------------------
(***************************************************************************)
(* Proofs about the dump and the restoration of a memory card: IInv is     *)
(* inductive, and the safety properties of McMaint follow from it.         *)
(*                                                                         *)
(* There is a lemma for every action.  Its first step has the conjuncts of *)
(* IInv which the action keeps by themselves; each of the others has a     *)
(* step of its own, which names the conjuncts it depends on.               *)
(***************************************************************************)
EXTENDS McMaint, TLAPS

(* TypeOK, for the three actions that change a function or a Boolean variable among many others *)

LEMMA FreeType == ASSUME TypeOK, Free PROVE TypeOK'
<1>1. allocated' \in BOOLEAN
  BY DEF Free
<1>2. RpcOK'
  BY DEF TypeOK, RpcOK, Free, rpcVars
<1> QED
  BY <1>1, <1>2 DEF TypeOK, Free, WorkerOnly, mainVars, sharedVars, mediaVars, WorkerPlaces

LEMMA AllocateType == ASSUME TypeOK, Allocate PROVE TypeOK'
<1>1. allocated' \in BOOLEAN
  BY DEF Allocate, TypeOK
<1>2. RpcOK'
  BY DEF TypeOK, RpcOK, Allocate, rpcVars
<1>3. unit' \in 0 .. NumUnits /\ bank' \in Banks
  BY UnitsAssumption DEF Allocate, Banks
<1>4. buffer' \in [Banks -> Contents]
  BY DEF Allocate, EmptyBuffers, Contents
<1>5. result' \in {"OK"} \cup Errors /\ worker' \in WorkerPlaces
  BY DEF Allocate, Errors, WorkerPlaces, Transferring
<1> QED
  BY <1>1, <1>2, <1>3, <1>4, <1>5 DEF TypeOK, Allocate, WorkerOnly, mainVars, sharedVars, mediaVars

LEMMA ServeCallType == ASSUME TypeOK, ServeCall PROVE TypeOK'
<1>1. RpcOK'
  BY UnitsAssumption DEF TypeOK, RpcOK, ServeCall, RpcEnds, Calls, NoCall, Units, Contents, Banks
<1>2. buffer' \in [Banks -> Contents] /\ target' \in [Units -> Contents]
  BY DEF TypeOK, RpcOK, ServeCall, Calls, Contents
<1> QED
  BY <1>1, <1>2 DEF TypeOK, ServeCall, mainVars, sharedVars

-----------------------------------------------------------------------------
(* The actions *)

LEMMA NoCardStep == ASSUME IInv, NEW o \in Operations, NoCard(o) PROVE IInv'
<1>1. TypeOK' /\ FirstCommandOK' /\ StopOK' /\ MainOK' /\ JobOK' /\ CodeOK' /\ StateOK' /\
   FlightOK' /\ FreshOK' /\ DumpOK' /\ RestoreOK' /\ EndOK' /\ SuccessIsComplete'
  BY DEF IInv, NoCard, TypeOK, FirstCommandOK, StopOK, MainOK, JobOK, CodeOK, StateOK, FlightOK,
     FreshOK, DumpOK, RestoreOK, EndOK, SuccessIsComplete, Banks, Calls, Commands, Complete,
     Contents, Done, Errors, Idle, Job, MainOnly, MainPlaces, NoCall, NoSignal, Operations,
     ResultCodes, RpcOK, Running, Sending, Signal, Transferring, Units, WorkerAsleep,
     WorkerPlaces, mediaVars, rpcVars, sharedVars, workerVars
<1> QED
  BY <1>1 DEF IInv

LEMMA BeginStep == ASSUME IInv, NEW o \in Operations, Begin(o) PROVE IInv'
<1>1. MainOK' /\ JobOK' /\ CodeOK' /\ FlightOK' /\ DumpOK' /\ RestoreOK' /\ EndOK' /\
   SuccessIsComplete'
  BY DEF IInv, Begin, MainOK, JobOK, CodeOK, FlightOK, DumpOK, RestoreOK, EndOK,
     SuccessIsComplete, Complete, Done, Empty, Idle, Job, MainOnly, NoCall, NoSignal, Running,
     Transferring, Units, WorkerAsleep, mediaVars, rpcVars, sharedVars, workerVars
<1>2. TypeOK'
  BY UnitsAssumption DEF IInv, Begin, TypeOK, Banks, Calls, Commands, Contents, Empty, Errors,
     MainOnly, MainPlaces, NoCall, Operations, ResultCodes, RpcOK, Transferring, Units,
     WorkerAsleep, WorkerPlaces, mediaVars, rpcVars, sharedVars, workerVars
<1>3. FirstCommandOK'
  BY DEF IInv, Begin, FirstCommandOK, MainOK, Done, Empty, Idle, Job, MainOnly, NoSignal,
     Signal, Transferring, Units, WorkerAsleep, mediaVars, rpcVars, sharedVars, workerVars
<1>4. StopOK'
  BY DEF IInv, Begin, StopOK, MainOK, Done, Empty, Idle, Job, MainOnly, NoSignal, Signal,
     Transferring, Units, WorkerAsleep, mediaVars, rpcVars, sharedVars, workerVars
<1>5. StateOK'
  BY DEF IInv, Begin, StateOK, TypeOK, Banks, Calls, Commands, Complete, Contents, Empty,
     Errors, Idle, MainOnly, MainPlaces, NoCall, Operations, ResultCodes, RpcOK, Running,
     Sending, Transferring, Units, WorkerAsleep, WorkerPlaces, mediaVars, rpcVars, sharedVars,
     workerVars
<1>6. FreshOK'
  BY DEF IInv, Begin, FreshOK, FlightOK, Done, Empty, Idle, MainOnly, NoCall, Sending,
     Transferring, Units, WorkerAsleep, mediaVars, rpcVars, sharedVars, workerVars
<1> QED
  BY <1>1, <1>2, <1>3, <1>4, <1>5, <1>6 DEF IInv

LEMMA SetCommandStep == ASSUME IInv, SetCommand PROVE IInv'
<1>1. TypeOK' /\ FirstCommandOK' /\ StopOK' /\ MainOK' /\ JobOK' /\ CodeOK' /\ StateOK' /\
   FlightOK' /\ FreshOK' /\ DumpOK' /\ RestoreOK' /\ SuccessIsComplete'
  BY DEF IInv, SetCommand, TypeOK, FirstCommandOK, StopOK, MainOK, JobOK, CodeOK, StateOK,
     FlightOK, FreshOK, DumpOK, RestoreOK, SuccessIsComplete, Banks, Calls, Commands, Complete,
     Contents, Done, Errors, Idle, Job, MainOnly, MainPlaces, NoCall, NoSignal, Operations,
     ResultCodes, RpcOK, Running, Sending, Signal, Transferring, Units, WorkerAsleep,
     WorkerPlaces, mediaVars, rpcVars, workerVars
<1>2. EndOK'
  BY DEF IInv, SetCommand, EndOK, FirstCommandOK, Complete, Idle, Job, MainOnly, NoSignal,
     Signal, Transferring, Units, WorkerAsleep, mediaVars, rpcVars, workerVars
<1> QED
  BY <1>1, <1>2 DEF IInv

LEMMA SetArgStep == ASSUME IInv, SetArg PROVE IInv'
<1>1. TypeOK' /\ FirstCommandOK' /\ StopOK' /\ MainOK' /\ JobOK' /\ CodeOK' /\ StateOK' /\
   FlightOK' /\ FreshOK' /\ DumpOK' /\ RestoreOK' /\ EndOK' /\ SuccessIsComplete'
  BY DEF IInv, SetArg, TypeOK, FirstCommandOK, StopOK, MainOK, JobOK, CodeOK, StateOK, FlightOK,
     FreshOK, DumpOK, RestoreOK, EndOK, SuccessIsComplete, Banks, Calls, Commands, Complete,
     Contents, Done, Errors, Idle, Job, MainOnly, MainPlaces, NoCall, NoSignal, Operations,
     ResultCodes, RpcOK, Running, Sending, Signal, Transferring, Units, WorkerAsleep,
     WorkerPlaces, mediaVars, rpcVars, workerVars
<1> QED
  BY <1>1 DEF IInv

LEMMA WakeWorkerStep == ASSUME IInv, WakeWorker PROVE IInv'
<1>1. TypeOK' /\ StopOK' /\ JobOK' /\ StateOK' /\ FlightOK' /\ FreshOK' /\ DumpOK' /\ RestoreOK'
   /\ EndOK' /\ SuccessIsComplete'
  BY DEF IInv, WakeWorker, TypeOK, StopOK, JobOK, StateOK, FlightOK, FreshOK, DumpOK, RestoreOK,
     EndOK, SuccessIsComplete, Banks, Calls, Commands, Complete, Contents, Done, Errors, Idle,
     Job, MainOnly, MainPlaces, NoCall, NoSignal, Operations, ResultCodes, RpcOK, Running,
     Sending, Signal, Transferring, Units, WakeupThread, WorkerPlaces, mediaVars, rpcVars,
     workerVars
<1>2. FirstCommandOK'
  BY DEF IInv, WakeWorker, FirstCommandOK, TypeOK, Banks, Calls, Commands, Contents, Errors,
     Idle, Job, MainOnly, MainPlaces, NoCall, NoSignal, Operations, ResultCodes, RpcOK, Signal,
     Transferring, Units, WakeupThread, WorkerAsleep, WorkerPlaces, mediaVars, rpcVars,
     workerVars
<1>3. MainOK'
  BY DEF IInv, WakeWorker, MainOK, StopOK, Done, Idle, Job, MainOnly, NoSignal, Signal,
     Transferring, WakeupThread, mediaVars, rpcVars, workerVars
<1>4. CodeOK'
  BY DEF IInv, WakeWorker, CodeOK, FirstCommandOK, Complete, Idle, Job, MainOnly, NoSignal,
     Running, Signal, Transferring, Units, WakeupThread, WorkerAsleep, mediaVars, rpcVars,
     workerVars
<1> QED
  BY <1>1, <1>2, <1>3, <1>4 DEF IInv

LEMMA WaitForWorkerStep == ASSUME IInv, WaitForWorker PROVE IInv'
<1>1. TypeOK' /\ MainOK' /\ JobOK' /\ CodeOK' /\ StateOK' /\ FlightOK' /\ FreshOK' /\ DumpOK' /\
   RestoreOK' /\ EndOK' /\ SuccessIsComplete'
  BY DEF IInv, WaitForWorker, TypeOK, MainOK, JobOK, CodeOK, StateOK, FlightOK, FreshOK, DumpOK,
     RestoreOK, EndOK, SuccessIsComplete, Banks, Calls, Commands, Complete, Contents, Done,
     Errors, Idle, Job, MainOnly, MainPlaces, NoCall, NoSignal, Operations, ResultCodes, RpcOK,
     Running, Sending, SleepThread, Transferring, Units, WorkerPlaces, mediaVars, rpcVars,
     workerVars
<1>2. FirstCommandOK'
  BY DEF IInv, WaitForWorker, FirstCommandOK, TypeOK, Banks, Calls, Commands, Contents, Errors,
     Idle, Job, MainOnly, MainPlaces, NoCall, NoSignal, Operations, ResultCodes, RpcOK, Signal,
     SleepThread, Transferring, Units, WorkerAsleep, WorkerPlaces, mediaVars, rpcVars,
     workerVars
<1>3. StopOK'
  BY DEF IInv, WaitForWorker, StopOK, TypeOK, Banks, Calls, Commands, Contents, Done, Errors,
     Idle, Job, MainOnly, MainPlaces, NoCall, NoSignal, Operations, ResultCodes, RpcOK, Signal,
     SleepThread, Transferring, Units, WorkerPlaces, mediaVars, rpcVars, workerVars
<1> QED
  BY <1>1, <1>2, <1>3 DEF IInv

LEMMA PollStep == ASSUME IInv, Poll PROVE IInv'
<1>1. TypeOK' /\ FirstCommandOK' /\ StopOK' /\ MainOK' /\ JobOK' /\ CodeOK' /\ FlightOK' /\
   FreshOK' /\ DumpOK' /\ RestoreOK' /\ EndOK' /\ SuccessIsComplete'
  BY DEF IInv, Poll, TypeOK, FirstCommandOK, StopOK, MainOK, JobOK, CodeOK, FlightOK, FreshOK,
     DumpOK, RestoreOK, EndOK, SuccessIsComplete, Banks, Calls, Commands, Complete, Contents,
     Done, Errors, Idle, Job, MainOnly, MainPlaces, NoCall, NoSignal, Operations, ResultCodes,
     RpcOK, Running, Sending, Signal, Transferring, Units, WorkerAsleep, WorkerPlaces,
     mediaVars, rpcVars, sharedVars, workerVars
<1>2. StateOK'
  BY DEF IInv, Poll, StateOK, FirstCommandOK, StopOK, CodeOK, Complete, Done, Idle, Job,
     MainOnly, NoSignal, Running, Sending, Signal, Transferring, Units, WorkerAsleep, mediaVars,
     rpcVars, sharedVars, workerVars
<1> QED
  BY <1>1, <1>2 DEF IInv

LEMMA CancelStep == ASSUME IInv, Cancel PROVE IInv'
<1>1. TypeOK' /\ FirstCommandOK' /\ MainOK' /\ JobOK' /\ CodeOK' /\ StateOK' /\ FlightOK' /\
   FreshOK' /\ DumpOK' /\ RestoreOK' /\ EndOK' /\ SuccessIsComplete'
  BY DEF IInv, Cancel, TypeOK, FirstCommandOK, MainOK, JobOK, CodeOK, StateOK, FlightOK,
     FreshOK, DumpOK, RestoreOK, EndOK, SuccessIsComplete, Banks, Calls, Commands, Complete,
     Contents, Done, Errors, Idle, Job, MainOnly, MainPlaces, NoCall, NoSignal, Operations,
     ResultCodes, RpcOK, Running, Sending, Signal, Transferring, Units, WorkerAsleep,
     WorkerPlaces, mediaVars, rpcVars, sharedVars, workerVars
<1>2. StopOK'
  BY DEF IInv, Cancel, StopOK, FirstCommandOK, Done, Idle, Job, MainOnly, NoSignal, Signal,
     Transferring, WorkerAsleep, mediaVars, rpcVars, sharedVars, workerVars
<1> QED
  BY <1>1, <1>2 DEF IInv

LEMMA ContinueStep == ASSUME IInv, Continue PROVE IInv'
<1>1. TypeOK' /\ FirstCommandOK' /\ StopOK' /\ JobOK' /\ CodeOK' /\ StateOK' /\ FlightOK' /\
   FreshOK' /\ DumpOK' /\ RestoreOK' /\ EndOK' /\ SuccessIsComplete'
  BY DEF IInv, Continue, TypeOK, FirstCommandOK, StopOK, JobOK, CodeOK, StateOK, FlightOK,
     FreshOK, DumpOK, RestoreOK, EndOK, SuccessIsComplete, Banks, Calls, Commands, Complete,
     Contents, Done, Errors, Idle, Job, MainOnly, MainPlaces, NoCall, NoSignal, Operations,
     ResultCodes, RpcOK, Running, Sending, Signal, Transferring, Units, WorkerAsleep,
     WorkerPlaces, mediaVars, rpcVars, sharedVars, workerVars
<1>2. MainOK'
  BY DEF IInv, Continue, MainOK, FirstCommandOK, StopOK, StateOK, Complete, Done, Idle, Job,
     MainOnly, NoSignal, Running, Sending, Signal, Transferring, Units, WorkerAsleep, mediaVars,
     rpcVars, sharedVars, workerVars
<1> QED
  BY <1>1, <1>2 DEF IInv

LEMMA CloseStep == ASSUME IInv, Close PROVE IInv'
<1>1. FirstCommandOK' /\ StopOK' /\ MainOK' /\ JobOK' /\ CodeOK' /\ FlightOK' /\ FreshOK' /\
   DumpOK' /\ RestoreOK' /\ EndOK' /\ SuccessIsComplete'
  BY DEF IInv, Close, FirstCommandOK, StopOK, MainOK, JobOK, CodeOK, FlightOK, FreshOK, DumpOK,
     RestoreOK, EndOK, SuccessIsComplete, Complete, Done, Idle, Job, MainOnly, NoCall, NoSignal,
     Running, Sending, Signal, Transferring, Units, WorkerAsleep, rpcVars, sharedVars, workerVars
<1>2. TypeOK'
  <2>1. target' \in [Units -> Contents]
    BY DEF IInv, Close, TypeOK, Contents
  <2> QED
    BY <2>1 DEF IInv, Close, TypeOK, MainOnly, MainPlaces, RpcOK, rpcVars, sharedVars, workerVars
<1>3. StateOK'
  BY DEF IInv, Close, StateOK, MainOK, Complete, Done, Idle, MainOnly, Running, Sending, rpcVars,
     sharedVars, workerVars
<1> QED
  BY <1>1, <1>2, <1>3 DEF IInv

LEMMA UnlockStep == ASSUME IInv, Unlock PROVE IInv'
<1>1. TypeOK' /\ FirstCommandOK' /\ StopOK' /\ MainOK' /\ JobOK' /\ CodeOK' /\ StateOK' /\
   FlightOK' /\ FreshOK' /\ DumpOK' /\ RestoreOK' /\ EndOK' /\ SuccessIsComplete'
  BY DEF IInv, Unlock, TypeOK, FirstCommandOK, StopOK, MainOK, JobOK, CodeOK, StateOK, FlightOK,
     FreshOK, DumpOK, RestoreOK, EndOK, SuccessIsComplete, Banks, Calls, Commands, Complete,
     Contents, Done, Errors, Idle, Job, MainOnly, MainPlaces, NoCall, NoSignal, Operations,
     ResultCodes, RpcOK, Running, Sending, Signal, Transferring, Units, WorkerAsleep,
     WorkerPlaces, mediaVars, rpcVars, sharedVars, workerVars
<1> QED
  BY <1>1 DEF IInv

LEMMA ReturnStep == ASSUME IInv, Return PROVE IInv'
<1>1. FirstCommandOK' /\ StopOK' /\ MainOK' /\ JobOK' /\ CodeOK' /\ StateOK' /\ FlightOK' /\
   FreshOK' /\ EndOK'
  BY DEF IInv, Return, FirstCommandOK, StopOK, MainOK, JobOK, CodeOK, StateOK, FlightOK,
     FreshOK, EndOK, Complete, Done, Idle, Job, NoCall, NoSignal, ResetRpc, Running, Sending,
     Signal, Transferring, Units, WorkerAsleep, mediaVars, sharedVars, workerVars
<1>2. TypeOK'
  BY UnitsAssumption DEF IInv, Return, TypeOK, Banks, Calls, Commands, Contents, Errors,
     MainPlaces, NoCall, Operations, ResetRpc, ResultCodes, RpcOK, Transferring, Units,
     WorkerPlaces, mediaVars, sharedVars, workerVars
<1>3. DumpOK'
  BY DEF IInv, Return, DumpOK, MainOK, Done, Idle, NoCall, NoSignal, ResetRpc, Transferring,
     Units, mediaVars, sharedVars, workerVars
<1>4. RestoreOK'
  BY DEF IInv, Return, RestoreOK, MainOK, Done, Idle, NoCall, NoSignal, ResetRpc, Transferring,
     Units, mediaVars, sharedVars, workerVars
<1>5. SuccessIsComplete'
  BY DEF IInv, Return, SuccessIsComplete, StateOK, Complete, Idle, NoCall, ResetRpc, Running,
     Sending, Units, mediaVars, sharedVars, workerVars
<1> QED
  BY <1>1, <1>2, <1>3, <1>4, <1>5 DEF IInv

LEMMA PowerOffStep == ASSUME IInv, PowerOff PROVE IInv'
<1>1. TypeOK' /\ FirstCommandOK' /\ StopOK' /\ MainOK' /\ JobOK' /\ CodeOK' /\ StateOK' /\
   FlightOK' /\ FreshOK' /\ DumpOK' /\ RestoreOK' /\ EndOK' /\ SuccessIsComplete'
  BY DEF IInv, PowerOff, TypeOK, FirstCommandOK, StopOK, MainOK, JobOK, CodeOK, StateOK,
     FlightOK, FreshOK, DumpOK, RestoreOK, EndOK, SuccessIsComplete, Banks, Calls, Commands,
     Complete, Contents, Done, Errors, Idle, Job, MainOnly, MainPlaces, NoCall, NoSignal,
     Operations, ResultCodes, RpcOK, Running, Sending, Signal, Transferring, Units,
     WorkerAsleep, WorkerPlaces, mediaVars, rpcVars, sharedVars, workerVars
<1> QED
  BY <1>1 DEF IInv

LEMMA GetArgStep == ASSUME IInv, GetArg PROVE IInv'
<1>1. TypeOK' /\ FirstCommandOK' /\ StopOK' /\ MainOK' /\ JobOK' /\ CodeOK' /\ StateOK' /\
   FlightOK' /\ FreshOK' /\ DumpOK' /\ RestoreOK' /\ EndOK' /\ SuccessIsComplete'
  BY DEF IInv, GetArg, TypeOK, FirstCommandOK, StopOK, MainOK, JobOK, CodeOK, StateOK, FlightOK,
     FreshOK, DumpOK, RestoreOK, EndOK, SuccessIsComplete, Banks, Calls, Commands, Complete,
     Contents, Done, Errors, Idle, Job, MainPlaces, NoCall, NoSignal, Operations, ResultCodes,
     RpcOK, Running, Sending, Signal, Transferring, Units, WorkerAsleep, WorkerOnly,
     WorkerPlaces, mainVars, mediaVars, rpcVars, sharedVars
<1> QED
  BY <1>1 DEF IInv

LEMMA GetCmdStep == ASSUME IInv, GetCmd PROVE IInv'
<1>1. TypeOK' /\ StopOK' /\ MainOK' /\ JobOK' /\ CodeOK' /\ FreshOK' /\ DumpOK' /\ RestoreOK' /\
   EndOK' /\ SuccessIsComplete'
  BY DEF IInv, GetCmd, TypeOK, StopOK, MainOK, JobOK, CodeOK, FreshOK, DumpOK, RestoreOK, EndOK,
     SuccessIsComplete, Banks, Calls, Commands, Complete, Contents, Done, Errors, Idle, Job,
     MainPlaces, NoCall, NoSignal, Operations, ResultCodes, RpcOK, Running, Sending, Signal,
     Transferring, Units, WorkerOnly, WorkerPlaces, mainVars, mediaVars, rpcVars, sharedVars
<1>2. FirstCommandOK'
  BY DEF IInv, GetCmd, FirstCommandOK, TypeOK, Banks, Calls, Commands, Contents, Errors, Idle,
     Job, MainPlaces, NoCall, NoSignal, Operations, ResultCodes, RpcOK, Signal, Transferring,
     Units, WorkerAsleep, WorkerOnly, WorkerPlaces, mainVars, mediaVars, rpcVars, sharedVars
<1>3. StateOK'
  BY DEF IInv, GetCmd, StateOK, FirstCommandOK, StopOK, Complete, Done, Idle, Job, NoSignal,
     Operations, Running, Sending, Signal, Transferring, Units, WorkerAsleep, WorkerOnly,
     mainVars, mediaVars, rpcVars, sharedVars
<1>4. FlightOK'
  BY DEF IInv, GetCmd, FlightOK, FirstCommandOK, StopOK, MainOK, FreshOK, TypeOK, Banks, Calls,
     Commands, Contents, Done, Errors, Idle, Job, MainPlaces, NoCall, NoSignal, Operations,
     ResultCodes, RpcOK, Sending, Signal, Transferring, Units, WorkerAsleep, WorkerOnly,
     WorkerPlaces, mainVars, mediaVars, rpcVars, sharedVars
<1> QED
  BY <1>1, <1>2, <1>3, <1>4 DEF IInv

LEMMA SleepStep == ASSUME IInv, Sleep PROVE IInv'
<1>1. TypeOK' /\ StopOK' /\ MainOK' /\ JobOK' /\ CodeOK' /\ StateOK' /\ FlightOK' /\ FreshOK' /\
   DumpOK' /\ RestoreOK' /\ EndOK' /\ SuccessIsComplete'
  BY DEF IInv, Sleep, TypeOK, StopOK, MainOK, JobOK, CodeOK, StateOK, FlightOK, FreshOK, DumpOK,
     RestoreOK, EndOK, SuccessIsComplete, Banks, Calls, Commands, Complete, Contents, Done,
     Errors, Idle, Job, MainPlaces, NoCall, NoSignal, Operations, ResultCodes, RpcOK, Running,
     Sending, Signal, SleepThread, Transferring, Units, WorkerOnly, WorkerPlaces, mainVars,
     mediaVars, rpcVars
<1>2. FirstCommandOK'
  BY DEF IInv, Sleep, FirstCommandOK, TypeOK, Banks, Calls, Commands, Contents, Errors, Idle,
     Job, MainPlaces, NoCall, NoSignal, Operations, ResultCodes, RpcOK, Signal, SleepThread,
     Transferring, Units, WorkerAsleep, WorkerOnly, WorkerPlaces, mainVars, mediaVars, rpcVars
<1> QED
  BY <1>1, <1>2 DEF IInv

LEMMA AcknowledgeStep == ASSUME IInv, Acknowledge PROVE IInv'
<1>1. TypeOK' /\ MainOK' /\ CodeOK' /\ StateOK' /\ FlightOK' /\ DumpOK' /\ RestoreOK' /\ EndOK'
   /\ SuccessIsComplete'
  BY DEF IInv, Acknowledge, TypeOK, MainOK, CodeOK, StateOK, FlightOK, DumpOK, RestoreOK, EndOK,
     SuccessIsComplete, Banks, Calls, Commands, Complete, Contents, Done, Errors, Idle, Job,
     MainPlaces, NoCall, NoSignal, Operations, ResultCodes, RpcOK, Running, Sending,
     SetWorkerThreadCommand, Transferring, Units, WakeupThread, WorkerOnly, WorkerPlaces,
     mainVars, mediaVars, rpcVars
<1>2. FirstCommandOK'
  BY DEF IInv, Acknowledge, FirstCommandOK, TypeOK, Banks, Calls, Commands, Contents, Errors,
     Idle, Job, MainPlaces, NoCall, NoSignal, Operations, ResultCodes, RpcOK,
     SetWorkerThreadCommand, Signal, Transferring, Units, WakeupThread, WorkerAsleep,
     WorkerOnly, WorkerPlaces, mainVars, mediaVars, rpcVars
<1>3. StopOK'
  BY DEF IInv, Acknowledge, StopOK, TypeOK, Banks, Calls, Commands, Contents, Done, Errors,
     Idle, Job, MainPlaces, NoCall, NoSignal, Operations, ResultCodes, RpcOK,
     SetWorkerThreadCommand, Signal, Transferring, Units, WakeupThread, WorkerOnly,
     WorkerPlaces, mainVars, mediaVars, rpcVars
<1>4. JobOK'
  BY DEF IInv, Acknowledge, JobOK, FirstCommandOK, StopOK, MainOK, TypeOK, Banks, Calls,
     Commands, Contents, Done, Errors, Idle, Job, MainPlaces, NoCall, NoSignal, Operations,
     ResultCodes, RpcOK, SetWorkerThreadCommand, Signal, Transferring, Units, WakeupThread,
     WorkerAsleep, WorkerOnly, WorkerPlaces, mainVars, mediaVars, rpcVars
<1>5. FreshOK'
  BY DEF IInv, Acknowledge, FreshOK, FirstCommandOK, StopOK, MainOK, TypeOK, Banks, Calls,
     Commands, Contents, Done, Errors, Idle, Job, MainPlaces, NoCall, NoSignal, Operations,
     ResultCodes, RpcOK, Sending, SetWorkerThreadCommand, Signal, Transferring, Units,
     WakeupThread, WorkerAsleep, WorkerOnly, WorkerPlaces, mainVars, mediaVars, rpcVars
<1> QED
  BY <1>1, <1>2, <1>3, <1>4, <1>5 DEF IInv

LEMMA StartStep == ASSUME IInv, Start PROVE IInv'
<1>1. TypeOK' /\ FirstCommandOK' /\ StopOK' /\ MainOK' /\ JobOK' /\ CodeOK' /\ StateOK' /\
   FlightOK' /\ FreshOK' /\ DumpOK' /\ RestoreOK' /\ EndOK' /\ SuccessIsComplete'
  BY DEF IInv, Start, TypeOK, FirstCommandOK, StopOK, MainOK, JobOK, CodeOK, StateOK, FlightOK,
     FreshOK, DumpOK, RestoreOK, EndOK, SuccessIsComplete, Banks, Calls, Commands, Complete,
     Contents, Done, Errors, Idle, Job, MainPlaces, NoCall, NoSignal, Operations, ResultCodes,
     RpcOK, Running, Sending, Signal, SleepThread, Transferring, Units, WorkerAsleep,
     WorkerOnly, WorkerPlaces, mainVars, mediaVars, rpcVars
<1> QED
  BY <1>1 DEF IInv

LEMMA AllocateStep == ASSUME IInv, Allocate PROVE IInv'
<1>1. FirstCommandOK' /\ StopOK' /\ MainOK' /\ JobOK' /\ CodeOK' /\ StateOK' /\ FlightOK' /\
   FreshOK' /\ RestoreOK' /\ EndOK' /\ SuccessIsComplete'
  BY DEF IInv, Allocate, FirstCommandOK, StopOK, MainOK, JobOK, CodeOK, StateOK, FlightOK,
     FreshOK, RestoreOK, EndOK, SuccessIsComplete, Banks, Complete, Done, EmptyBuffers, Idle,
     Job, NoCall, NoSignal, Running, Sending, Signal, Transferring, Units, WorkerAsleep,
     WorkerOnly, mainVars, mediaVars, rpcVars, sharedVars
<1>2. TypeOK'
  BY AllocateType DEF IInv
<1>3. DumpOK'
  BY DEF IInv, Allocate, DumpOK, FreshOK, Banks, EmptyBuffers, Idle, NoCall, Sending,
     Transferring, Units, WorkerOnly, mainVars, mediaVars, rpcVars, sharedVars
<1> QED
  BY <1>1, <1>2, <1>3 DEF IInv

LEMMA LoopStep == ASSUME IInv, Loop PROVE IInv'
<1>1. TypeOK' /\ FirstCommandOK' /\ StopOK' /\ MainOK' /\ JobOK' /\ CodeOK' /\ StateOK' /\
   FreshOK' /\ SuccessIsComplete'
  BY DEF IInv, Loop, TypeOK, FirstCommandOK, StopOK, MainOK, JobOK, CodeOK, StateOK, FreshOK,
     SuccessIsComplete, Banks, Calls, Commands, Complete, Contents, Done, Errors, Idle, Job,
     MainPlaces, NoCall, NoSignal, Operations, ResultCodes, RpcOK, Running, Sending, Signal,
     Transferring, Units, WorkerAsleep, WorkerOnly, WorkerPlaces, mainVars, mediaVars, rpcVars,
     sharedVars
<1>2. FlightOK'
  BY DEF IInv, Loop, FlightOK, JobOK, Done, Idle, Job, NoCall, Transferring, WorkerOnly,
     mainVars, mediaVars, rpcVars, sharedVars
<1>3. DumpOK'
  BY UnitsAssumption DEF IInv, Loop, DumpOK, TypeOK, Banks, Calls, Commands, Contents, Errors,
     MainPlaces, NoCall, Operations, ResultCodes, RpcOK, Transferring, Units, WorkerOnly,
     WorkerPlaces, mainVars, mediaVars, rpcVars, sharedVars
<1>4. RestoreOK'
  BY UnitsAssumption DEF IInv, Loop, RestoreOK, TypeOK, Banks, Calls, Commands, Contents,
     Errors, MainPlaces, NoCall, Operations, ResultCodes, RpcOK, Transferring, Units,
     WorkerOnly, WorkerPlaces, mainVars, mediaVars, rpcVars, sharedVars
<1>5. EndOK'
  BY DEF IInv, Loop, EndOK, JobOK, TypeOK, Banks, Calls, Commands, Complete, Contents, Errors,
     Job, MainPlaces, NoCall, Operations, ResultCodes, RpcOK, Transferring, Units, WorkerOnly,
     WorkerPlaces, mainVars, mediaVars, rpcVars, sharedVars
<1> QED
  BY <1>1, <1>2, <1>3, <1>4, <1>5 DEF IInv

LEMMA CallToolsStep == ASSUME IInv, CallTools PROVE IInv'
<1>1. FirstCommandOK' /\ StopOK' /\ MainOK' /\ JobOK' /\ CodeOK' /\ StateOK' /\ FreshOK' /\
   DumpOK' /\ EndOK' /\ SuccessIsComplete'
  BY DEF IInv, CallTools, FirstCommandOK, StopOK, MainOK, JobOK, CodeOK, StateOK, FreshOK,
     DumpOK, EndOK, SuccessIsComplete, Complete, Done, Idle, Job, MCToolsCallFails,
     MCToolsReadCluster, MCToolsWriteBlock, NextUnit, NoCall, NoSignal, Running, Sending,
     Signal, Transferring, Units, WorkerAsleep, WorkerOnly, mainVars, mediaVars, rpcVars,
     sharedVars
<1>2. TypeOK'
  BY UnitsAssumption DEF IInv, CallTools, TypeOK, DumpOK, RestoreOK, Banks, Calls, Commands,
     Contents, Errors, MCToolsCallFails, MCToolsReadCluster, MCToolsWriteBlock, MainPlaces,
     NextUnit, NoCall, Operations, ResultCodes, RpcOK, Transferring, Units, WorkerOnly,
     WorkerPlaces, mainVars, mediaVars, rpcVars, sharedVars
<1>3. FlightOK'
  BY DEF IInv, CallTools, FlightOK, MainOK, JobOK, Done, Idle, Job, MCToolsCallFails,
     MCToolsReadCluster, MCToolsWriteBlock, NextUnit, NoCall, NoSignal, Transferring,
     WorkerOnly, mainVars, mediaVars, rpcVars, sharedVars
<1>4. RestoreOK'
  BY DEF IInv, CallTools, RestoreOK, TypeOK, Banks, Calls, Commands, Contents, Errors,
     MCToolsCallFails, MCToolsReadCluster, MCToolsWriteBlock, MainPlaces, NextUnit, NoCall,
     Operations, ResultCodes, RpcOK, Transferring, Units, WorkerOnly, WorkerPlaces, mainVars,
     mediaVars, rpcVars, sharedVars
<1> QED
  BY <1>1, <1>2, <1>3, <1>4 DEF IInv

LEMMA WriteImageStep == ASSUME IInv, WriteImage PROVE IInv'
<1>1. FirstCommandOK' /\ StopOK' /\ MainOK' /\ JobOK' /\ CodeOK' /\ FlightOK' /\ FreshOK' /\
   RestoreOK' /\ EndOK'
  BY DEF IInv, WriteImage, FirstCommandOK, StopOK, MainOK, JobOK, CodeOK, FlightOK, FreshOK,
     RestoreOK, EndOK, AppendBuffer, Complete, Done, FailsWith, Idle, Job, NoCall, NoSignal,
     Running, Sending, Signal, Transferring, Units, WorkerAsleep, WorkerOnly, mainVars,
     mediaVars, rpcVars, sharedVars
<1>2. TypeOK'
  BY DEF IInv, WriteImage, TypeOK, DumpOK, RestoreOK, JobOK, AppendBuffer, Banks, Calls,
     Commands, Contents, Errors, FailsWith, Job, MainPlaces, NoCall, Operations, ResultCodes,
     RpcOK, Transferring, Units, WorkerOnly, WorkerPlaces, mainVars, mediaVars, rpcVars,
     sharedVars
<1>3. StateOK'
  BY DEF IInv, WriteImage, StateOK, StopOK, MainOK, TypeOK, AppendBuffer, Banks, Calls,
     Commands, Complete, Contents, Done, Errors, FailsWith, Idle, Job, MainPlaces, NoCall,
     NoSignal, Operations, ResultCodes, RpcOK, Running, Sending, Signal, Transferring, Units,
     WorkerOnly, WorkerPlaces, mainVars, mediaVars, rpcVars, sharedVars
<1>4. DumpOK'
  BY UnitsAssumption DEF IInv, WriteImage, DumpOK, FirstCommandOK, StopOK, TypeOK, AppendBuffer,
     Banks, Calls, Commands, Contents, Done, Errors, FailsWith, Idle, Job, MainPlaces, NoCall,
     NoSignal, Operations, ResultCodes, RpcOK, Signal, Transferring, Units, WorkerAsleep,
     WorkerOnly, WorkerPlaces, mainVars, mediaVars, rpcVars, sharedVars
<1>5. SuccessIsComplete'
  BY DEF IInv, WriteImage, SuccessIsComplete, MainOK, AppendBuffer, Done, FailsWith, Idle,
     NoSignal, Units, WorkerOnly, mainVars, mediaVars, rpcVars, sharedVars
<1> QED
  BY <1>1, <1>2, <1>3, <1>4, <1>5 DEF IInv

LEMMA ReadImageStep == ASSUME IInv, ReadImage PROVE IInv'
<1>1. FirstCommandOK' /\ StopOK' /\ MainOK' /\ JobOK' /\ CodeOK' /\ StateOK' /\ FlightOK' /\
   FreshOK' /\ EndOK' /\ SuccessIsComplete'
  BY DEF IInv, ReadImage, FirstCommandOK, StopOK, MainOK, JobOK, CodeOK, StateOK, FlightOK,
     FreshOK, EndOK, SuccessIsComplete, Complete, Done, Idle, Job, NoCall, NoSignal, Running,
     Sending, Signal, Transferring, Units, WorkerAsleep, WorkerOnly, mainVars, mediaVars,
     rpcVars, sharedVars
<1>2. TypeOK'
  BY UnitsAssumption DEF IInv, ReadImage, TypeOK, RestoreOK, EndOK, Banks, Calls, Commands,
     Complete, Contents, Errors, MainPlaces, NoCall, Operations, ResultCodes, RpcOK,
     Transferring, Units, WorkerOnly, WorkerPlaces, mainVars, mediaVars, rpcVars, sharedVars
<1>3. DumpOK'
  BY DEF IInv, ReadImage, DumpOK, EndOK, Complete, NoCall, Transferring, Units, WorkerOnly,
     mainVars, mediaVars, rpcVars, sharedVars
<1>4. RestoreOK'
  BY DEF IInv, ReadImage, RestoreOK, TypeOK, Banks, Calls, Commands, Contents, Errors,
     MainPlaces, NoCall, Operations, ResultCodes, RpcOK, Transferring, Units, WorkerOnly,
     WorkerPlaces, mainVars, mediaVars, rpcVars, sharedVars
<1> QED
  BY <1>1, <1>2, <1>3, <1>4 DEF IInv

LEMMA SyncUnitStep == ASSUME IInv, SyncUnit PROVE IInv'
<1>1. FirstCommandOK' /\ StopOK' /\ MainOK' /\ JobOK' /\ CodeOK' /\ StateOK' /\ FreshOK' /\
   EndOK' /\ SuccessIsComplete'
  BY DEF IInv, SyncUnit, FirstCommandOK, StopOK, MainOK, JobOK, CodeOK, StateOK, FreshOK, EndOK,
     SuccessIsComplete, Complete, Done, Idle, Job, MCToolsSync, NextUnit, NoCall, NoSignal,
     Running, Sending, Signal, Transferring, Units, WorkerAsleep, WorkerOnly, mainVars,
     mediaVars, rpcVars, sharedVars
<1>2. TypeOK'
  BY UnitsAssumption DEF IInv, SyncUnit, TypeOK, DumpOK, Banks, Calls, Commands, Contents,
     Errors, MCToolsSync, MainPlaces, NextUnit, NoCall, Operations, ResultCodes, RpcOK,
     Transferring, Units, WorkerOnly, WorkerPlaces, mainVars, mediaVars, rpcVars, sharedVars
<1>3. FlightOK'
  BY DEF IInv, SyncUnit, FlightOK, TypeOK, Banks, Calls, Commands, Contents, Done, Errors, Idle,
     MCToolsSync, MainPlaces, NextUnit, NoCall, Operations, ResultCodes, RpcOK, Transferring,
     Units, WorkerOnly, WorkerPlaces, mainVars, mediaVars, rpcVars, sharedVars
<1>4. DumpOK'
  BY DEF IInv, SyncUnit, DumpOK, TypeOK, Banks, Calls, Commands, Contents, Errors, MCToolsSync,
     MainPlaces, NextUnit, NoCall, Operations, ResultCodes, RpcOK, Transferring, Units,
     WorkerOnly, WorkerPlaces, mainVars, mediaVars, rpcVars, sharedVars
<1>5. RestoreOK'
  BY DEF IInv, SyncUnit, RestoreOK, TypeOK, Banks, Calls, Commands, Contents, Errors,
     MCToolsSync, MainPlaces, NextUnit, NoCall, Operations, ResultCodes, RpcOK, Transferring,
     Units, WorkerOnly, WorkerPlaces, mainVars, mediaVars, rpcVars, sharedVars
<1> QED
  BY <1>1, <1>2, <1>3, <1>4, <1>5 DEF IInv

LEMMA LastClusterStep == ASSUME IInv, LastCluster PROVE IInv'
<1>1. FirstCommandOK' /\ StopOK' /\ MainOK' /\ JobOK' /\ CodeOK' /\ FreshOK' /\ DumpOK' /\
   RestoreOK'
  BY DEF IInv, LastCluster, FirstCommandOK, StopOK, MainOK, JobOK, CodeOK, FreshOK, DumpOK,
     RestoreOK, AppendBuffer, Complete, Done, FailsWith, Idle, Job, NoCall, NoSignal, Running,
     Sending, Signal, Transferring, Units, WorkerAsleep, WorkerOnly, mainVars, mediaVars,
     rpcVars, sharedVars
<1>2. TypeOK'
  BY UnitsAssumption, SMTT(30) DEF IInv, LastCluster, TypeOK, DumpOK, EndOK, AppendBuffer, Banks, Calls,
     Commands, Complete, Contents, Errors, FailsWith, MainPlaces, NoCall, Operations,
     ResultCodes, RpcOK, Transferring, Units, WorkerOnly, WorkerPlaces, mainVars, mediaVars,
     rpcVars, sharedVars
<1>3. StateOK'
  BY DEF IInv, LastCluster, StateOK, StopOK, MainOK, TypeOK, AppendBuffer, Banks, Calls,
     Commands, Complete, Contents, Done, Errors, FailsWith, Idle, Job, MainPlaces, NoCall,
     NoSignal, Operations, ResultCodes, RpcOK, Running, Sending, Signal, Transferring, Units,
     WorkerOnly, WorkerPlaces, mainVars, mediaVars, rpcVars, sharedVars
<1>4. FlightOK'
  BY DEF IInv, LastCluster, FlightOK, JobOK, AppendBuffer, Done, FailsWith, Idle, Job, NoCall,
     Transferring, WorkerOnly, mainVars, mediaVars, rpcVars, sharedVars
<1>5. EndOK'
  BY DEF IInv, LastCluster, EndOK, JobOK, FlightOK, DumpOK, TypeOK, AppendBuffer, Banks, Calls,
     Commands, Complete, Contents, Done, Errors, FailsWith, Idle, Job, MainPlaces, NoCall,
     Operations, ResultCodes, RpcOK, Transferring, Units, WorkerOnly, WorkerPlaces, mainVars,
     mediaVars, rpcVars, sharedVars
<1>6. SuccessIsComplete'
  BY DEF IInv, LastCluster, SuccessIsComplete, MainOK, AppendBuffer, Done, FailsWith, Idle,
     NoSignal, Units, WorkerOnly, mainVars, mediaVars, rpcVars, sharedVars
<1> QED
  BY <1>1, <1>2, <1>3, <1>4, <1>5, <1>6 DEF IInv

LEMMA LastBlockStep == ASSUME IInv, LastBlock PROVE IInv'
<1>1. TypeOK' /\ FirstCommandOK' /\ StopOK' /\ MainOK' /\ JobOK' /\ CodeOK' /\ StateOK' /\
   FreshOK' /\ DumpOK' /\ RestoreOK' /\ SuccessIsComplete'
  BY DEF IInv, LastBlock, TypeOK, FirstCommandOK, StopOK, MainOK, JobOK, CodeOK, StateOK,
     FreshOK, DumpOK, RestoreOK, SuccessIsComplete, Banks, Calls, Commands, Complete, Contents,
     Done, Errors, Idle, Job, MCToolsSync, MainPlaces, NoCall, NoSignal, Operations,
     ResultCodes, RpcOK, Running, Sending, Signal, Transferring, Units, WorkerAsleep,
     WorkerOnly, WorkerPlaces, mainVars, mediaVars, rpcVars, sharedVars
<1>2. FlightOK'
  BY DEF IInv, LastBlock, FlightOK, TypeOK, Banks, Calls, Commands, Contents, Done, Errors,
     Idle, MCToolsSync, MainPlaces, NoCall, Operations, ResultCodes, RpcOK, Transferring, Units,
     WorkerOnly, WorkerPlaces, mainVars, mediaVars, rpcVars, sharedVars
<1>3. EndOK'
  BY DEF IInv, LastBlock, EndOK, RestoreOK, TypeOK, Banks, Calls, Commands, Complete, Contents,
     Errors, MCToolsSync, MainPlaces, NoCall, Operations, ResultCodes, RpcOK, Transferring,
     Units, WorkerOnly, WorkerPlaces, mainVars, mediaVars, rpcVars, sharedVars
<1> QED
  BY <1>1, <1>2, <1>3 DEF IInv

LEMMA FreeStep == ASSUME IInv, Free PROVE IInv'
<1>1. FirstCommandOK' /\ StopOK' /\ MainOK' /\ JobOK' /\ CodeOK' /\ StateOK' /\ FlightOK' /\
   FreshOK' /\ DumpOK' /\ RestoreOK' /\ EndOK' /\ SuccessIsComplete'
  BY DEF IInv, Free, FirstCommandOK, StopOK, MainOK, JobOK, CodeOK, StateOK, FlightOK, FreshOK,
     DumpOK, RestoreOK, EndOK, SuccessIsComplete, Complete, Done, Idle, Job, NoCall, NoSignal,
     Running, Sending, Signal, Transferring, Units, WorkerAsleep, WorkerOnly, mainVars,
     mediaVars, rpcVars, sharedVars
<1>2. TypeOK'
  BY FreeType DEF IInv
<1> QED
  BY <1>1, <1>2 DEF IInv

LEMMA CheckStopStep == ASSUME IInv, CheckStop PROVE IInv'
<1>1. TypeOK' /\ FirstCommandOK' /\ MainOK' /\ JobOK' /\ StateOK' /\ FlightOK' /\ FreshOK' /\
   DumpOK' /\ RestoreOK' /\ EndOK' /\ SuccessIsComplete'
  BY DEF IInv, CheckStop, TypeOK, FirstCommandOK, MainOK, JobOK, StateOK, FlightOK, FreshOK,
     DumpOK, RestoreOK, EndOK, SuccessIsComplete, Banks, Calls, Commands, Complete, Contents,
     Done, Errors, Idle, Job, MainPlaces, NoCall, NoSignal, Operations, ResultCodes, RpcOK,
     Running, Sending, SetWorkerThreadCommand, Signal, Transferring, Units, WakeupThread,
     WorkerAsleep, WorkerOnly, WorkerPlaces, mainVars, mediaVars, rpcVars
<1>2. StopOK'
  BY DEF IInv, CheckStop, StopOK, TypeOK, Banks, Calls, Commands, Contents, Done, Errors, Idle,
     Job, MainPlaces, NoCall, NoSignal, Operations, ResultCodes, RpcOK, SetWorkerThreadCommand,
     Signal, Transferring, Units, WakeupThread, WorkerOnly, WorkerPlaces, mainVars, mediaVars,
     rpcVars
<1>3. CodeOK'
  BY DEF IInv, CheckStop, CodeOK, EndOK, Complete, Idle, Job, Running, SetWorkerThreadCommand,
     Transferring, Units, WakeupThread, WorkerOnly, mainVars, mediaVars, rpcVars
<1> QED
  BY <1>1, <1>2, <1>3 DEF IInv

LEMMA FinishStep == ASSUME IInv, Finish PROVE IInv'
<1>1. TypeOK' /\ FirstCommandOK' /\ StopOK' /\ MainOK' /\ JobOK' /\ StateOK' /\ FlightOK' /\
   DumpOK' /\ RestoreOK' /\ EndOK' /\ SuccessIsComplete'
  BY DEF IInv, Finish, TypeOK, FirstCommandOK, StopOK, MainOK, JobOK, StateOK, FlightOK, DumpOK,
     RestoreOK, EndOK, SuccessIsComplete, Banks, Calls, Commands, Complete, Contents, Done,
     Errors, Idle, Job, MainPlaces, NoCall, NoSignal, Operations, ResultCodes, RpcOK, Running,
     Sending, Signal, Transferring, Units, WorkerAsleep, WorkerOnly, WorkerPlaces, mainVars,
     mediaVars, rpcVars
<1>2. CodeOK'
  BY DEF IInv, Finish, CodeOK, FirstCommandOK, Complete, Idle, Job, NoSignal, Running, Signal,
     Transferring, Units, WorkerAsleep, WorkerOnly, mainVars, mediaVars, rpcVars
<1>3. FreshOK'
  BY DEF IInv, Finish, FreshOK, FirstCommandOK, Idle, Job, NoCall, NoSignal, Sending, Signal,
     Transferring, WorkerAsleep, WorkerOnly, mainVars, mediaVars, rpcVars
<1> QED
  BY <1>1, <1>2, <1>3 DEF IInv

LEMMA ServeCallStep == ASSUME IInv, ServeCall PROVE IInv'
<1>1. FirstCommandOK' /\ StopOK' /\ MainOK' /\ JobOK' /\ FlightOK' /\ FreshOK'
  BY DEF IInv, ServeCall, FirstCommandOK, StopOK, MainOK, JobOK, FlightOK, FreshOK, Done, Idle,
     Job, NoCall, NoSignal, RpcEnds, Sending, Signal, Transferring, WorkerAsleep, mainVars,
     sharedVars
<1>2. TypeOK'
  BY ServeCallType DEF IInv
<1>3. CodeOK'
  BY DEF IInv, ServeCall, CodeOK, FlightOK, Complete, Done, Idle, Job, NoCall, RpcEnds, Running,
     Transferring, Units, mainVars, sharedVars
<1>4. StateOK'
  BY UnitsAssumption DEF IInv, ServeCall, StateOK, StopOK, MainOK, FlightOK, TypeOK, Banks,
     Calls, Commands, Complete, Contents, Done, Errors, Idle, Job, MainPlaces, NoCall, NoSignal,
     Operations, ResultCodes, RpcEnds, RpcOK, Running, Sending, Signal, Transferring, Units,
     WorkerPlaces, mainVars, sharedVars
<1>5. DumpOK'
  BY UnitsAssumption DEF IInv, ServeCall, DumpOK, JobOK, FlightOK, TypeOK, Banks, Calls,
     Commands, Contents, Done, Errors, Idle, Job, MainPlaces, NoCall, Operations, ResultCodes,
     RpcEnds, RpcOK, Transferring, Units, WorkerPlaces, mainVars, sharedVars
<1>6. RestoreOK'
  BY UnitsAssumption DEF IInv, ServeCall, RestoreOK, JobOK, FlightOK, TypeOK, Banks, Calls,
     Commands, Contents, Done, Errors, Idle, Job, MainPlaces, NoCall, Operations, ResultCodes,
     RpcEnds, RpcOK, Transferring, Units, WorkerPlaces, mainVars, sharedVars
<1>7. EndOK'
  BY DEF IInv, ServeCall, EndOK, FlightOK, Complete, Done, Idle, NoCall, RpcEnds, Transferring,
     Units, mainVars, sharedVars
<1>8. SuccessIsComplete'
  BY DEF IInv, ServeCall, SuccessIsComplete, FlightOK, Done, Idle, NoCall, RpcEnds,
     Transferring, Units, mainVars, sharedVars
<1> QED
  BY <1>1, <1>2, <1>3, <1>4, <1>5, <1>6, <1>7, <1>8 DEF IInv

-----------------------------------------------------------------------------
(* The invariant *)

LEMMA InitInv == Init => IInv
<1> SUFFICES ASSUME Init PROVE IInv
  OBVIOUS
<1>1. TypeOK
  <2>1. RpcOK /\ buffer \in [Banks -> Contents] /\ target \in [Units -> Contents]
    BY UnitsAssumption DEF Init, InitRpc, RpcOK, NoCall, Calls, Units, Contents, Banks, Empty, EmptyBuffers
  <2>2. allocated \in BOOLEAN /\ wakeups \in [{"main", "worker"} -> Nat]
    BY DEF Init
  <2> QED
    BY <2>1, <2>2, UnitsAssumption DEF Init, TypeOK, MainPlaces, WorkerPlaces, Transferring, Operations,
       Commands, ResultCodes, Errors, Banks
<1>2. FirstCommandOK /\ StopOK /\ MainOK /\ JobOK /\ StateOK /\ SuccessIsComplete
  BY DEF Init, FirstCommandOK, StopOK, MainOK, JobOK, StateOK, SuccessIsComplete, NoSignal, Signal, Done, Idle,
     Job, Transferring, Sending, Running
<1>3. CodeOK /\ FlightOK /\ FreshOK /\ DumpOK /\ RestoreOK /\ EndOK
  BY DEF Init, InitRpc, NoCall, CodeOK, FlightOK, FreshOK, DumpOK, RestoreOK, EndOK, Done, Idle, Job,
     Transferring, Sending, Running
<1> QED
  BY <1>1, <1>2, <1>3 DEF IInv

LEMMA StutterStep == ASSUME IInv, UNCHANGED vars PROVE IInv'
<1> USE DEF vars, rpcVars, mainVars, sharedVars, workerVars, mediaVars
<1>1. TypeOK' /\ FlightOK' /\ FreshOK' /\ EndOK' /\ SuccessIsComplete'
  BY DEF IInv, TypeOK, RpcOK, FlightOK, FreshOK, EndOK, SuccessIsComplete, NoSignal, Complete
<1>2. FirstCommandOK' /\ StopOK' /\ MainOK' /\ JobOK' /\ CodeOK' /\ StateOK'
  BY DEF IInv, FirstCommandOK, StopOK, MainOK, JobOK, CodeOK, StateOK, NoSignal, Signal, WorkerAsleep, Complete
<1>3. DumpOK' /\ RestoreOK'
  BY DEF IInv, DumpOK, RestoreOK
<1> QED
  BY <1>1, <1>2, <1>3 DEF IInv

LEMMA NextStep == IInv /\ [Next]_vars => IInv'
<1> SUFFICES ASSUME IInv, [Next]_vars PROVE IInv'
  OBVIOUS
<1>1. ASSUME NEW o \in Operations, NoCard(o) \/ Begin(o) PROVE IInv'
  BY <1>1, NoCardStep, BeginStep
<1>2. CASE MainStep
  BY <1>2, SetCommandStep, SetArgStep, WakeWorkerStep, WaitForWorkerStep, PollStep, CancelStep, ContinueStep,
     CloseStep, UnlockStep, ReturnStep DEF MainStep
<1>3. CASE PowerOff
  BY <1>3, PowerOffStep
<1>4. CASE WorkerStep
  <2>1. CASE GetArg \/ GetCmd \/ Sleep \/ Acknowledge \/ Start \/ Allocate \/ Loop \/ CallTools
    BY <2>1, GetArgStep, GetCmdStep, SleepStep, AcknowledgeStep, StartStep, AllocateStep, LoopStep, CallToolsStep
  <2>2. CASE WriteImage \/ ReadImage \/ SyncUnit \/ LastCluster \/ LastBlock \/ Free \/ CheckStop \/ Finish
    BY <2>2, WriteImageStep, ReadImageStep, SyncUnitStep, LastClusterStep, LastBlockStep, FreeStep, CheckStopStep,
       FinishStep
  <2> QED
    BY <1>4, <2>1, <2>2 DEF WorkerStep
<1>5. CASE ServeCall
  BY <1>5, ServeCallStep
<1>6. CASE UNCHANGED vars
  BY <1>6, StutterStep
<1> QED
  BY <1>1, <1>2, <1>3, <1>4, <1>5, <1>6 DEF Next

(* The two threads and the IOP keep the inductive invariant, whatever their interleaving. *)
THEOREM Invariance == Spec => []IInv
<1> QED
  BY InitInv, NextStep, PTL DEF Spec

(* Every variable keeps its type: no unit past the last is asked for, no
   more units than there are go to the image, and the semaphore of the
   client is 0 exactly while a call is in flight. *)
THEOREM TypeCorrect == Spec => []TypeOK
<1>1. IInv => TypeOK
  BY DEF IInv
<1> QED
  BY <1>1, Invariance, PTL

(* A dump or a restoration that returns 0 has transferred every unit, for
   every number of units, every time of cancellation and every failure but
   that of fclose, which the code does not look at. *)
THEOREM SuccessMeansComplete == Spec => []SuccessIsComplete
<1>1. IInv => SuccessIsComplete
  BY DEF IInv
<1> QED
  BY <1>1, Invariance, PTL

(* The main thread does not leave the frame that holds the parameters, nor
   close the image, before the worker has done with both. *)
THEOREM ParametersStayAlive == Spec => []ParametersAlive
<1>1. IInv => ParametersAlive
  BY DEF IInv, ParametersAlive, MainOK, JobOK, Done, Idle, Job, Transferring, TypeOK, MainPlaces
<1> QED
  BY <1>1, Invariance, PTL

(* The power button does not switch the console off while a card is being
   written or an image is open; of the calls to the IOP only the read that a
   failed dump has left behind can be in flight. *)
THEOREM PowerOffIsSafe == Spec => []PowerOffSafe
<1>1. IInv => PowerOffSafe
  <2> SUFFICES ASSUME IInv, InstallLockSema = "off"
               PROVE  /\ worker \notin Transferring /\ file # "open"
                      /\ rpc # NoCall => rpc.fn = "ReadCluster" /\ op = "dump" /\ result = "ERROR_SIDE_DST"
    BY DEF PowerOffSafe
  <2>1. main \in {"menu", "reboot"} /\ worker \in Done /\ file # "open"
    BY DEF IInv, MainOK, TypeOK, MainPlaces
  <2>2. worker \notin Transferring \cup {"loop", "fread", "sync", "last"}
    BY <2>1 DEF Done, Idle, Transferring
  <2>3. rpc # NoCall => rpc.fn = "ReadCluster" /\ op = "dump" /\ result = "ERROR_SIDE_DST"
    <3>1. rpc.fn \in {"ReadCluster", "WriteBlock", "none"}
      BY DEF IInv, TypeOK, RpcOK, Calls, NoCall
    <3> QED
      BY <2>2, <3>1 DEF IInv, FlightOK, Transferring
  <2> QED
    BY <2>1, <2>2, <2>3
<1> QED
  BY <1>1, Invariance, PTL

(* Freed buffers are stored into by the IOP only after the image could not be written. *)
THEOREM LateStores == Spec => []LateStoreOnlyAfterWriteError
<1>1. IInv => LateStoreOnlyAfterWriteError
  BY DEF IInv, LateStoreOnlyAfterWriteError, FlightOK, Transferring, Done, Idle
<1> QED
  BY <1>1, Invariance, PTL

(* Each command of the main thread is acknowledged by one wake-up. *)
THEOREM WakeupsMatchCommands == Spec => []OneWakeupPerCommand
<1>1. IInv => OneWakeupPerCommand
  BY DEF IInv, OneWakeupPerCommand, FirstCommandOK, StopOK, MainOK, NoSignal, Signal, TypeOK, MainPlaces
<1> QED
  BY <1>1, Invariance, PTL
=============================================================================

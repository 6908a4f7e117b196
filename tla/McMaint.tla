------------------------------ MODULE McMaint ------------------------------
(***************************************************************************)
(* Dumping and restoring a memory card (system.c): the main thread gives   *)
(* the job to the worker thread with a command, polls a result code while  *)
(* it draws the progress screen and may send a second command, STOP; the   *)
(* worker copies unit after unit through two buffers, the IOP reading or   *)
(* writing the card meanwhile (AsyncRpc).                                  *)
(*                                                                         *)
(* WakeupThread of a thread that does not sleep is remembered by the EE    *)
(* kernel: the next SleepThread returns at once.  wakeups counts them, and *)
(* SleepThread waits for a count above 0 and takes one.                    *)
(***************************************************************************)
EXTENDS AsyncRpc

VARIABLES
  (* the main thread *)
  main,                  \* where it is, "menu" outside an operation
  op,                    \* the operation asked for: "dump" or "restore"
  send,                  \* the command SendWorkerThreadCommand is sending
  WorkerThreadState,     \* its copy of the result code
  answer,                \* what the last operation returned, "OK" for 0
  InstallLockSema,       \* "free", "held", or "off" once the power button has taken it
  iop,                   \* the modules the IOP was last rebooted with
  file,                  \* the image file and the parameters on the main thread's stack; "lost" when the
                         \* end of an image was still to be written as it was closed, and could not be
  (* shared by the two threads *)
  WorkerThreadCmd, WorkerThreadArg, WorkerThreadResultCode,
  wakeups,               \* pending wake-ups of each thread
  (* the worker thread *)
  worker,                \* where it is
  command, CommandArgs,  \* its copy of the command
  unit,                  \* cluster or block of the loop
  bank,                  \* ClusterBank or BlockBank
  result,                \* "OK" while no step has failed
  buffer,                \* contents of the two buffers
  allocated,             \* the buffers are allocated
  (* the media *)
  target,                \* what has been written of each unit: the image of a dump, the card of a restoration
  written                \* units written to the image

mainVars == <<main, op, send, WorkerThreadState, answer, InstallLockSema, iop, file>>
sharedVars == <<WorkerThreadCmd, WorkerThreadArg, WorkerThreadResultCode, wakeups>>
workerVars == <<worker, command, CommandArgs, unit, bank, result, buffer, allocated>>
mediaVars == <<target, written>>
vars == <<rpcVars, mainVars, sharedVars, workerVars, mediaVars>>

Operations == {"dump", "restore"}
Commands == Operations \cup {"NONE", "STOP"}
Errors == {"ERROR_SIDE_SRC", "ERROR_SIDE_DST", "ENOMEM"}
ResultCodes == {"ERR", "OK", "CMD_OK", "BSY", "ABRT"} \cup Errors
(* Faulty variant: only success ends the loop of the progress screen. *)
Running_UntilOK == ResultCodes \ {"OK"}

Running == {"CMD_OK", "BSY"}

Empty == [u \in Units |-> Junk]
EmptyBuffers == [b \in Banks |-> Junk]

-----------------------------------------------------------------------------
Init ==
  /\ InitRpc
  /\ main = "menu" /\ op = "dump" /\ send = "dump"
  /\ WorkerThreadState = "OK" /\ answer = "none"
  /\ InstallLockSema = "free" /\ iop = "SET_MAIN" /\ file = "closed"
  /\ WorkerThreadCmd = "NONE" /\ WorkerThreadArg = "NULL" /\ WorkerThreadResultCode = "OK"
  /\ wakeups = [t \in {"main", "worker"} |-> 0]
  /\ worker = "get_arg" /\ command = "NONE" /\ CommandArgs = "NULL"
  /\ unit = 0 /\ bank = 0 /\ result = "OK"
  /\ buffer = EmptyBuffers /\ allocated = FALSE
  /\ target = Empty /\ written = 0

(* Faulty variant: the wake-ups of both sides go to the worker. *)
WakeupThread_WorkerOnly(t) == wakeups' = [wakeups EXCEPT !["worker"] = @ + 1]

WakeupThread(t) == wakeups' = [wakeups EXCEPT ![t] = @ + 1]
SleepThread(t) == wakeups[t] > 0 /\ wakeups' = [wakeups EXCEPT ![t] = @ - 1]

(* Faulty variant: a command that has been taken is not withdrawn. *)
SetWorkerThreadCommand_Kept(c, arg) == UNCHANGED <<WorkerThreadCmd, WorkerThreadArg>>

SetWorkerThreadCommand(c, arg) == WorkerThreadCmd' = c /\ WorkerThreadArg' = arg

-----------------------------------------------------------------------------
(* The main thread: PerformMemoryCardDump and PerformMemoryCardRestore *)

MainTo(pc) == main' = pc
MainOnly == UNCHANGED <<rpcVars, workerVars>>

(***************************************************************************)
(* An operation starts with a reboot of the IOP, for which the main thread *)
(* waits: the worker, whose priority is the lowest, runs meanwhile until   *)
(* it sleeps.                                                              *)
(***************************************************************************)
WorkerAsleep == worker = "sleep" /\ wakeups["worker"] = 0

(* The card does not answer: the operation returns, with MCTOOLS still loaded. *)
NoCard(o) ==
  /\ main = "menu" /\ WorkerAsleep /\ InstallLockSema = "free"
  /\ op' = o
  /\ iop' = "MCTOOLS"
  /\ answer' = "ERR"
  /\ UNCHANGED <<main, send, WorkerThreadState, InstallLockSema, file, sharedVars, mediaVars>>
  /\ MainOnly

Begin(o) ==
  /\ main = "menu" /\ WorkerAsleep /\ InstallLockSema = "free"
  /\ op' = o /\ send' = o
  /\ iop' = "MCTOOLS"
  /\ InstallLockSema' = "held"
  /\ \/ /\ file' = "open"
        /\ target' = Empty /\ written' = 0
        /\ main' = "set_cmd"
        /\ UNCHANGED WorkerThreadState
     \/ /\ main' = "unlock"             \* fopen() fails
        /\ WorkerThreadState' = "ERR"
        /\ UNCHANGED <<file, mediaVars>>
  /\ UNCHANGED <<answer, sharedVars>>
  /\ MainOnly

(* SendWorkerThreadCommand *)

SetCommand ==
  /\ main = "set_cmd"
  /\ WorkerThreadCmd' = send
  /\ main' = "set_arg"
  /\ UNCHANGED <<op, send, WorkerThreadState, answer, InstallLockSema, iop, file,
                 WorkerThreadArg, WorkerThreadResultCode, wakeups, mediaVars>>
  /\ MainOnly

SetArg ==
  /\ main = "set_arg"
  /\ WorkerThreadArg' = IF send = "STOP" THEN "NULL" ELSE "params"
  /\ main' = "wake"
  /\ UNCHANGED <<op, send, WorkerThreadState, answer, InstallLockSema, iop, file,
                 WorkerThreadCmd, WorkerThreadResultCode, wakeups, mediaVars>>
  /\ MainOnly

WakeWorker ==
  /\ \/ main = "wake" /\ main' = "sleep"
     \/ main = "wake_again" /\ main' = IF send = "STOP" THEN "close" ELSE "poll"
  /\ WakeupThread("worker")
  /\ UNCHANGED <<op, send, WorkerThreadState, answer, InstallLockSema, iop, file,
                 WorkerThreadCmd, WorkerThreadArg, WorkerThreadResultCode, mediaVars>>
  /\ MainOnly

(* The state read after the sleep is returned to callers that ignore it. *)
WaitForWorker ==
  /\ main = "sleep"
  /\ SleepThread("main")
  /\ main' = "wake_again"
  /\ UNCHANGED <<op, send, WorkerThreadState, answer, InstallLockSema, iop, file,
                 WorkerThreadCmd, WorkerThreadArg, WorkerThreadResultCode, mediaVars>>
  /\ MainOnly

(* The loop that draws the progress screen *)

Poll ==
  /\ main = "poll"
  /\ WorkerThreadState' = WorkerThreadResultCode
  /\ main' = "pad"
  /\ UNCHANGED <<op, send, answer, InstallLockSema, iop, file, sharedVars, mediaVars>>
  /\ MainOnly

(* Faulty variant: the main thread leaves without sending STOP. *)
Cancel_NotWaiting ==
  /\ main = "pad"
  /\ main' = "close"
  /\ UNCHANGED <<op, send, WorkerThreadState, answer, InstallLockSema, iop, file, sharedVars, mediaVars>>
  /\ MainOnly

(* The user confirms that the operation is to be given up. *)
Cancel ==
  /\ main = "pad"
  /\ send' = "STOP"
  /\ main' = "set_cmd"
  /\ UNCHANGED <<op, WorkerThreadState, answer, InstallLockSema, iop, file, sharedVars, mediaVars>>
  /\ MainOnly

Continue ==
  /\ main = "pad"
  /\ main' = IF WorkerThreadState \in Running THEN "poll" ELSE "close"
  /\ UNCHANGED <<op, send, WorkerThreadState, answer, InstallLockSema, iop, file, sharedVars, mediaVars>>
  /\ MainOnly

(* The answer of fclose, which writes what is left of an image, is not looked at. *)
Close ==
  /\ main = "close"
  /\ \/ file' = "closed" /\ UNCHANGED target
     \/ op = "dump" /\ written > 0 /\ file' = "lost" /\ target' = [target EXCEPT ![written - 1] = Junk]
  /\ main' = "unlock"
  /\ UNCHANGED <<op, send, WorkerThreadState, answer, InstallLockSema, iop, sharedVars, written>>
  /\ MainOnly

(* The lock is released first: the power button finds it free from here on. *)
Unlock ==
  /\ main = "unlock"
  /\ InstallLockSema' = "free"
  /\ main' = "reboot"
  /\ UNCHANGED <<op, send, WorkerThreadState, answer, iop, file, sharedVars, mediaVars>>
  /\ MainOnly

(* The IOP is rebooted, with whatever call it still had to carry out, and the
   operation returns the state polled last. *)
Return ==
  /\ main = "reboot"
  /\ iop' = "SET_MAIN"
  /\ ResetRpc
  /\ answer' = WorkerThreadState
  /\ main' = "menu"
  /\ UNCHANGED <<op, send, WorkerThreadState, InstallLockSema, file, sharedVars, workerVars, mediaVars>>

(* Faulty variant: the callback does not look at the lock. *)
PowerOff_NoLock ==
  /\ InstallLockSema' = "off"
  /\ UNCHANGED <<main, op, send, WorkerThreadState, answer, iop, file, sharedVars, mediaVars>>
  /\ MainOnly

(* poweroffCallback: the console is switched off if the lock can be taken. *)
PowerOff ==
  /\ InstallLockSema = "free"
  /\ InstallLockSema' = "off"
  /\ UNCHANGED <<main, op, send, WorkerThreadState, answer, iop, file, sharedVars, mediaVars>>
  /\ MainOnly

-----------------------------------------------------------------------------
(* The worker thread: WorkerThread, DumpMemoryCard, RestoreMemoryCard *)

WorkerOnly == UNCHANGED mainVars

GetArg ==
  /\ worker = "get_arg"
  /\ CommandArgs' = WorkerThreadArg
  /\ worker' = "get_cmd"
  /\ UNCHANGED <<rpcVars, sharedVars, command, unit, bank, result, buffer, allocated, mediaVars>>
  /\ WorkerOnly

GetCmd ==
  /\ worker = "get_cmd"
  /\ command' = WorkerThreadCmd
  /\ worker' = CASE WorkerThreadCmd = "NONE" -> "sleep"
                 [] WorkerThreadCmd \in Operations -> "take"
                 [] OTHER -> "refuse"
  /\ UNCHANGED <<rpcVars, sharedVars, CommandArgs, unit, bank, result, buffer, allocated, mediaVars>>
  /\ WorkerOnly

(* SleepThread, when there is no command and after a command that is no operation *)
Sleep ==
  /\ worker = "sleep"
  /\ SleepThread("worker")
  /\ worker' = "get_arg"
  /\ UNCHANGED <<rpcVars, WorkerThreadCmd, WorkerThreadArg, WorkerThreadResultCode,
                 command, CommandArgs, unit, bank, result, buffer, allocated, mediaVars>>
  /\ WorkerOnly

(* The command is acknowledged: the main thread is woken. *)
Acknowledge ==
  /\ \/ worker = "take" /\ WorkerThreadResultCode' = "CMD_OK" /\ worker' = "sleep_taken"
     \/ worker = "refuse" /\ WorkerThreadResultCode' = "ERR" /\ worker' = "sleep"
  /\ SetWorkerThreadCommand("NONE", "NULL")
  /\ WakeupThread("main")
  /\ UNCHANGED <<rpcVars, command, CommandArgs, unit, bank, result, buffer, allocated, mediaVars>>
  /\ WorkerOnly

Start ==
  /\ worker = "sleep_taken"
  /\ SleepThread("worker")
  /\ WorkerThreadResultCode' = "BSY"
  /\ worker' = "allocate"
  /\ UNCHANGED <<rpcVars, WorkerThreadCmd, WorkerThreadArg, command, CommandArgs,
                 unit, bank, result, buffer, allocated, mediaVars>>
  /\ WorkerOnly

Allocate ==
  /\ worker = "allocate"
  /\ unit' = 0 /\ bank' = 0
  /\ buffer' = EmptyBuffers
  /\ \/ result' = "OK" /\ allocated' = TRUE /\ worker' = "loop"
     \/ result' = "ENOMEM" /\ worker' = "check_stop" /\ UNCHANGED allocated
  /\ UNCHANGED <<rpcVars, sharedVars, command, CommandArgs, mediaVars>>
  /\ WorkerOnly

(* The loops end early when the command has become STOP. *)
Loop ==
  /\ worker = "loop"
  /\ worker' = IF unit = NumUnits \/ WorkerThreadCmd = "STOP" THEN "last"
               ELSE IF command = "dump" THEN "call" ELSE "fread"
  /\ UNCHANGED <<rpcVars, sharedVars, command, CommandArgs, unit, bank, result, buffer, allocated, mediaVars>>
  /\ WorkerOnly

(* A step fails: the loop ends, and what is left is to free the buffers. *)
FailsWith(error) == result' = error /\ worker' = "free"

(* Banks are swapped, and the loop goes on with the next unit. *)
NextUnit ==
  /\ unit' = unit + 1
  /\ bank' = 1 - bank
  /\ worker' = "loop"

(* MCToolsReadCluster, or MCToolsWriteBlock *)
CallTools ==
  /\ worker = "call"
  /\ \/ /\ command = "dump"
        /\ MCToolsReadCluster(unit, bank)
        /\ worker' = "fwrite"
        /\ UNCHANGED <<unit, bank, result>>
     \/ /\ command = "restore"
        /\ MCToolsWriteBlock(unit, buffer[bank])
        /\ NextUnit
        /\ UNCHANGED result
     \/ /\ MCToolsCallFails
        /\ result' = IF command = "dump" THEN "ERROR_SIDE_SRC" ELSE "ERROR_SIDE_DST"
        /\ worker' = IF command = "dump" THEN "free" ELSE "last"
        /\ UNCHANGED <<unit, bank>>
  /\ UNCHANGED <<sharedVars, command, CommandArgs, buffer, allocated, mediaVars>>
  /\ WorkerOnly

(* Faulty variant: the buffer written is the one being read into. *)
AppendBuffer_SameBank ==
  /\ target' = [target EXCEPT ![written] = buffer[bank]]
  /\ written' = written + 1

(* fwrite of the buffer that the card is not being read into *)
AppendBuffer ==
  /\ target' = [target EXCEPT ![written] = buffer[1 - bank]]
  /\ written' = written + 1

(* The cluster read last goes to the image while the next one is read. *)
WriteImage ==
  /\ worker = "fwrite"
  /\ \/ unit = 0 /\ worker' = "sync" /\ UNCHANGED <<result, mediaVars>>
     \/ unit > 0 /\ AppendBuffer /\ worker' = "sync" /\ UNCHANGED result
     \/ unit > 0 /\ FailsWith("ERROR_SIDE_DST") /\ UNCHANGED mediaVars
  /\ UNCHANGED <<rpcVars, sharedVars, command, CommandArgs, unit, bank, buffer, allocated>>
  /\ WorkerOnly

ReadImage ==
  /\ worker = "fread"
  /\ \/ /\ buffer' = [buffer EXCEPT ![bank] = unit]
        /\ worker' = "sync"
        /\ UNCHANGED result
     \/ /\ buffer' = [buffer EXCEPT ![bank] = Junk]
        /\ result' = "ERROR_SIDE_SRC" /\ worker' = "last"
  /\ UNCHANGED <<rpcVars, sharedVars, command, CommandArgs, unit, bank, allocated, mediaVars>>
  /\ WorkerOnly

(* MCToolsSync, then MCToolsAsyncGetLastError: before a restoration's first
   write it is the answer of an earlier, blocking call. *)
SyncUnit ==
  /\ worker = "sync"
  /\ MCToolsSync
  /\ \/ ReceiveBuffer = "ok" /\ command = "dump" /\ NextUnit /\ UNCHANGED result
     \/ ReceiveBuffer = "ok" /\ command = "restore" /\ worker' = "call" /\ UNCHANGED <<unit, bank, result>>
     \/ /\ ReceiveBuffer = "error"
        /\ result' = IF command = "dump" THEN "ERROR_SIDE_SRC" ELSE "ERROR_SIDE_DST"
        /\ worker' = IF command = "dump" THEN "free" ELSE "last"
        /\ UNCHANGED <<unit, bank>>
  /\ UNCHANGED <<sharedVars, command, CommandArgs, buffer, allocated, mediaVars>>
  /\ WorkerOnly

(* A dump has one cluster left to write when its loop ends. *)
LastCluster ==
  /\ worker = "last" /\ command = "dump"
  /\ \/ AppendBuffer /\ worker' = "free" /\ UNCHANGED result
     \/ FailsWith("ERROR_SIDE_DST") /\ UNCHANGED mediaVars
  /\ UNCHANGED <<rpcVars, sharedVars, command, CommandArgs, unit, bank, buffer, allocated>>
  /\ WorkerOnly

(* A restoration has one block whose outcome is not known yet. *)
LastBlock ==
  /\ worker = "last" /\ command = "restore"
  /\ MCToolsSync
  /\ worker' = "free"
  /\ result' = IF result = "OK" /\ ReceiveBuffer = "error" THEN "ERROR_SIDE_DST" ELSE result
  /\ UNCHANGED <<sharedVars, command, CommandArgs, unit, bank, buffer, allocated, mediaVars>>
  /\ WorkerOnly

Free ==
  /\ worker = "free"
  /\ allocated' = FALSE
  /\ worker' = "check_stop"
  /\ UNCHANGED <<rpcVars, sharedVars, command, CommandArgs, unit, bank, result, buffer, mediaVars>>
  /\ WorkerOnly

(* A STOP is acknowledged; the result code is set after the wake-up. *)
CheckStop ==
  /\ worker = "check_stop"
  /\ IF WorkerThreadCmd = "STOP"
     THEN /\ SetWorkerThreadCommand("NONE", "NULL")
          /\ WakeupThread("main")
          /\ worker' = "abort"
     ELSE /\ worker' = "finish"
          /\ UNCHANGED <<WorkerThreadCmd, WorkerThreadArg, wakeups>>
  /\ UNCHANGED <<rpcVars, WorkerThreadResultCode, command, CommandArgs,
                 unit, bank, result, buffer, allocated, mediaVars>>
  /\ WorkerOnly

Finish ==
  /\ \/ worker = "abort" /\ WorkerThreadResultCode' = "ABRT" /\ worker' = "finish"
     \/ worker = "finish" /\ WorkerThreadResultCode' = result /\ worker' = "get_arg"
  /\ UNCHANGED <<rpcVars, WorkerThreadCmd, WorkerThreadArg, wakeups, command, CommandArgs,
                 unit, bank, result, buffer, allocated, mediaVars>>
  /\ WorkerOnly

-----------------------------------------------------------------------------
(* The IOP carries a call out.  One that fails leaves the cluster or the block undefined. *)
ServeCall ==
  \E a \in {"ok", "error"} :
    /\ RpcEnds(a)
    /\ \/ /\ rpc.fn = "ReadCluster"
          /\ buffer' = [buffer EXCEPT ![rpc.bank] = IF a = "ok" THEN rpc.unit ELSE Junk]
          /\ UNCHANGED target
       \/ /\ rpc.fn = "WriteBlock"
          /\ target' = [target EXCEPT ![rpc.unit] = IF a = "ok" THEN rpc.data ELSE Junk]
          /\ UNCHANGED buffer
    /\ UNCHANGED <<mainVars, sharedVars, worker, command, CommandArgs, unit, bank, result, allocated, written>>

-----------------------------------------------------------------------------
MainStep ==
  \/ SetCommand \/ SetArg \/ WakeWorker \/ WaitForWorker
  \/ Poll \/ Cancel \/ Continue \/ Close \/ Unlock \/ Return

WorkerStep ==
  \/ GetArg \/ GetCmd \/ Sleep \/ Acknowledge \/ Start \/ Allocate \/ Loop
  \/ CallTools \/ WriteImage \/ ReadImage \/ SyncUnit \/ LastCluster \/ LastBlock
  \/ Free \/ CheckStop \/ Finish

Next ==
  \/ \E o \in Operations : NoCard(o) \/ Begin(o)
  \/ MainStep \/ PowerOff \/ WorkerStep \/ ServeCall

Spec == Init /\ [][Next]_vars

(***************************************************************************)
(* Both threads run when they can: the main thread waits for the next      *)
(* frame in every round of its loop, which leaves the processor to the     *)
(* worker.  The IOP answers every call.  The user need not ask for         *)
(* anything, nor cancel.                                                   *)
(***************************************************************************)
FairSpec == Spec /\ WF_vars(MainStep) /\ WF_vars(WorkerStep) /\ WF_vars(ServeCall)

-----------------------------------------------------------------------------
(* Properties *)

MainPlaces == {"menu", "set_cmd", "set_arg", "wake", "sleep", "wake_again", "poll", "pad", "close", "unlock",
               "reboot"}
Transferring == {"allocate", "loop", "call", "fwrite", "fread", "sync", "last", "free"}
WorkerPlaces == Transferring \cup
  {"get_arg", "get_cmd", "sleep", "take", "refuse", "sleep_taken", "check_stop", "abort", "finish"}

TypeOK ==
  /\ RpcOK
  /\ main \in MainPlaces /\ op \in Operations /\ send \in Operations \cup {"STOP"}
  /\ WorkerThreadState \in ResultCodes /\ answer \in ResultCodes \cup {"none"}
  /\ InstallLockSema \in {"free", "held", "off"}
  /\ iop \in {"SET_MAIN", "MCTOOLS"} /\ file \in {"open", "closed", "lost"}
  /\ WorkerThreadCmd \in Commands /\ WorkerThreadArg \in {"NULL", "params"}
  /\ WorkerThreadResultCode \in ResultCodes
  /\ wakeups \in [{"main", "worker"} -> Nat]
  /\ worker \in WorkerPlaces
  /\ command \in Commands /\ CommandArgs \in {"NULL", "params"}
  /\ unit \in 0 .. NumUnits /\ bank \in Banks
  /\ result \in {"OK"} \cup Errors
  /\ buffer \in [Banks -> Contents] /\ allocated \in BOOLEAN
  /\ target \in [Units -> Contents] /\ written \in 0 .. NumUnits

(* An operation that returns 0 has transferred every unit to its place, whatever
   cancellation, polling and card did meanwhile: the code polled is of this
   operation, the buffers were written after they were filled and before they
   were filled again, and no error was missed but the one of fclose. *)
SuccessIsComplete ==
  main = "menu" /\ answer = "OK" /\ file # "lost" => \A u \in Units : target[u] = u

(* While the worker uses the image and the parameters, which are on the main
   thread's stack, the main thread has not closed or left them. *)
ParametersAlive ==
  worker \in Transferring => file = "open" /\ CommandArgs = "params"

(* The console is never switched off while a block of a card is being written
   or an image is open, although the lock is released before the IOP is
   rebooted: the call that can be in flight then is the read that a dump has
   left behind whose image could not be written. *)
PowerOffSafe ==
  InstallLockSema = "off" =>
    /\ worker \notin Transferring /\ file # "open"
    /\ rpc # NoCall => rpc.fn = "ReadCluster" /\ op = "dump" /\ result = "ERROR_SIDE_DST"

(* The IOP stores a cluster into a freed buffer in one case only: the image
   could not be written while the cluster was being read. *)
LateStoreOnlyAfterWriteError ==
  rpc.fn = "ReadCluster" /\ ~allocated => op = "dump" /\ result = "ERROR_SIDE_DST"

(* The main thread is woken once for each command it sends: no command is
   acknowledged twice and none is left behind for the next operation. *)
OneWakeupPerCommand ==
  /\ wakeups["main"] <= 1
  /\ main = "menu" => wakeups["main"] = 0 /\ WorkerThreadCmd = "NONE"

(* Every command is answered: the main thread does not sleep for ever. *)
CommandsAnswered == (main = "sleep") ~> (main = "wake_again")

(* Every operation returns to the menu. *)
OperationReturns == (main # "menu") ~> (main = "menu")

(* system.c:2537, 2630: the IOP is rebooted "to allow the remainder of the
   program to continue" when an operation has ended. *)
MenuHasMainModules == main = "menu" => iop = "SET_MAIN"

-----------------------------------------------------------------------------
(***************************************************************************)
(* What every step keeps, from which the safety properties follow.         *)
(***************************************************************************)
Idle == {"get_arg", "get_cmd", "sleep"}
Done == Idle \cup {"abort", "finish"}            \* a STOP has been seen, or the job has ended
Job == {"sleep_taken", "check_stop"} \cup Transferring
Sending == {"set_cmd", "set_arg", "wake", "sleep"}
Complete == \A u \in Units : target[u] = u

NoSignal(c) == WorkerThreadCmd = c /\ wakeups["main"] = 0
Signal == WorkerThreadCmd = "NONE" /\ wakeups["main"] = 1

(* The first command, from its sending to its acknowledgement *)
FirstCommandOK ==
  send # "STOP" =>
    /\ main \in {"set_cmd", "set_arg", "wake"} =>
         /\ WorkerAsleep
         /\ NoSignal(IF main = "set_cmd" THEN "NONE" ELSE send)
         /\ main = "wake" => WorkerThreadArg = "params"
    /\ main = "sleep" =>
         \/ /\ NoSignal(send) /\ WorkerThreadArg = "params"
            /\ worker \in Idle \cup {"take"}
            /\ wakeups["worker"] = IF worker = "sleep" THEN 1 ELSE 0
            /\ worker \in {"get_cmd", "take"} => CommandArgs = "params"
            /\ worker = "take" => command = send
         \/ Signal /\ worker = "sleep_taken" /\ wakeups["worker"] = 0
    /\ main = "wake_again" => NoSignal("NONE") /\ worker = "sleep_taken" /\ wakeups["worker"] = 0
    /\ main \in {"poll", "pad"} => NoSignal("NONE") /\ worker \in Job \cup {"finish"} \cup Idle

(* STOP reaches the worker in its job or after it, and is acknowledged once. *)
StopOK ==
  send = "STOP" =>
    /\ main = "set_cmd" => NoSignal("NONE") /\ worker \in Job \cup {"finish"} \cup Idle
    /\ main \in {"set_arg", "wake", "sleep"} =>
         \/ NoSignal("STOP") /\ worker \in Job \cup {"finish", "refuse"} \cup Idle
         \/ Signal /\ worker \in Done
    /\ main = "wake_again" => NoSignal("NONE") /\ worker \in Done
    /\ main \notin {"poll", "pad"}

MainOK ==
  /\ main \in {"menu", "close", "unlock", "reboot"} => NoSignal("NONE") /\ worker \in Done
  /\ main # "menu" => send \in {op, "STOP"}
  /\ file = "open" <=> main \notin {"menu", "unlock", "reboot"}
  /\ InstallLockSema = "held" <=> main \notin {"menu", "reboot"}

(* A job is the one asked for. *)
JobOK == worker \in Job => command = op /\ CommandArgs = "params"

(* The result code polled is that of the operation in progress. *)
CodeOK ==
  /\ worker \in Job \cup {"abort"} => WorkerThreadResultCode \in Running
  /\ send # "STOP" /\ main \in {"poll", "pad"} /\ worker \in Idle =>
       (WorkerThreadResultCode = "OK" => Complete)
  /\ send # "STOP" /\ main \in {"poll", "pad"} /\ worker = "finish" =>
       /\ WorkerThreadResultCode \in Running
       /\ result = "OK" => Complete

(* Once the state polled says so, the job has ended. *)
StateOK ==
  /\ main = "pad" \/ (send = "STOP" /\ main \in Sending) =>
       (WorkerThreadState \notin Running => worker \in Idle \cup {"refuse"})
  /\ main \in {"pad", "close", "unlock", "reboot"} \/ (send = "STOP" /\ main # "menu") =>
       (WorkerThreadState = "OK" /\ file # "lost" => Complete)

(* Which calls may be in flight, and where *)
FlightOK ==
  /\ rpc.fn = "ReadCluster" =>
       /\ op = "dump" /\ main # "menu"
       /\ worker \in {"fwrite", "sync"} \/ (worker \in {"free", "check_stop"} \cup Done \cup {"refuse"} /\ result = "ERROR_SIDE_DST")
  /\ rpc.fn = "WriteBlock" => op = "restore" /\ worker \in {"loop", "fread", "sync", "last"}
  /\ rpc.fn = "none" => rpc = NoCall
  /\ main = "menu" => rpc = NoCall
  /\ allocated <=> worker \in Transferring \ {"allocate"}

(* A job starts with no call in flight and nothing written. *)
FreshOK ==
  (send # "STOP" /\ main \in Sending /\ worker \in Idle \cup {"take"})
    \/ worker \in {"sleep_taken", "allocate"}
  => rpc = NoCall /\ written = 0

DumpOK ==
  worker \in Transferring /\ command = "dump" =>
    /\ worker \in {"call", "fwrite", "sync"} => unit < NumUnits
    /\ worker \in {"loop", "call", "fwrite", "last"} =>
         /\ written = IF unit = 0 THEN 0 ELSE unit - 1
         /\ unit > 0 => buffer[1 - bank] = unit - 1
    /\ worker = "sync" => written = unit
    /\ worker \in {"loop", "call", "fwrite", "sync", "last"} =>
         result = "OK" /\ \A u \in Units : u < written => target[u] = u
    /\ worker \in {"fwrite", "sync"} =>
         \/ rpc.fn = "ReadCluster" /\ rpc.unit = unit /\ rpc.bank = bank
         \/ rpc = NoCall /\ (ReceiveBuffer = "ok" => buffer[bank] = unit)

RestoreOK ==
  worker \in Transferring /\ command = "restore" =>
    /\ worker # "fwrite"
    /\ worker \in {"fread", "sync", "call"} => unit < NumUnits
    /\ worker \in {"sync", "call"} => buffer[bank] = unit
    /\ worker \in {"loop", "fread", "sync", "call"} => result = "OK"
    /\ worker = "call" => \A u \in Units : u < unit => target[u] = u
    /\ worker \in {"loop", "fread", "sync"} \/ (worker = "last" /\ result = "OK") =>
         /\ \A u \in Units : u < unit - 1 => target[u] = u
         /\ unit > 0 =>
              \/ rpc.fn = "WriteBlock" /\ rpc.unit = unit - 1 /\ rpc.data = unit - 1
              \/ rpc = NoCall /\ (ReceiveBuffer = "ok" => target[unit - 1] = unit - 1)

(* A job that has met neither an error nor a STOP ends with every unit in place. *)
EndOK ==
  /\ worker = "last" /\ result = "OK" /\ WorkerThreadCmd # "STOP" => unit = NumUnits
  /\ worker \in {"free", "check_stop"} /\ result = "OK" /\ WorkerThreadCmd # "STOP" => Complete
  /\ worker = "fread" => command = "restore"

IInv ==
  /\ TypeOK /\ FirstCommandOK /\ StopOK /\ MainOK /\ JobOK /\ CodeOK /\ StateOK
  /\ FlightOK /\ FreshOK /\ DumpOK /\ RestoreOK /\ EndOK /\ SuccessIsComplete
=============================================================================

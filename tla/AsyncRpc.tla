------------------------------ MODULE AsyncRpc ------------------------------
(***************************************************************************)
(* The asynchronous calls of the MCTOOLS client (mctools_rpc.c): one call  *)
(* may be in flight; AsyncRpcEndSema is 0 while it is, and the answer is   *)
(* left in ReceiveBuffer.  The IOP answers a call at any time after it.    *)
(***************************************************************************)
EXTENDS Integers

CONSTANTS
  NumUnits,     \* clusters of a dump, blocks of a restoration
  Junk          \* content of a buffer or of a medium that is not a unit read

ASSUME UnitsAssumption ==
  /\ NumUnits \in Nat \ {0}
  /\ Junk \notin 0 .. NumUnits

Units == 0 .. NumUnits - 1
Contents == Units \cup {Junk}
Banks == {0, 1}

VARIABLES
  AsyncRpcEndSema,    \* binary semaphore, 0 while a call is in flight
  rpc,                \* the call in flight, NoCall for none
  ReceiveBuffer       \* the answer to the last call: "ok" or "error"

rpcVars == <<AsyncRpcEndSema, rpc, ReceiveBuffer>>

NoCall == [fn |-> "none", unit |-> 0, bank |-> 0, data |-> Junk]
Calls == [fn : {"none", "ReadCluster", "WriteBlock"}, unit : Units, bank : Banks, data : Contents]

(* InitMCTOOLS, and the blocking calls made before the first asynchronous one,
   of which FlushMCMANClusterCache, the last, always answers 0. *)
InitRpc ==
  /\ AsyncRpcEndSema = 1
  /\ rpc = NoCall
  /\ ReceiveBuffer = "ok"

(* The IOP is reset and DeinitMCTOOLS deletes the semaphore: a call in flight is dropped. *)
ResetRpc ==
  /\ AsyncRpcEndSema' = 1
  /\ rpc' = NoCall
  /\ ReceiveBuffer' = "ok"

(* The IOP is to store the cluster into the caller's buffer `bank' later. *)
MCToolsReadCluster(cluster, bank) ==
  /\ AsyncRpcEndSema = 1
  /\ AsyncRpcEndSema' = 0
  /\ rpc' = [fn |-> "ReadCluster", unit |-> cluster, bank |-> bank, data |-> Junk]
  /\ UNCHANGED ReceiveBuffer

(* The block is copied to the IOP before the call returns. *)
MCToolsWriteBlock(block, data) ==
  /\ AsyncRpcEndSema = 1
  /\ AsyncRpcEndSema' = 0
  /\ rpc' = [fn |-> "WriteBlock", unit |-> block, bank |-> 0, data |-> data]
  /\ UNCHANGED ReceiveBuffer

(* Faulty variant: the semaphore is not given back. *)
MCToolsCallFails_SemaKept ==
  /\ AsyncRpcEndSema = 1
  /\ AsyncRpcEndSema' = 0
  /\ UNCHANGED <<rpc, ReceiveBuffer>>

(* No IOP memory for the transfer, or the call cannot be sent: the semaphore is given back. *)
MCToolsCallFails ==
  /\ AsyncRpcEndSema = 1
  /\ UNCHANGED rpcVars

(* Faulty variant: the caller does not wait. *)
MCToolsSync_NotWaiting == UNCHANGED rpcVars

MCToolsSync ==
  /\ AsyncRpcEndSema = 1
  /\ UNCHANGED rpcVars

(* The IOP's answer arrives and the end function signals the semaphore. *)
RpcEnds(answer) ==
  /\ rpc # NoCall
  /\ AsyncRpcEndSema' = 1
  /\ rpc' = NoCall
  /\ ReceiveBuffer' = answer

(* The semaphore is taken exactly while a call is in flight. *)
RpcOK ==
  /\ AsyncRpcEndSema \in {0, 1}
  /\ rpc \in Calls
  /\ ReceiveBuffer \in {"ok", "error"}
  /\ (AsyncRpcEndSema = 1) <=> (rpc = NoCall)
=============================================================================

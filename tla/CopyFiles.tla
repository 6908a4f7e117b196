----------------------------- MODULE CopyFiles -----------------------------
(***************************************************************************)
(* Copying the files of an installation to a memory card (system.c,        *)
(* CopyFiles and SyncMCFileWrite).  The write of a file goes on while the  *)
(* next file is read from the source; it is waited for before anything     *)
(* else is asked of the card.                                              *)
(***************************************************************************)
EXTENDS McLib, Sequences

CONSTANT Lists      \* the lists of entries that may have to be copied

Kinds == {"dir", "empty", "file", "kelf"}     \* "empty" is a file of 0 bytes, "kelf" one that must be signed

ASSUME ListsAssumption == Lists \subseteq Seq(Kinds)

VARIABLES
  list,             \* FileCopyList
  at,               \* where CopyFiles is
  i,                \* entry of the loop
  PrevFileSize,     \* size of the file written last, 0 once a folder has waited for it
  buffer,           \* entry whose buffer `buffer' points to, 0 for NULL
  McFileFD,         \* -1 before the first file is opened and when opening fails
  result,           \* "OK" for a result that is not negative
  heap              \* state of the buffer of each entry

copyVars == <<at, i, PrevFileSize, buffer, McFileFD, result, heap>>
vars == <<list, copyVars, mcVars>>

Entries == DOMAIN list
IsDir(e) == list[e] = "dir"
Size(e) == IF list[e] \in {"dir", "empty"} THEN 0 ELSE 1

SourceErrors == {"SRC_OPEN", "SRC_EIO", "ENOMEM"}
CardErrors == {"MC", "EIO", "EEXTMGSIGNERR"}

Init ==
  /\ list \in Lists
  /\ at = "loop" /\ i = 1 /\ PrevFileSize = 0
  /\ buffer = 0 /\ McFileFD = -1 /\ result = "OK"
  /\ heap = [e \in Entries |-> "none"]
  /\ cmd = NoCmd
  /\ open = [h \in Handles |-> 0]
  /\ card = [e \in Entries |-> Content(0, "absent")]

Fails(error) == result' = error /\ at' = "returned"
Goto(place) == at' = place /\ UNCHANGED result

-----------------------------------------------------------------------------
(* The loop is left after the last entry. *)
Loop ==
  /\ at = "loop"
  /\ IF i > Len(list) THEN Goto("final")
     ELSE Goto(IF IsDir(i) THEN "sync_dir" ELSE "read")
  /\ UNCHANGED <<list, i, PrevFileSize, buffer, McFileFD, heap, mcVars>>

(* free: the second call for a buffer is an error of the heap. *)
Free(e) ==
  heap' = [heap EXCEPT ![e] = IF @ \in {"plain", "signed"} THEN "freed" ELSE "twice"]

(* Faulty variant: the answer is not compared with the size. *)
SyncMCFileWrite_SizeUnchecked(next) ==
  /\ \E answer \in -1 .. 1 : mcSync(answer) /\ IF answer < 0 THEN Fails("MC") ELSE Goto(next)
  /\ cmd' = NoCmd
  /\ mcClose(McFileFD)
  /\ IF buffer = 0 THEN UNCHANGED heap ELSE Free(buffer)
  /\ UNCHANGED <<list, i, buffer, McFileFD, card>>

(* SyncMCFileWrite: the write is waited for, the file closed and its buffer freed. *)
SyncMCFileWrite(next) ==
  /\ \E answer \in -1 .. 1 :
       /\ mcSync(answer)
       /\ \/ answer = PrevFileSize /\ Goto(next)
          \/ answer < 0 /\ Fails("MC")
          \/ answer >= 0 /\ answer # PrevFileSize /\ Fails("EIO")
  /\ cmd' = NoCmd
  /\ mcClose(McFileFD)
  /\ IF buffer = 0 THEN UNCHANGED heap ELSE Free(buffer)
  /\ UNCHANGED <<list, i, buffer, McFileFD, card>>

(* Faulty variant: a folder does not wait. *)
SyncBeforeDir_NotWaiting ==
  /\ at = "sync_dir"
  /\ Goto("mkdir")
  /\ UNCHANGED <<list, i, PrevFileSize, buffer, McFileFD, heap, mcVars>>

(* Faulty variant: PrevFileSize is not reset. *)
SyncBeforeDir_SizeKept ==
  /\ at = "sync_dir"
  /\ IF i > 1 /\ PrevFileSize > 0
     THEN SyncMCFileWrite("mkdir")
     ELSE Goto("mkdir") /\ UNCHANGED <<list, i, buffer, McFileFD, heap, mcVars>>
  /\ UNCHANGED PrevFileSize

(* A folder waits for the file before it, and forgets its size. *)
SyncBeforeDir ==
  /\ at = "sync_dir"
  /\ IF i > 1 /\ PrevFileSize > 0
     THEN /\ SyncMCFileWrite("mkdir")
          /\ PrevFileSize' = IF at' = "mkdir" THEN 0 ELSE PrevFileSize
     ELSE /\ Goto("mkdir")
          /\ UNCHANGED <<list, i, PrevFileSize, buffer, McFileFD, heap, mcVars>>

(* A folder that exists is no error; a call that the library refuses answers
   a positive number, which is none either. *)
MakeDir ==
  /\ at = "mkdir"
  /\ \/ cmd = NoCmd /\ mcMkDir(i) /\ Goto("loop") /\ i' = i + 1
     \/ cmd = NoCmd /\ Fails("MC") /\ UNCHANGED <<i, card>>
     \/ cmd # NoCmd /\ Goto("loop") /\ i' = i + 1 /\ UNCHANGED card
  /\ UNCHANGED <<list, PrevFileSize, buffer, McFileFD, heap, cmd, open>>

(* fopen, memalign and fread of the whole file *)
ReadSource ==
  /\ at = "read"
  /\ \/ Goto("sync_file") /\ heap' = [heap EXCEPT ![i] = "plain"]
     \/ Fails("SRC_OPEN") /\ UNCHANGED heap
     \/ Fails("ENOMEM") /\ UNCHANGED heap
     \/ Fails("SRC_EIO") /\ heap' = [heap EXCEPT ![i] = "plain"]
  /\ UNCHANGED <<list, i, PrevFileSize, buffer, McFileFD, mcVars>>

(* Faulty variant: the second file does not wait for the first. *)
SyncBeforeFile_OffByOne ==
  /\ at = "sync_file"
  /\ IF i > 2 /\ PrevFileSize > 0
     THEN SyncMCFileWrite("sign")
     ELSE Goto("sign") /\ UNCHANGED <<list, i, buffer, McFileFD, heap, mcVars>>
  /\ UNCHANGED PrevFileSize

SyncBeforeFile ==
  /\ at = "sync_file"
  /\ IF i > 1 /\ PrevFileSize > 0
     THEN SyncMCFileWrite("sign")
     ELSE Goto("sign") /\ UNCHANGED <<list, i, buffer, McFileFD, heap, mcVars>>
  /\ UNCHANGED PrevFileSize

(* Faulty variant: FILE_IS_KELF is not looked at. *)
Sign_FlagIgnored ==
  /\ at = "sign"
  /\ Goto("open")
  /\ UNCHANGED <<list, i, PrevFileSize, buffer, McFileFD, heap, mcVars>>

(* SignKELF or TwinSignKELF works in the buffer of the file, with the card's keys. *)
Sign ==
  /\ at = "sign"
  /\ IF list[i] # "kelf" THEN Goto("open") /\ UNCHANGED heap
     ELSE \/ Goto("open") /\ heap' = [heap EXCEPT ![i] = "signed"]
          \/ Fails("EEXTMGSIGNERR") /\ heap' = [heap EXCEPT ![i] = "freed"]
  /\ UNCHANGED <<list, i, PrevFileSize, buffer, McFileFD, mcVars>>

(* Faulty variant: the loop stays at the file. *)
StartWrite_NotAdvancing(fd) ==
  /\ McFileFD' = fd
  /\ mcWrite(fd, i, Size(i))
  /\ PrevFileSize' = Size(i)
  /\ UNCHANGED i
  /\ Goto("loop")

(* Faulty variant: the loop skips the entry after the file. *)
StartWrite_Skipping(fd) ==
  /\ McFileFD' = fd
  /\ mcWrite(fd, i, Size(i))
  /\ PrevFileSize' = Size(i)
  /\ i' = i + 2
  /\ Goto("loop")

(* mcWrite is started, and the loop goes on. *)
StartWrite(fd) ==
  /\ McFileFD' = fd
  /\ mcWrite(fd, i, Size(i))
  /\ PrevFileSize' = Size(i)
  /\ i' = i + 1
  /\ Goto("loop")

(* When a write is still under way mcOpen is refused, and mcSync answers for the write. *)
OpenTarget ==
  /\ at = "open"
  /\ buffer' = i
  /\ \/ \E fd \in Handles : mcOpen(i, fd) /\ StartWrite(fd)
     \/ cmd.state = "done" /\ cmd.answer >= 0 /\ StartWrite(cmd.answer) /\ UNCHANGED <<open, card>>
     \/ /\ cmd = NoCmd \/ (cmd.state = "done" /\ cmd.answer < 0)
        /\ Fails("MC")
        /\ McFileFD' = -1
        /\ cmd' = NoCmd
        /\ UNCHANGED <<i, PrevFileSize, open, card>>
  /\ UNCHANGED <<list, heap>>

FinalSync ==
  /\ at = "final"
  /\ SyncMCFileWrite("returned")
  /\ UNCHANGED PrevFileSize

(* A buffer that has been freed holds anything. *)
ServeWrite ==
  /\ CardWrites(Content(cmd.buf, IF heap[cmd.buf] \in {"plain", "signed"} THEN heap[cmd.buf] ELSE "junk"))
  /\ UNCHANGED <<list, copyVars>>

Copy ==
  \/ Loop \/ SyncBeforeDir \/ MakeDir \/ ReadSource \/ SyncBeforeFile \/ Sign \/ OpenTarget \/ FinalSync

Next == Copy \/ ServeWrite

Spec == Init /\ [][Next]_vars

(* CopyFiles goes on when it does not wait, and the IOP answers. *)
FairSpec == Spec /\ WF_vars(Copy) /\ WF_vars(ServeWrite)

-----------------------------------------------------------------------------
(***************************************************************************)
(* Properties.  A list is regular when its last entry is a file and none   *)
(* of its files is empty.  The list of an installation starts with the     *)
(* files of the system folder; it is not regular when the last folder of   *)
(* the package is empty or one of its files is.                            *)
(***************************************************************************)
Regular(l) == l # <<>> /\ l[Len(l)] # "dir" /\ \A e \in DOMAIN l : l[e] # "empty"

Live(e) == heap[e] = IF list[e] = "kelf" THEN "signed" ELSE "plain"
Form(e) == CASE IsDir(e) -> "directory"
             [] list[e] = "empty" -> "empty"
             [] list[e] = "file" -> "plain"
             [] list[e] = "kelf" -> "signed"
Whole(e) == card[e] = Content(e, Form(e))
IsOpen(e) == \E h \in Handles : open[h] = e

Places == {"loop", "sync_dir", "mkdir", "read", "sync_file", "sign", "open", "final", "returned"}
BufferStates == {"none", "plain", "signed", "freed", "twice"}
Commands == [state : {"none", "busy", "done"}, fd : Handles, buf : Entries \cup {0}, size : {0, 1}, answer : -1 .. 1]

TypeOK ==
  /\ list \in Lists
  /\ at \in Places /\ i \in 1 .. Len(list) + 1 /\ PrevFileSize \in {0, 1}
  /\ buffer \in Entries \cup {0} /\ McFileFD \in Handles \cup {-1}
  /\ result \in {"OK"} \cup SourceErrors \cup CardErrors
  /\ heap \in [Entries -> BufferStates]
  /\ cmd \in Commands
  /\ open \in [Handles -> Entries \cup {0}]
  /\ card \in [Entries -> [of : Entries \cup {0}, form : Forms]]

(* A copy reported as a success has made every folder and written every file,
   signed if it must be, has closed them all and freed every buffer. *)
SuccessIsWhole ==
  Regular(list) /\ at = "returned" /\ result = "OK" =>
    /\ \A e \in Entries : Whole(e) /\ ~IsOpen(e) /\ (~IsDir(e) => heap[e] = "freed")
    /\ cmd = NoCmd

(* Whatever the list, the card never takes bytes from a buffer that has been
   freed or that is still to be signed; on a regular list they go to the file
   they were read for. *)
WriteFromOwnBuffer ==
  cmd.state = "busy" =>
    /\ Live(cmd.buf)
    /\ Regular(list) => open[cmd.fd] = cmd.buf

(* No buffer is freed twice. *)
NoDoubleFree == Regular(list) => \A e \in Entries : heap[e] # "twice"

(* A copy given up leaves a write or a file open on the card in three cases
   only: a source file that cannot be opened, read or held in memory. *)
CardLeftBusyOnlyBySource ==
  Regular(list) /\ at = "returned" /\ (cmd # NoCmd \/ \E e \in Entries : IsOpen(e)) => result \in SourceErrors

(* system.c:1921: "After the copying process has begun for the last file, we
   need to synchronize writing": at the end there is a write to wait for. *)
FinalSyncHasAWrite == at = "final" => cmd # NoCmd

(* The copy comes to an end. *)
Returns == <>(at = "returned")

-----------------------------------------------------------------------------
(***************************************************************************)
(* The promise behind the pipeline: entries are copied one after the       *)
(* other.  The entry before the loop's is complete once it is whole and    *)
(* its file is closed.                                                     *)
(***************************************************************************)
copied == IF i > 1 /\ (IsOpen(i - 1) \/ ~Whole(i - 1)) THEN i - 2 ELSE i - 1
status == IF at # "returned" THEN "copying" ELSE IF result = "OK" THEN "done" ELSE "failed"

Sequential == INSTANCE SequentialCopy WITH Promised <- {l \in Lists : Regular(l)}

ImplementsSequentialCopy == Sequential!Spec

-----------------------------------------------------------------------------
(***************************************************************************)
(* What every step keeps, from which the safety properties follow.         *)
(***************************************************************************)
InFile == {"read", "sync_file", "sign", "open"}
Before == {"loop", "sync_dir", "read", "sync_file", "final"}    \* the file before has not been waited for

PlaceOK ==
  /\ at \in {"sync_dir", "mkdir"} => i <= Len(list) /\ IsDir(i)
  /\ at \in InFile => i <= Len(list) /\ ~IsDir(i)
  /\ at = "final" => i = Len(list) + 1
  /\ at # "returned" => buffer < i /\ result = "OK"
  /\ at = "returned" /\ result = "OK" => i = Len(list) + 1

(* The buffer of the entry of the loop *)
BufferOK ==
  /\ at \in {"sync_file", "sign"} => heap[i] = "plain"
  /\ at = "open" => Live(i)

(* The write under way *)
WriteOK ==
  /\ cmd.state = "none" => cmd = NoCmd
  /\ cmd # NoCmd =>
       /\ cmd.size = PrevFileSize /\ cmd.answer <= cmd.size
       /\ cmd.buf \in Entries /\ cmd.buf = buffer /\ cmd.buf < i
       /\ Live(cmd.buf)
       /\ at \in {"mkdir", "sign", "open"} => PrevFileSize = 0

(* On a regular list the write is the one of the entry before the loop's, and
   no other file is open. *)
RegularWriteOK ==
  Regular(list) =>
    /\ cmd # NoCmd =>
         /\ PrevFileSize = 1 /\ cmd.buf = i - 1 /\ cmd.fd = McFileFD
         /\ open[McFileFD] = i - 1 /\ ~IsDir(i - 1)
         /\ at \in Before \/ (at = "returned" /\ result \in SourceErrors)
         /\ cmd.state = "done" => (Whole(i - 1) <=> cmd.answer = 1)
    /\ \A h \in Handles : open[h] # 0 => cmd # NoCmd /\ h = McFileFD
    /\ at \in Before /\ PrevFileSize = 1 => cmd # NoCmd
    /\ at \in Before /\ i > 1 => (IsDir(i - 1) <=> cmd = NoCmd)
    /\ at = "mkdir" => PrevFileSize = 0

(* Every entry before it is complete, and its buffer has been freed. *)
CopiedOK ==
  Regular(list) =>
    /\ \A e \in Entries :
         e < i /\ ~(cmd # NoCmd /\ e = i - 1) /\ (at # "returned" \/ result = "OK") =>
           Whole(e) /\ (~IsDir(e) => heap[e] = "freed")
    /\ NoDoubleFree

IInv ==
  /\ TypeOK /\ PlaceOK /\ BufferOK /\ WriteOK /\ RegularWriteOK /\ CopiedOK
=============================================================================

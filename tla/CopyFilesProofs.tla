--------------------------- MODULE CopyFilesProofs ---------------------------
(***************************************************************************)
(* Proofs about the copy of an installation's files: IInv is inductive,    *)
(* the safety properties of CopyFiles follow from it, and so does that     *)
(* CopyFiles implements SequentialCopy.                                    *)
(*                                                                         *)
(* There is a lemma for every action; where a conjunct of IInv is not kept *)
(* by itself, its step names the conjuncts it depends on.                  *)
(***************************************************************************)
EXTENDS CopyFiles, TLAPS

-----------------------------------------------------------------------------
(* What a list of entries is *)

LEMMA ListFacts == ASSUME TypeOK PROVE /\ Len(list) \in Nat /\ Entries = 1 .. Len(list) /\ \A e \in Entries : list[e] \in Kinds
  BY ListsAssumption DEF TypeOK, Entries

LEMMA RegularFacts == ASSUME TypeOK, Regular(list) PROVE /\ Len(list) > 0 /\ list[Len(list)] # "dir" /\ \A e \in Entries : list[e] # "empty"
<1>1. Len(list) \in Nat /\ Entries = 1 .. Len(list) /\ list \in Seq(Kinds)
  BY ListFacts, ListsAssumption DEF TypeOK
<1> QED
  BY <1>1 DEF Regular, Entries

LEMMA SyncType == ASSUME TypeOK, NEW next \in Places, SyncMCFileWrite(next), PrevFileSize' \in {0, 1} PROVE TypeOK'
<1>1. Entries' = Entries /\ list' = list
  BY DEF Entries, SyncMCFileWrite
<1>2. heap' \in [Entries -> BufferStates]
  BY DEF TypeOK, SyncMCFileWrite, Free, BufferStates
<1>3. cmd' \in Commands
  <2>1. NoCmd \in Commands
    BY HandlesAssumption DEF NoCmd, Commands, Handles
  <2> QED
    BY <2>1 DEF SyncMCFileWrite
<1>4. open' \in [Handles -> Entries \cup {0}]
  BY DEF TypeOK, SyncMCFileWrite, mcClose
<1>5. at' \in Places /\ result' \in {"OK"} \cup SourceErrors \cup CardErrors
  BY DEF TypeOK, SyncMCFileWrite, Goto, Fails, Places, CardErrors
<1> QED
  BY <1>1, <1>2, <1>3, <1>4, <1>5 DEF TypeOK, SyncMCFileWrite, Commands

LEMMA SignType == ASSUME TypeOK, Sign PROVE TypeOK'
<1>1. Entries' = Entries /\ list' = list
  BY DEF Entries, Sign
<1>2. heap' \in [Entries -> BufferStates]
  BY DEF TypeOK, Sign, BufferStates
<1>5. at' \in Places /\ result' \in {"OK"} \cup SourceErrors \cup CardErrors
  BY DEF TypeOK, Sign, Goto, Fails, Places, CardErrors
<1> QED
  BY <1>1, <1>2, <1>5 DEF TypeOK, Sign, Commands, mcVars

LEMMA OpenTargetType == ASSUME TypeOK, PlaceOK, WriteOK, OpenTarget PROVE TypeOK'
<1>1. Entries' = Entries /\ list' = list
  BY DEF Entries, OpenTarget
<1>2. i \in Entries /\ Size(i) \in {0, 1} /\ Len(list) \in Nat
  BY ListFacts DEF TypeOK, PlaceOK, OpenTarget, InFile, Size
<1>3. NoCmd \in Commands
  BY HandlesAssumption DEF NoCmd, Commands, Handles
<1>4. ASSUME NEW fd \in Handles, StartWrite(fd)
      PROVE  /\ cmd' \in Commands /\ McFileFD' \in Handles /\ PrevFileSize' \in {0, 1}
             /\ at' \in Places /\ result' = result /\ i' \in 1 .. Len(list) + 1
  BY <1>2, <1>4, ListFacts DEF StartWrite, mcWrite, Commands, Goto, Places
<1>5. CASE \E fd \in Handles : mcOpen(i, fd) /\ StartWrite(fd)
  <2>1. open' \in [Handles -> Entries \cup {0}] /\ card' \in [Entries -> [of : Entries \cup {0}, form : Forms]]
    BY <1>2, <1>5 DEF mcOpen, TypeOK, Content, Forms
  <2> QED
    BY <1>1, <1>2, <1>4, <1>5, <2>1 DEF TypeOK, OpenTarget, Commands
<1>6. CASE cmd.state = "done" /\ cmd.answer >= 0 /\ StartWrite(cmd.answer) /\ UNCHANGED <<open, card>>
  <2>1. cmd # NoCmd
    BY <1>6 DEF NoCmd
  <2>2. cmd.answer = 0
    BY <1>6, <2>1 DEF WriteOK, OpenTarget, TypeOK, Commands
  <2>3. cmd.answer \in Handles
    BY <2>2, HandlesAssumption DEF Handles
  <2> QED
    BY <1>1, <1>2, <1>4, <1>6, <2>3 DEF TypeOK, OpenTarget, Commands
<1>7. CASE Fails("MC") /\ McFileFD' = -1 /\ cmd' = NoCmd /\ UNCHANGED <<i, PrevFileSize, open, card>>
  BY <1>1, <1>2, <1>3, <1>7 DEF TypeOK, OpenTarget, Commands, Fails, Places, CardErrors
<1> QED
  BY <1>5, <1>6, <1>7 DEF OpenTarget

LEMMA MakeDirType == ASSUME TypeOK, PlaceOK, MakeDir PROVE TypeOK'
<1>1. Entries' = Entries /\ list' = list
  BY DEF Entries, MakeDir
<1>2. i \in Entries /\ Len(list) \in Nat
  BY ListFacts DEF TypeOK, PlaceOK, MakeDir
<1>3. card' \in [Entries -> [of : Entries \cup {0}, form : Forms]]
  BY <1>2 DEF TypeOK, MakeDir, mcMkDir, Content, Forms
<1>4. i' \in 1 .. Len(list) + 1
  BY <1>2, ListFacts DEF TypeOK, MakeDir
<1>5. at' \in Places /\ result' \in {"OK"} \cup SourceErrors \cup CardErrors
  BY DEF TypeOK, MakeDir, Goto, Fails, Places, CardErrors
<1> QED
  BY <1>1, <1>3, <1>4, <1>5 DEF TypeOK, MakeDir, Commands

LEMMA ServeWriteType == ASSUME TypeOK, WriteOK, ServeWrite PROVE TypeOK'
<1>1. Entries' = Entries /\ list' = list
  BY DEF Entries, ServeWrite
<1>2. cmd # NoCmd /\ cmd.fd \in Handles /\ cmd.size \in {0, 1} /\ cmd.buf \in Entries
  BY DEF ServeWrite, CardWrites, NoCmd, WriteOK, TypeOK, Commands
<1>3. cmd' \in Commands
  <2>1. PICK a \in -1 .. cmd.size : cmd' = [cmd EXCEPT !.state = "done", !.answer = a]
    BY DEF ServeWrite, CardWrites
  <2>2. a \in -1 .. 1
    BY <1>2, <2>1
  <2> QED
    BY <2>1, <2>2 DEF TypeOK, Commands
<1>4. card' \in [Entries -> [of : Entries \cup {0}, form : Forms]]
  BY <1>2 DEF ServeWrite, CardWrites, TypeOK, Content, Forms
<1> QED
  BY <1>1, <1>3, <1>4 DEF TypeOK, ServeWrite, CardWrites, copyVars, Commands

LEMMA SyncCopied ==
  ASSUME IInv, NEW next \in Places \ {"returned"}, SyncMCFileWrite(next), PrevFileSize > 0,
         at \in {"sync_dir", "sync_file"}
  PROVE  CopiedOK'
<1>1. Entries' = Entries /\ list' = list /\ Regular(list)' = Regular(list)
  BY DEF Entries, Regular, SyncMCFileWrite
<1> SUFFICES ASSUME Regular(list) PROVE CopiedOK'
  BY <1>1 DEF CopiedOK
<1>2. /\ PrevFileSize = 1 /\ cmd # NoCmd /\ i - 1 \in Entries /\ ~IsDir(i - 1) /\ buffer = i - 1 /\ heap[i - 1] \in {"plain", "signed"}
      /\ i \in Nat
  BY DEF IInv, TypeOK, RegularWriteOK, WriteOK, Live, Before
<1>3. heap' = [heap EXCEPT ![i - 1] = "freed"] /\ i' = i /\ card' = card /\ cmd' = NoCmd
  BY <1>2, ListFacts DEF IInv, SyncMCFileWrite, Free, TypeOK
<1>4. \A e \in Entries : heap'[e] # "twice"
  BY <1>3 DEF IInv, CopiedOK, NoDoubleFree, TypeOK
<1>5. ASSUME at' # "returned" \/ result' = "OK" PROVE Whole(i - 1)
  <2>1. cmd.state = "done" /\ cmd.answer = 1
    BY <1>2, <1>5 DEF SyncMCFileWrite, mcSync, Fails, Goto, IInv, TypeOK, Commands, WriteOK
  <2> QED
    BY <1>2, <2>1 DEF IInv, RegularWriteOK
<1>6. ASSUME NEW e \in Entries, e < i, at' # "returned" \/ result' = "OK"
      PROVE  Whole(e) /\ (~IsDir(e) => heap'[e] = "freed")
  <2>0. Entries = 1 .. Len(list) /\ Len(list) \in Nat
    BY ListFacts DEF IInv
  <2>1. CASE e = i - 1
    BY <1>2, <1>3, <1>5, <1>6, <2>1 DEF IInv, TypeOK
  <2>2. CASE e # i - 1
    BY <1>2, <1>3, <1>6, <2>0, <2>2 DEF IInv, CopiedOK, TypeOK
  <2> QED
    BY <2>1, <2>2
<1>7. ASSUME NEW e \in Entries PROVE Whole(e)' = Whole(e) /\ IsDir(e)' = IsDir(e)
  BY <1>1, <1>3 DEF Whole, Form, IsDir
<1> QED
  BY <1>1, <1>3, <1>4, <1>6, <1>7 DEF CopiedOK, NoDoubleFree

(* The write is that of the file before the loop's, whose buffer is still there. *)
LEMMA ServeWriteFacts ==
  ASSUME IInv, Regular(list), ServeWrite
  PROVE  /\ cmd # NoCmd /\ i - 1 \in Entries /\ ~IsDir(i - 1) /\ list' = list /\ Entries' = Entries
         /\ \A e \in Entries : e # i - 1 => card'[e] = card[e]
         /\ cmd'.state = "done" /\ cmd' # NoCmd
         /\ Whole(i - 1)' <=> cmd'.answer = 1
<1>1. cmd # NoCmd /\ cmd.state = "busy"
  BY DEF ServeWrite, CardWrites, NoCmd
<1>2. cmd.size = 1 /\ cmd.buf = i - 1 /\ open[cmd.fd] = i - 1 /\ ~IsDir(i - 1) /\ Live(i - 1) /\ i - 1 \in Entries
  BY <1>1 DEF IInv, RegularWriteOK, WriteOK
<1>3. list' = list /\ Entries' = Entries /\ i' = i
  BY DEF ServeWrite, Entries, copyVars
<1>4. i - 1 # 0
  BY <1>2, ListFacts DEF IInv
<1> DEFINE bytes == Content(cmd.buf, IF heap[cmd.buf] \in {"plain", "signed"} THEN heap[cmd.buf] ELSE "junk")
<1>a. CardWrites(bytes)
  BY DEF ServeWrite
<1> HIDE DEF bytes
<1>b. PICK a \in -1 .. cmd.size :
        /\ cmd' = [cmd EXCEPT !.state = "done", !.answer = a]
        /\ IF open[cmd.fd] = 0 \/ cmd.size = 0
           THEN UNCHANGED card
           ELSE card' = [card EXCEPT ![open[cmd.fd]] = IF a = cmd.size THEN bytes ELSE Content(cmd.buf, "part")]
  BY <1>a DEF CardWrites
<1>5.   /\ cmd' = [cmd EXCEPT !.state = "done", !.answer = a]
        /\ card' = [card EXCEPT ![i - 1] =
                     IF a = 1 THEN Content(i - 1, IF heap[i - 1] \in {"plain", "signed"} THEN heap[i - 1] ELSE "junk")
                     ELSE Content(i - 1, "part")]
  BY <1>2, <1>4, <1>b DEF bytes
<1>6. cmd'.state = "done" /\ cmd'.answer = a /\ cmd' # NoCmd
  BY <1>5 DEF IInv, TypeOK, Commands, NoCmd
<1>7. list[i - 1] \in {"file", "kelf"}
  BY <1>2, ListFacts, RegularFacts DEF IInv, IsDir, Kinds
<1>8. ASSUME a = 1 PROVE Whole(i - 1)'
  <2>1. Form(i - 1)' = heap[i - 1] /\ heap[i - 1] \in {"plain", "signed"}
    BY <1>2, <1>3, <1>7 DEF Form, Live, IsDir
  <2>2. card'[i - 1] = Content(i - 1, heap[i - 1])
    BY <1>2, <1>5, <1>8, <2>1 DEF IInv, TypeOK
  <2> QED
    BY <1>3, <2>1, <2>2 DEF Whole, Content, Form, IsDir
<1>9. ASSUME a # 1 PROVE ~Whole(i - 1)'
  <2>1. card'[i - 1].form = "part"
    BY <1>2, <1>5, <1>9 DEF IInv, TypeOK, Content
  <2>2. Form(i - 1)' \in {"plain", "signed"}
    BY <1>2, <1>3, <1>7 DEF Form, Live, IsDir
  <2>3. Whole(i - 1)' => card'[i - 1].form = Form(i - 1)'
    BY <1>3 DEF Whole, Content
  <2> QED
    BY <2>1, <2>2, <2>3
<1> QED
  BY <1>1, <1>2, <1>3, <1>5, <1>6, <1>8, <1>9 DEF IInv, TypeOK

LEMMA ServeWriteRegular ==
  ASSUME IInv, ServeWrite
  PROVE  RegularWriteOK' /\ CopiedOK'
<1>1. Entries' = Entries /\ list' = list /\ Regular(list)' = Regular(list) /\ UNCHANGED <<copyVars, open>>
  BY DEF Entries, Regular, ServeWrite, CardWrites
<1> SUFFICES ASSUME Regular(list) PROVE RegularWriteOK' /\ CopiedOK'
  BY <1>1 DEF RegularWriteOK, CopiedOK
<1>2. \A e \in Entries : IsDir(e)' = IsDir(e)
  BY <1>1 DEF IsDir
<1>3. IsDir(i - 1)' = IsDir(i - 1)
  BY <1>1 DEF IsDir, copyVars
<1>4. cmd'.buf = cmd.buf /\ cmd'.fd = cmd.fd
  BY DEF ServeWrite, CardWrites, IInv, TypeOK, Commands
<1>5. RegularWriteOK'
  BY <1>1, <1>3, <1>4, ServeWriteFacts DEF IInv, RegularWriteOK, copyVars
<1>6. ASSUME NEW e \in Entries, e # i - 1 PROVE Whole(e)' = Whole(e)
  BY <1>1, <1>2, <1>6, ServeWriteFacts DEF Whole, Form, IsDir
<1>7. CopiedOK'
  BY <1>1, <1>2, <1>6, ServeWriteFacts DEF IInv, CopiedOK, NoDoubleFree, copyVars
<1> QED
  BY <1>5, <1>7

-----------------------------------------------------------------------------
(* The actions *)

LEMMA LoopStep == ASSUME IInv, Loop PROVE IInv'
<1>a. list' = list /\ Entries' = Entries /\ Regular(list)' = Regular(list)
  BY DEF Entries, Regular, Goto, IsDir, Loop, mcVars
<1>1. BufferOK' /\ WriteOK' /\ RegularWriteOK' /\ CopiedOK'
  BY <1>a DEF IInv, Loop, BufferOK, WriteOK, RegularWriteOK, CopiedOK, SourceErrors, CardErrors,
     Before, Content, Form, Goto, Handles, IsDir, Live, NoCmd, NoDoubleFree, Whole, mcVars
<1>2. TypeOK'
  BY <1>a DEF IInv, Loop, TypeOK, Kinds, SourceErrors, CardErrors, BufferStates, Commands,
     Forms, Goto, Handles, IsDir, Places, mcVars
<1>3. PlaceOK'
  BY DEF IInv, Loop, PlaceOK, TypeOK, RegularWriteOK, Kinds, SourceErrors, CardErrors, Before,
     BufferStates, Commands, Content, Form, Forms, Goto, Handles, InFile, IsDir, NoCmd, Places,
     Whole, mcVars
<1> QED
  BY <1>1, <1>2, <1>3 DEF IInv

LEMMA SyncBeforeDirStep == ASSUME IInv, SyncBeforeDir PROVE IInv'
<1>a. list' = list /\ Entries' = Entries /\ Regular(list)' = Regular(list)
  BY DEF Entries, Regular, Fails, Free, Goto, Handles, NoCmd, SyncBeforeDir, SyncMCFileWrite,
     mcClose, mcSync, mcVars
<1>b. /\ Len(list) \in Nat /\ Entries = 1 .. Len(list)
      /\ \A e \in Entries : list[e] \in Kinds
  BY ListFacts DEF IInv
<1>1. PlaceOK' /\ BufferOK'
  BY <1>a DEF IInv, SyncBeforeDir, PlaceOK, BufferOK, SourceErrors, CardErrors, Fails, Free,
     Goto, Handles, InFile, IsDir, Live, NoCmd, SyncMCFileWrite, mcClose, mcSync, mcVars
<1>2. TypeOK'
  <2>1. CASE i > 1 /\ PrevFileSize > 0
    BY <2>1, SyncType DEF IInv, TypeOK, SyncBeforeDir, Places
  <2>2. CASE ~(i > 1 /\ PrevFileSize > 0)
    BY <2>2, <1>a DEF IInv, TypeOK, SyncBeforeDir, Goto, Places, mcVars, Commands
  <2> QED
    BY <2>1, <2>2
<1>3. WriteOK'
  BY <1>a, <1>b DEF IInv, SyncBeforeDir, WriteOK, TypeOK, Kinds, SourceErrors, CardErrors,
     BufferStates, Commands, Fails, Forms, Free, Goto, Handles, Live, NoCmd, Places,
     SyncMCFileWrite, mcClose, mcSync, mcVars
<1>4. RegularWriteOK'
  BY <1>b, HandlesAssumption DEF IInv, SyncBeforeDir, RegularWriteOK, TypeOK, WriteOK, Kinds,
     SourceErrors, CardErrors, Before, BufferStates, Commands, Content, Fails, Form, Forms,
     Free, Goto, Handles, IsDir, Live, NoCmd, Places, SyncMCFileWrite, Whole, mcClose, mcSync,
     mcVars
<1>5. CopiedOK'
  <2>1. CASE i > 1 /\ PrevFileSize > 0
    BY <2>1, SyncCopied DEF SyncBeforeDir, Places
  <2>2. CASE ~(i > 1 /\ PrevFileSize > 0)
    BY <2>2, <1>a DEF IInv, CopiedOK, NoDoubleFree, Whole, Form, IsDir, SyncBeforeDir, Goto, mcVars
  <2> QED
    BY <2>1, <2>2
<1> QED
  BY <1>1, <1>2, <1>3, <1>4, <1>5 DEF IInv

LEMMA MakeDirStep == ASSUME IInv, MakeDir PROVE IInv'
<1>a. list' = list /\ Entries' = Entries /\ Regular(list)' = Regular(list)
  BY DEF Entries, Regular, Content, Fails, Goto, MakeDir, NoCmd, mcMkDir
<1>b. /\ Len(list) \in Nat /\ Entries = 1 .. Len(list)
      /\ \A e \in Entries : list[e] \in Kinds
  BY ListFacts DEF IInv
<1>1. BufferOK'
  BY <1>a DEF IInv, MakeDir, BufferOK, SourceErrors, CardErrors, Content, Fails, Goto, Live,
     NoCmd, mcMkDir
<1>2. TypeOK'
  BY MakeDirType DEF IInv
<1>3. PlaceOK'
  BY <1>b DEF IInv, MakeDir, PlaceOK, TypeOK, Kinds, SourceErrors, CardErrors, BufferStates,
     Commands, Content, Fails, Forms, Goto, Handles, InFile, IsDir, NoCmd, Places, mcMkDir
<1>4. WriteOK'
  BY <1>a, <1>b DEF IInv, MakeDir, WriteOK, TypeOK, Kinds, SourceErrors, CardErrors,
     BufferStates, Commands, Content, Fails, Forms, Goto, Handles, Live, NoCmd, Places, mcMkDir
<1>5. RegularWriteOK'
  BY DEF IInv, MakeDir, RegularWriteOK, TypeOK, PlaceOK, Kinds, SourceErrors, CardErrors,
     Before, BufferStates, Commands, Content, Fails, Form, Forms, Goto, Handles, InFile, IsDir,
     NoCmd, Places, Whole, mcMkDir
<1>6. CopiedOK'
  BY <1>a, <1>b DEF IInv, MakeDir, CopiedOK, TypeOK, PlaceOK, RegularWriteOK, Kinds,
     SourceErrors, CardErrors, Before, BufferStates, Commands, Content, Fails, Form, Forms,
     Goto, Handles, InFile, IsDir, NoCmd, NoDoubleFree, Places, Whole, mcMkDir
<1> QED
  BY <1>1, <1>2, <1>3, <1>4, <1>5, <1>6 DEF IInv

LEMMA ReadSourceStep == ASSUME IInv, ReadSource PROVE IInv'
<1>a. list' = list /\ Entries' = Entries /\ Regular(list)' = Regular(list)
  BY DEF Entries, Regular, Fails, Goto, ReadSource, mcVars
<1>b. /\ Len(list) \in Nat /\ Entries = 1 .. Len(list)
      /\ \A e \in Entries : list[e] \in Kinds
  BY ListFacts DEF IInv
<1>1. PlaceOK' /\ RegularWriteOK'
  BY <1>a DEF IInv, ReadSource, PlaceOK, RegularWriteOK, SourceErrors, CardErrors, Before,
     Content, Fails, Form, Goto, Handles, InFile, IsDir, NoCmd, Whole, mcVars
<1>2. TypeOK'
  BY <1>a DEF IInv, ReadSource, TypeOK, Kinds, SourceErrors, CardErrors, BufferStates, Commands,
     Fails, Forms, Goto, Handles, Places, mcVars
<1>3. BufferOK'
  BY <1>b DEF IInv, ReadSource, BufferOK, TypeOK, PlaceOK, Kinds, SourceErrors, CardErrors,
     BufferStates, Commands, Fails, Forms, Goto, Handles, InFile, IsDir, Live, Places, mcVars
<1>4. WriteOK'
  BY <1>a DEF IInv, ReadSource, WriteOK, TypeOK, Kinds, SourceErrors, CardErrors, BufferStates,
     Commands, Fails, Forms, Goto, Handles, Live, NoCmd, Places, mcVars
<1>5. CopiedOK'
  BY <1>a, <1>b DEF IInv, ReadSource, CopiedOK, TypeOK, Kinds, SourceErrors, CardErrors,
     BufferStates, Commands, Content, Fails, Form, Forms, Goto, Handles, IsDir, NoCmd,
     NoDoubleFree, Places, Whole, mcVars
<1> QED
  BY <1>1, <1>2, <1>3, <1>4, <1>5 DEF IInv

LEMMA SyncBeforeFileStep == ASSUME IInv, SyncBeforeFile PROVE IInv'
<1>a. list' = list /\ Entries' = Entries /\ Regular(list)' = Regular(list)
  BY DEF Entries, Regular, Fails, Free, Goto, Handles, NoCmd, SyncBeforeFile, SyncMCFileWrite,
     mcClose, mcSync, mcVars
<1>b. /\ Len(list) \in Nat /\ Entries = 1 .. Len(list)
      /\ \A e \in Entries : list[e] \in Kinds
  BY ListFacts DEF IInv
<1>1. PlaceOK'
  BY <1>a DEF IInv, SyncBeforeFile, PlaceOK, SourceErrors, CardErrors, Fails, Free, Goto,
     Handles, InFile, IsDir, NoCmd, SyncMCFileWrite, mcClose, mcSync, mcVars
<1>2. TypeOK'
  <2>1. CASE i > 1 /\ PrevFileSize > 0
    BY <2>1, SyncType DEF IInv, TypeOK, SyncBeforeFile, Places
  <2>2. CASE ~(i > 1 /\ PrevFileSize > 0)
    BY <2>2, <1>a DEF IInv, TypeOK, SyncBeforeFile, Goto, Places, mcVars, Commands
  <2> QED
    BY <2>1, <2>2
<1>3. BufferOK'
  BY <1>b DEF IInv, SyncBeforeFile, BufferOK, TypeOK, PlaceOK, Kinds, SourceErrors, CardErrors,
     BufferStates, Commands, Fails, Forms, Free, Goto, Handles, InFile, IsDir, Live, NoCmd,
     Places, SyncMCFileWrite, mcClose, mcSync, mcVars
<1>4. WriteOK'
  BY <1>a DEF IInv, SyncBeforeFile, WriteOK, TypeOK, Kinds, SourceErrors, CardErrors,
     BufferStates, Commands, Fails, Forms, Free, Goto, Handles, Live, NoCmd, Places,
     SyncMCFileWrite, mcClose, mcSync, mcVars
<1>5. RegularWriteOK'
  BY <1>b, HandlesAssumption DEF IInv, SyncBeforeFile, RegularWriteOK, TypeOK, WriteOK, Kinds,
     SourceErrors, CardErrors, Before, BufferStates, Commands, Content, Fails, Form, Forms,
     Free, Goto, Handles, IsDir, Live, NoCmd, Places, SyncMCFileWrite, Whole, mcClose, mcSync,
     mcVars
<1>6. CopiedOK'
  <2>1. CASE i > 1 /\ PrevFileSize > 0
    BY <2>1, SyncCopied DEF SyncBeforeFile, Places
  <2>2. CASE ~(i > 1 /\ PrevFileSize > 0)
    BY <2>2, <1>a DEF IInv, CopiedOK, NoDoubleFree, Whole, Form, IsDir, SyncBeforeFile, Goto, mcVars
  <2> QED
    BY <2>1, <2>2
<1> QED
  BY <1>1, <1>2, <1>3, <1>4, <1>5, <1>6 DEF IInv

LEMMA SignStep == ASSUME IInv, Sign PROVE IInv'
<1>a. list' = list /\ Entries' = Entries /\ Regular(list)' = Regular(list)
  BY DEF Entries, Regular, Fails, Goto, Sign, mcVars
<1>b. /\ Len(list) \in Nat /\ Entries = 1 .. Len(list)
      /\ \A e \in Entries : list[e] \in Kinds
  BY ListFacts DEF IInv
<1>1. PlaceOK' /\ RegularWriteOK'
  BY <1>a DEF IInv, Sign, PlaceOK, RegularWriteOK, SourceErrors, CardErrors, Before, Content,
     Fails, Form, Goto, Handles, InFile, IsDir, NoCmd, Whole, mcVars
<1>2. TypeOK'
  BY SignType DEF IInv
<1>3. BufferOK'
  BY <1>b DEF IInv, Sign, BufferOK, TypeOK, PlaceOK, Kinds, SourceErrors, CardErrors,
     BufferStates, Commands, Fails, Forms, Goto, Handles, InFile, IsDir, Live, Places, mcVars
<1>4. WriteOK'
  BY <1>a DEF IInv, Sign, WriteOK, TypeOK, Kinds, SourceErrors, CardErrors, BufferStates,
     Commands, Fails, Forms, Goto, Handles, Live, NoCmd, Places, mcVars
<1>5. CopiedOK'
  BY <1>a, <1>b DEF IInv, Sign, CopiedOK, TypeOK, Kinds, SourceErrors, CardErrors, BufferStates,
     Commands, Content, Fails, Form, Forms, Goto, Handles, IsDir, NoCmd, NoDoubleFree, Places,
     Whole, mcVars
<1> QED
  BY <1>1, <1>2, <1>3, <1>4, <1>5 DEF IInv

LEMMA OpenTargetStep == ASSUME IInv, OpenTarget PROVE IInv'
<1>a. list' = list /\ Entries' = Entries /\ Regular(list)' = Regular(list)
  BY DEF Entries, Regular, Content, Fails, Goto, Handles, NoCmd, OpenTarget, Size, StartWrite,
     mcOpen, mcWrite
<1>b. /\ Len(list) \in Nat /\ Entries = 1 .. Len(list)
      /\ \A e \in Entries : list[e] \in Kinds
  BY ListFacts DEF IInv
<1>c. Regular(list) => /\ Len(list) > 0 /\ list[Len(list)] # "dir"
                       /\ \A e \in Entries : list[e] # "empty"
  BY RegularFacts DEF IInv
<1>1. BufferOK'
  BY <1>a DEF IInv, OpenTarget, BufferOK, SourceErrors, CardErrors, Content, Fails, Goto,
     Handles, Live, NoCmd, Size, StartWrite, mcOpen, mcWrite
<1>2. TypeOK'
  BY OpenTargetType DEF IInv
<1>3. PlaceOK'
  BY DEF IInv, OpenTarget, PlaceOK, TypeOK, Kinds, SourceErrors, CardErrors, BufferStates,
     Commands, Content, Fails, Forms, Goto, Handles, InFile, IsDir, NoCmd, Places, Size,
     StartWrite, mcOpen, mcWrite
<1>4. WriteOK'
  BY <1>a, <1>b DEF IInv, OpenTarget, WriteOK, TypeOK, PlaceOK, BufferOK, Kinds, SourceErrors,
     CardErrors, BufferStates, Commands, Content, Fails, Forms, Goto, Handles, InFile, IsDir,
     Live, NoCmd, Places, Size, StartWrite, mcOpen, mcWrite
<1>5. RegularWriteOK'
  BY <1>b, <1>c, HandlesAssumption DEF IInv, OpenTarget, RegularWriteOK, TypeOK, PlaceOK, Kinds,
     SourceErrors, CardErrors, Before, BufferStates, Commands, Content, Fails, Form, Forms,
     Goto, Handles, InFile, IsDir, NoCmd, Places, Size, StartWrite, Whole, mcOpen, mcWrite
<1>6. CopiedOK'
  BY <1>a, <1>b, <1>c DEF IInv, OpenTarget, CopiedOK, TypeOK, RegularWriteOK, Kinds,
     SourceErrors, CardErrors, Before, BufferStates, Commands, Content, Fails, Form, Forms,
     Goto, Handles, IsDir, NoCmd, NoDoubleFree, Places, Size, StartWrite, Whole, mcOpen, mcWrite
<1> QED
  BY <1>1, <1>2, <1>3, <1>4, <1>5, <1>6 DEF IInv

LEMMA FinalSyncStep == ASSUME IInv, FinalSync PROVE IInv'
<1>a. list' = list /\ Entries' = Entries /\ Regular(list)' = Regular(list)
  BY DEF Entries, Regular, Fails, FinalSync, Free, Goto, Handles, NoCmd, SyncMCFileWrite,
     mcClose, mcSync
<1>b. /\ Len(list) \in Nat /\ Entries = 1 .. Len(list)
      /\ \A e \in Entries : list[e] \in Kinds
  BY ListFacts DEF IInv
<1>c. Regular(list) => /\ Len(list) > 0 /\ list[Len(list)] # "dir"
                       /\ \A e \in Entries : list[e] # "empty"
  BY RegularFacts DEF IInv
<1>1. PlaceOK' /\ BufferOK' /\ WriteOK' /\ RegularWriteOK'
  BY <1>a DEF IInv, FinalSync, PlaceOK, BufferOK, WriteOK, RegularWriteOK, SourceErrors,
     CardErrors, Before, Content, Fails, Form, Free, Goto, Handles, InFile, IsDir, Live, NoCmd,
     SyncMCFileWrite, Whole, mcClose, mcSync
<1>2. TypeOK'
  BY SyncType DEF IInv, FinalSync, Places, TypeOK
<1>3. CopiedOK'
  BY <1>a, <1>b, <1>c DEF IInv, FinalSync, CopiedOK, TypeOK, PlaceOK, WriteOK, RegularWriteOK,
     Kinds, SourceErrors, CardErrors, Before, BufferStates, Commands, Content, Fails, Form,
     Forms, Free, Goto, Handles, InFile, IsDir, Live, NoCmd, NoDoubleFree, Places,
     SyncMCFileWrite, Whole, mcClose, mcSync
<1> QED
  BY <1>1, <1>2, <1>3 DEF IInv

LEMMA ServeWriteStep == ASSUME IInv, ServeWrite PROVE IInv'
<1>a. list' = list /\ Entries' = Entries /\ Regular(list)' = Regular(list)
  BY DEF Entries, Regular, CardWrites, Content, ServeWrite, copyVars
<1>1. PlaceOK' /\ BufferOK' /\ WriteOK'
  BY <1>a DEF IInv, ServeWrite, PlaceOK, BufferOK, WriteOK, SourceErrors, CardErrors,
     CardWrites, Content, InFile, IsDir, Live, NoCmd, copyVars
<1>2. TypeOK'
  BY ServeWriteType DEF IInv
<1>3. RegularWriteOK' /\ CopiedOK'
  BY ServeWriteRegular
<1> QED
  BY <1>1, <1>2, <1>3 DEF IInv

-----------------------------------------------------------------------------
(* The invariant *)

LEMMA InitInv == Init => IInv
<1> SUFFICES ASSUME Init PROVE IInv
  OBVIOUS
<1>1. Len(list) \in Nat /\ Entries = 1 .. Len(list) /\ NoCmd \in Commands
  BY ListsAssumption, HandlesAssumption DEF Init, Entries, NoCmd, Commands, Handles
<1>2. TypeOK
  BY <1>1 DEF Init, TypeOK, Places, BufferStates, Content, Forms
<1>3. PlaceOK /\ BufferOK /\ WriteOK
  BY <1>1 DEF Init, PlaceOK, BufferOK, WriteOK, InFile
<1>4. RegularWriteOK /\ CopiedOK
  BY <1>1 DEF Init, RegularWriteOK, CopiedOK, NoDoubleFree, Handles
<1> QED
  BY <1>2, <1>3, <1>4 DEF IInv

LEMMA StutterStep == ASSUME IInv, UNCHANGED vars PROVE IInv'
<1>1. Entries' = Entries /\ Regular(list)' = Regular(list)
  BY DEF vars, Entries, Regular
<1>2. TypeOK' /\ PlaceOK' /\ BufferOK' /\ WriteOK'
  BY <1>1 DEF IInv, TypeOK, PlaceOK, BufferOK, WriteOK, Live, IsDir, Commands, vars, copyVars, mcVars
<1>3. RegularWriteOK' /\ CopiedOK'
  BY <1>1 DEF IInv, RegularWriteOK, CopiedOK, NoDoubleFree, Whole, Form, IsDir, vars, copyVars, mcVars
<1> QED
  BY <1>2, <1>3 DEF IInv

LEMMA NextStep == IInv /\ [Next]_vars => IInv'
  BY LoopStep, SyncBeforeDirStep, MakeDirStep, ReadSourceStep, SyncBeforeFileStep, SignStep, OpenTargetStep,
     FinalSyncStep, ServeWriteStep, StutterStep DEF Next, Copy

(* CopyFiles and the IOP keep the inductive invariant, on any list. *)
THEOREM Invariance == Spec => []IInv
<1> QED
  BY InitInv, NextStep, PTL DEF Spec

(* Every variable keeps its type: also on a list that is not regular, no
   entry past the last is touched and mcWrite is given a handle. *)
THEOREM TypeCorrect == Spec => []TypeOK
<1>1. IInv => TypeOK
  BY DEF IInv
<1> QED
  BY <1>1, Invariance, PTL

(* A copy of a regular list, of whatever length, that is reported as a
   success has completed and closed every entry and freed every buffer. *)
THEOREM SuccessMeansWhole == Spec => []SuccessIsWhole
<1>1. IInv => SuccessIsWhole
  <2> SUFFICES ASSUME IInv, Regular(list), at = "returned", result = "OK"
               PROVE  /\ \A e \in Entries : Whole(e) /\ ~IsOpen(e) /\ (~IsDir(e) => heap[e] = "freed")
                      /\ cmd = NoCmd
    BY DEF SuccessIsWhole
  <2>1. cmd = NoCmd
    BY DEF IInv, RegularWriteOK, Before, SourceErrors
  <2>2. i = Len(list) + 1 /\ Entries = 1 .. Len(list) /\ Len(list) \in Nat
    BY ListFacts DEF IInv, PlaceOK
  <2>3. \A e \in Entries : ~IsOpen(e)
    BY <2>1, <2>2 DEF IInv, RegularWriteOK, IsOpen
  <2>4. \A e \in Entries : e < i
    BY <2>2
  <2> QED
    BY <2>1, <2>3, <2>4 DEF IInv, CopiedOK
<1> QED
  BY <1>1, Invariance, PTL

(* The card takes bytes from a live and signed buffer only, on a regular list
   from the one of the file it writes. *)
THEOREM WritesFromOwnBuffer == Spec => []WriteFromOwnBuffer
<1>1. IInv => WriteFromOwnBuffer
  BY DEF IInv, WriteFromOwnBuffer, WriteOK, RegularWriteOK, NoCmd, Live
<1> QED
  BY <1>1, Invariance, PTL

(* No buffer is freed twice while a regular list is copied. *)
THEOREM BuffersFreedOnce == Spec => []NoDoubleFree
<1>1. IInv => NoDoubleFree
  BY DEF IInv, CopiedOK, NoDoubleFree
<1> QED
  BY <1>1, Invariance, PTL

(* A copy given up leaves the card busy for want of a source file only. *)
THEOREM CardLeftBusy == Spec => []CardLeftBusyOnlyBySource
<1>1. IInv => CardLeftBusyOnlyBySource
  <2> SUFFICES ASSUME IInv, Regular(list), at = "returned", cmd # NoCmd \/ \E e \in Entries : IsOpen(e)
               PROVE  result \in SourceErrors
    BY DEF CardLeftBusyOnlyBySource
  <2>1. cmd # NoCmd
    BY ListFacts DEF IInv, RegularWriteOK, IsOpen
  <2> QED
    BY <2>1 DEF IInv, RegularWriteOK, Before
<1> QED
  BY <1>1, Invariance, PTL

-----------------------------------------------------------------------------
(***************************************************************************)
(* CopyFiles implements SequentialCopy.  The step that completes an entry  *)
(* is the wait for its write, or the creation of its folder.               *)
(***************************************************************************)

(* How many entries are complete, by whether there is a write not waited for *)
LEMMA CopiedValue ==
  ASSUME IInv, Regular(list)
  PROVE  /\ cmd # NoCmd => i > 1 /\ i - 1 \in Entries /\ copied = i - 2
         /\ cmd = NoCmd /\ at # "returned" => copied = i - 1
<1>1. Entries = 1 .. Len(list) /\ Len(list) \in Nat /\ i \in 1 .. Len(list) + 1
  BY ListFacts DEF IInv, TypeOK
<1>2. ASSUME cmd # NoCmd PROVE i > 1 /\ i - 1 \in Entries /\ IsOpen(i - 1)
  <2>1. cmd.fd \in Handles /\ open[cmd.fd] = i - 1 /\ cmd.buf = i - 1 /\ cmd.buf \in Entries
    BY <1>2 DEF IInv, TypeOK, Commands, RegularWriteOK, WriteOK
  <2> QED
    BY <1>1, <2>1 DEF IsOpen
<1>3. ASSUME cmd = NoCmd, at # "returned", i > 1 PROVE Whole(i - 1) /\ ~IsOpen(i - 1)
  BY <1>1, <1>3 DEF IInv, CopiedOK, RegularWriteOK, IsOpen
<1> QED
  BY <1>1, <1>2, <1>3 DEF copied

(* The same of the state after a step *)
LEMMA OpenWhileWriting == IInv /\ Regular(list) /\ cmd # NoCmd => i > 1 /\ IsOpen(i - 1)
<1> SUFFICES ASSUME IInv, Regular(list), cmd # NoCmd PROVE i > 1 /\ IsOpen(i - 1)
  OBVIOUS
<1>1. cmd.fd \in Handles /\ open[cmd.fd] = i - 1
  BY DEF IInv, TypeOK, Commands, RegularWriteOK
<1> QED
  BY <1>1, CopiedValue DEF IsOpen

LEMMA OpenWhileWritingNext == (IInv /\ Regular(list) /\ cmd # NoCmd => i > 1 /\ IsOpen(i - 1))'
  BY OpenWhileWriting, PTL

(* Waiting for the write completes the entry before the loop's, or fails and leaves it incomplete. *)
LEMMA SyncImplements ==
  ASSUME IInv, IInv', Regular(list), cmd # NoCmd, at \in Before, NEW next \in Places, SyncMCFileWrite(next)
  PROVE  /\ list' = list /\ card' = card
         /\ \/ /\ at' = next /\ result' = result
               /\ copied' = copied + 1 /\ copied + 1 = i - 1
               /\ card[copied + 1] = Sequential!Complete(copied + 1)
            \/ at' = "returned" /\ result' # "OK" /\ copied' = copied
<1>1. copied = i - 2 /\ i - 1 \in Entries /\ i > 1 /\ Entries = 1 .. Len(list) /\ Len(list) \in Nat /\ i \in Nat
  BY CopiedValue, ListFacts DEF IInv, TypeOK
<1>2. list' = list /\ card' = card /\ i' = i /\ cmd' = NoCmd /\ Entries' = Entries /\ Regular(list)'
  BY DEF SyncMCFileWrite, Entries, Regular
<1>3. \A e \in Entries : ~IsOpen(e)'
  BY <1>1, <1>2 DEF IInv, RegularWriteOK, IsOpen
<1>4. Whole(i - 1)' = Whole(i - 1)
  BY <1>2 DEF Whole, Form, IsDir
<1>5. PrevFileSize = 1 /\ cmd.state = "done" /\ (Whole(i - 1) <=> cmd.answer = 1) /\ ~IsDir(i - 1)
  BY DEF IInv, TypeOK, Commands, RegularWriteOK, WriteOK, SyncMCFileWrite, mcSync
<1>6. IsOpen(i - 1)' = FALSE
  <2>1. ~IsOpen(i - 1)'
    BY <1>1, <1>2, <1>3 DEF IsOpen
  <2> QED
    BY <2>1 DEF IsOpen
<1>7. CASE cmd.answer = 1
  <2>1. at' = next /\ result' = result
    BY <1>5, <1>7 DEF SyncMCFileWrite, mcSync, Goto
  <2>2. copied' = i - 1
    BY <1>1, <1>2, <1>4, <1>5, <1>6, <1>7 DEF copied
  <2>3. card[i - 1] = Sequential!Complete(i - 1)
    BY <1>1, <1>5, <1>7, ListFacts, RegularFacts DEF IInv, Whole, Form, Content, IsDir, Kinds, Sequential!Complete
  <2> QED
    BY <1>1, <1>2, <2>1, <2>2, <2>3
<1>8. CASE cmd.answer # 1
  <2>1. at' = "returned" /\ result' # "OK"
    BY <1>5, <1>8 DEF SyncMCFileWrite, mcSync, Fails
  <2>2. copied' = i - 2
    BY <1>1, <1>2, <1>4, <1>5, <1>6, <1>8 DEF copied
  <2> QED
    BY <1>1, <1>2, <2>1, <2>2
<1> QED
  BY <1>7, <1>8

LEMMA Stutters == ASSUME UNCHANGED <<list, i, card, open>> PROVE copied' = copied
  BY DEF copied, IsOpen, Whole, Form, IsDir, Entries

LEMMA LoopImplements ==
  ASSUME IInv, IInv', Regular(list), Loop \/ Sign \/ ReadSource
  PROVE  Sequential!Fail \/ UNCHANGED Sequential!vars
<1>1. copied' = copied /\ UNCHANGED <<list, card>>
  BY Stutters DEF Loop, Sign, ReadSource, mcVars
<1>2. at # "returned" /\ (at' # "returned" \/ result' # "OK")
  BY DEF Loop, Sign, ReadSource, Goto, Fails
<1> QED
  BY <1>1, <1>2 DEF Sequential!Fail, Sequential!vars, status

LEMMA SyncBeforeImplements ==
  ASSUME IInv, IInv', Regular(list), SyncBeforeDir \/ SyncBeforeFile
  PROVE  Sequential!Copy \/ Sequential!Fail \/ UNCHANGED Sequential!vars
<1>1. at \in Before /\ at # "returned" /\ PrevFileSize \in {0, 1}
  BY DEF SyncBeforeDir, SyncBeforeFile, Before, IInv, TypeOK
<1>2. CASE i > 1 /\ PrevFileSize > 0
  <2>1. cmd # NoCmd
    BY <1>1, <1>2 DEF IInv, RegularWriteOK
  <2>2. PICK next \in Places \ {"returned"} : SyncMCFileWrite(next)
    BY <1>2 DEF SyncBeforeDir, SyncBeforeFile, Places
  <2>3. copied < Len(list)
    BY <2>1, CopiedValue, ListFacts DEF IInv, TypeOK
  <2> QED
    BY <1>1, <2>1, <2>2, <2>3, SyncImplements DEF status, Sequential!Copy, Sequential!Finish, Sequential!Fail
<1>3. CASE ~(i > 1 /\ PrevFileSize > 0)
  <2>1. copied' = copied /\ UNCHANGED <<list, card>> /\ at' # "returned"
    BY <1>3, Stutters DEF SyncBeforeDir, SyncBeforeFile, mcVars, Goto
  <2> QED
    BY <1>1, <2>1 DEF status, Sequential!vars
<1> QED
  BY <1>2, <1>3

LEMMA FinalSyncImplements ==
  ASSUME IInv, IInv', Regular(list), FinalSync
  PROVE  Sequential!Succeed \/ Sequential!Fail
<1>1. at = "final" /\ i = Len(list) + 1 /\ result = "OK" /\ SyncMCFileWrite("returned")
  BY DEF FinalSync, IInv, PlaceOK
<1>2. Len(list) \in Nat /\ Len(list) > 0 /\ ~IsDir(i - 1)
  BY <1>1, ListFacts, RegularFacts DEF IInv, IsDir
<1>3. cmd # NoCmd
  BY <1>1, <1>2 DEF IInv, RegularWriteOK, Before
<1>4. copied = i - 2
  BY <1>3, CopiedValue
<1> QED
  BY <1>1, <1>2, <1>3, <1>4, SyncImplements DEF Before, Places, status, Sequential!Succeed, Sequential!Finish,
     Sequential!Fail

LEMMA MakeDirImplements ==
  ASSUME IInv, IInv', Regular(list), MakeDir
  PROVE  Sequential!Copy \/ Sequential!Fail
<1>1. cmd = NoCmd /\ copied = i - 1 /\ i \in Entries /\ IsDir(i) /\ at = "mkdir"
  BY CopiedValue, ListFacts DEF MakeDir, IInv, TypeOK, PlaceOK, RegularWriteOK, Before
<1>2. i \in Nat /\ Len(list) \in Nat /\ i <= Len(list) /\ list' = list /\ Entries' = Entries /\ cmd' = cmd
  BY ListFacts DEF MakeDir, IInv, TypeOK, PlaceOK, Entries
<1>3. CASE mcMkDir(i) /\ Goto("loop") /\ i' = i + 1
  <2>1. copied' = i' - 1
    BY <1>1, <1>2, <1>3, CopiedValue DEF Goto, Regular, copied, IInv, CopiedOK, RegularWriteOK, IsOpen
  <2>2. card' = [card EXCEPT ![i] = Sequential!Complete(i)]
    BY <1>1, <1>3 DEF mcMkDir, Content, IsDir, Sequential!Complete
  <2>3. \A e \in Entries : card'[e] = IF e = copied + 1 THEN Sequential!Complete(e) ELSE card[e]
    BY <1>1, <1>2, <2>2 DEF IInv, TypeOK
  <2>4. at' # "returned"
    BY <1>3 DEF Goto
  <2> QED
    BY <1>1, <1>2, <1>3, <2>1, <2>3, <2>4 DEF status, Sequential!Copy, Sequential!Finish, Entries
<1>4. CASE Fails("MC") /\ UNCHANGED <<i, card>>
  <2>1. copied' = copied
    BY <1>2, <1>4, Stutters DEF MakeDir
  <2> QED
    BY <1>1, <1>4, <2>1 DEF status, Fails, Sequential!Fail
<1> QED
  BY <1>1, <1>3, <1>4 DEF MakeDir

LEMMA OpenTargetImplements ==
  ASSUME IInv, IInv', Regular(list), OpenTarget
  PROVE  Sequential!Copy \/ Sequential!Fail
<1>1. cmd = NoCmd /\ copied = i - 1 /\ i \in Entries /\ at = "open" /\ list' = list
  BY CopiedValue, ListFacts DEF OpenTarget, IInv, TypeOK, PlaceOK, RegularWriteOK, Before, InFile
<1>2. i \in Nat /\ Len(list) \in Nat /\ i <= Len(list)
  BY ListFacts DEF OpenTarget, IInv, TypeOK, PlaceOK, InFile
<1>3. ASSUME NEW fd \in Handles, mcOpen(i, fd), StartWrite(fd) PROVE Sequential!Copy
  <2>1. card' = [card EXCEPT ![i] = Content(i, "empty")] /\ i' = i + 1 /\ at' = "loop"
    BY <1>3 DEF mcOpen, StartWrite, Goto
  <2>2. cmd' # NoCmd
    BY <1>3 DEF StartWrite, mcWrite, NoCmd
  <2>3. copied' = i' - 2
    <3>1. Regular(list)'
      BY <1>1 DEF Regular
    <3>2. i' > 1 /\ IsOpen(i - 1)'
      BY <2>2, <3>1, OpenWhileWritingNext
    <3> QED
      BY <3>2 DEF copied
  <2>4. \A e \in Entries : e # copied + 1 => card'[e] = card[e]
    BY <1>1, <1>2, <2>1 DEF IInv, TypeOK
  <2> QED
    BY <1>1, <1>2, <2>1, <2>3, <2>4 DEF status, Sequential!Copy, Sequential!Work, Entries
<1>4. CASE Fails("MC") /\ UNCHANGED <<i, PrevFileSize, open, card>>
  <2>1. copied' = copied
    BY <1>1, <1>4, Stutters
  <2> QED
    BY <1>1, <1>4, <2>1 DEF status, Fails, Sequential!Fail
<1> QED
  BY <1>1, <1>3, <1>4 DEF OpenTarget, NoCmd

LEMMA ServeWriteImplements ==
  ASSUME IInv, IInv', Regular(list), ServeWrite
  PROVE  Sequential!Copy \/ Sequential!Late
<1>1. /\ cmd # NoCmd /\ cmd' # NoCmd /\ list' = list /\ i' = i /\ at' = at /\ result' = result /\ Entries' = Entries
      /\ \A e \in Entries : e # i - 1 => card'[e] = card[e]
  BY ServeWriteFacts DEF ServeWrite, copyVars
<1>2. i > 1 /\ i - 1 \in Entries /\ copied = i - 2 /\ Entries = 1 .. Len(list) /\ Len(list) \in Nat /\ i \in Nat
  BY <1>1, CopiedValue, ListFacts DEF IInv, TypeOK
<1>3. copied' = i - 2
  <2>1. Regular(list)'
    BY <1>1 DEF Regular
  <2>2. i' > 1 /\ IsOpen(i - 1)'
    BY <1>1, <2>1, OpenWhileWritingNext
  <2> QED
    BY <1>1, <2>2 DEF copied
<1>4. at = "returned" => result # "OK"
  BY <1>1 DEF IInv, RegularWriteOK, Before, SourceErrors
<1>5. \A e \in DOMAIN list : e # copied + 1 => card'[e] = card[e]
  BY <1>1, <1>2 DEF Entries
<1> QED
  BY <1>1, <1>2, <1>3, <1>4, <1>5 DEF status, Sequential!Copy, Sequential!Work, Sequential!Late

(* Every step of CopyFiles and of the IOP on a regular list is a step of
   SequentialCopy or leaves its variables alone; of other lists SequentialCopy
   says nothing. *)
THEOREM CopyIsSequential == Spec => ImplementsSequentialCopy
<1>1. Init => Sequential!Init
  BY DEF Init, Sequential!Init, copied, status
<1>2. IInv /\ IInv' /\ [Next]_vars => [Sequential!Next]_Sequential!vars
  <2> SUFFICES ASSUME IInv, IInv', [Next]_vars PROVE [Sequential!Next]_Sequential!vars
    OBVIOUS
  <2>1. list' = list
    BY DEF Next, Copy, Loop, SyncBeforeDir, MakeDir, ReadSource, SyncBeforeFile, Sign, OpenTarget, FinalSync, ServeWrite,
       SyncMCFileWrite, vars
  <2>2. CASE ~Regular(list)
    BY <2>1, <2>2 DEF Sequential!Next
  <2>3. CASE Regular(list) /\ UNCHANGED vars
    BY <2>3, Stutters DEF vars, mcVars, copyVars, Sequential!vars, status
  <2>4. CASE Regular(list) /\ Next
    BY <2>1, <2>4, LoopImplements, SyncBeforeImplements, FinalSyncImplements, MakeDirImplements, OpenTargetImplements,
       ServeWriteImplements DEF Next, Copy, Sequential!Next
  <2> QED
    BY <2>2, <2>3, <2>4
<1> QED
  BY <1>1, <1>2, Invariance, PTL DEF Spec, ImplementsSequentialCopy, Sequential!Spec
=============================================================================

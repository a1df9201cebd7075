-------------------------- MODULE ListFilesProofs --------------------------
(***************************************************************************)
(* Proofs about ListFiles, for any number of calls, keys and spellings and *)
(* with crashes: the lock file excludes and, as long as the block mode     *)
(* stays what it is, a removal loses no other call's update, the files     *)
(* always parse and, with one spelling per key, memory agrees with the     *)
(* files about every key that no two calls handled at a time.              *)
(***************************************************************************)
EXTENDS ListFiles, TLAPS

(***************************************************************************)
(* The inductive invariant, part by part.                                  *)
(***************************************************************************)

\* A handler under way has its arguments.
ArgumentsOK(r) ==
  r.pc # "idle" =>
    /\ r.list \in Lists
    /\ r.pc \in {"load", "create", "swap"} => r.op = "reload"
    /\ r.pc \notin {"load", "create", "swap"} => r.op \in Operations /\ r.line \in Spellings

\* Between acquiring the lock file and dropping it, the lock is the call's.
HoldsLock(c) == call[c].pc \in CriticalPcs => lockfile[call[c].list] = c

\* A changing block mode lets a reload truncate a file under another call, and
\* a failing write leaves a line without its newline and without its lock.
Undisturbed == ~WriteErrors /\ \A m, n \in Modes : m = n

ReadIsCurrent(c) ==
  Undisturbed /\ call[c].pc = "rename" =>
    /\ file[call[c].list] # None
    /\ call[c].filtered = Lines(file[call[c].list]) \ {call[c].line}

HasAppended(c) ==
  call[c].pc = "newline" =>
    /\ file[call[c].list] # None
    /\ Undisturbed => file[call[c].list].tail # None

\* With one mode no call meets a missing file.
FindsFile(c) ==
  call[c].pc # "idle" =>
    /\ status = "up"
    /\ Undisturbed => file[call[c].list] # None /\ call[c].pc # "create"

CallInv(c) == HoldsLock(c) /\ ReadIsCurrent(c) /\ HasAppended(c) /\ FindsFile(c)

\* A line without its newline is one that a call is about to end, or one that
\* a crash left together with the lock.
TailGuarded(l) ==
  Undisturbed /\ file[l] # None /\ file[l].tail # None =>
    \/ lockfile[l] = Stale
    \/ \E c \in Calls : call[c].pc = "newline" /\ call[c].list = l

FileInv(l) == TailGuarded(l) /\ (Undisturbed => Parses(file[l]))

FilesAreThere ==
  Undisturbed /\ status = "up" => file[block_mode] # None /\ file["zeroconf"] # None

ListInv ==
  /\ TypeOK
  /\ FilesAreThere
  /\ \A c \in Calls : CallInv(c)
  /\ \A l \in Lists : FileInv(l)

(***************************************************************************)
(* Facts about records.                                                    *)
(***************************************************************************)

LEMMA IdleCallOK == IdleCall \in CallRecord /\ IdleCall.pc = "idle"
  BY DEF IdleCall, CallRecord

LEMMA EmptyFileOK ==
  EmptyFile \in FileContent /\ EmptyFile.tail = None /\ EmptyFile.lines = {}
    /\ EmptyFile # None
  BY SpellingAssumption DEF EmptyFile, FileContent

LEMMA CallFacts ==
  ASSUME ListInv, NEW c \in Calls
  PROVE  /\ call \in [Calls -> CallRecord] /\ file \in [Lists -> FileContent \cup {None}]
         /\ lockfile \in [Lists -> Calls \cup {None, Stale}]
         /\ memory \in [{"pubkey", "zeroconf"} -> SUBSET Keys]
         /\ call[c] \in CallRecord /\ ArgumentsOK(call[c])
  BY DEF ListInv, TypeOK, ArgumentsOK, Active

\* What the type invariant says once the call records are known to be right.
LEMMA TypeFromParts ==
  ASSUME status' \in {"up", "down", "disabled"}, block_mode' \in Modes,
         file' \in [Lists -> FileContent \cup {None}],
         lockfile' \in [Lists -> Calls \cup {None, Stale}],
         memory' \in [{"pubkey", "zeroconf"} -> SUBSET Keys],
         disputed' \subseteq Lists \X Keys,
         call' \in [Calls -> CallRecord],
         \A c \in Calls : ArgumentsOK(call'[c])
  PROVE  TypeOK'
  BY DEF TypeOK, ArgumentsOK, Active

\* Two calls inside their critical sections work on different lists.
LEMMA OthersElsewhere ==
  ASSUME ListInv, NEW c \in Calls, NEW d \in Calls, c # d,
         call[c].pc \in CriticalPcs, call[d].pc \in CriticalPcs
  PROVE  call[c].list # call[d].list
  BY DEF ListInv, CallInv, HoldsLock

\* A call that holds the lock to append finds a file whose last line is ended.
LEMMA NoTailToAppendTo ==
  ASSUME ListInv, NEW c \in Calls, call[c].pc = "append", file[call[c].list] # None,
         Undisturbed
  PROVE  file[call[c].list].tail = None
  <1>1. call[c].list \in Lists /\ lockfile[call[c].list] = c
    BY CallFacts DEF ListInv, CallInv, HoldsLock, CriticalPcs, ArgumentsOK
  <1>2. lockfile[call[c].list] # Stale
    BY <1>1, HolderAssumption
  <1>3. ASSUME NEW d \in Calls, call[d].pc = "newline", call[d].list = call[c].list
        PROVE  FALSE
    BY <1>1, <1>3 DEF ListInv, CallInv, HoldsLock, CriticalPcs
  <1> QED BY <1>1, <1>2, <1>3 DEF ListInv, FileInv, TailGuarded

(***************************************************************************)
(* Steps that leave files and lock files alone.                            *)
(***************************************************************************)

\* A handler's step outside its critical section.
LEMMA LocalStep ==
  ASSUME ListInv, NEW c \in Calls, NEW r \in CallRecord, ArgumentsOK(r),
         call' = [call EXCEPT ![c] = r],
         call[c].pc # "newline", r.pc \notin CriticalPcs,
         r.pc # "idle" =>
           status = "up" /\ (Undisturbed => file[r.list] # None /\ r.pc # "create"),
         UNCHANGED <<status, block_mode, file, lockfile>>,
         memory' \in [{"pubkey", "zeroconf"} -> SUBSET Keys],
         disputed' \subseteq Lists \X Keys
  PROVE  ListInv'
  <1>1. call \in [Calls -> CallRecord] /\ \A d \in Calls : ArgumentsOK(call[d])
    BY CallFacts
  <1>2. call' \in [Calls -> CallRecord] /\ call'[c] = r
        /\ \A d \in Calls \ {c} : call'[d] = call[d]
    BY <1>1
  <1>3. TypeOK'
    <2>1. \A d \in Calls : ArgumentsOK(call'[d])
      BY <1>1, <1>2
    <2> QED BY <1>2, <2>1, TypeFromParts DEF ListInv, TypeOK
  <1>4. ASSUME NEW d \in Calls PROVE CallInv(d)'
    <2>1. CASE d = c
      BY <1>2, <2>1 DEF CallInv, HoldsLock, ReadIsCurrent, HasAppended, FindsFile, CriticalPcs
    <2>2. CASE d # c
      BY <1>2, <2>2 DEF ListInv, CallInv, HoldsLock, ReadIsCurrent, HasAppended, FindsFile
    <2> QED BY <2>1, <2>2
  <1>5. ASSUME NEW l \in Lists PROVE FileInv(l)'
    BY <1>2 DEF ListInv, FileInv, TailGuarded, Parses, Lines
  <1> QED BY <1>3, <1>4, <1>5 DEF ListInv, FilesAreThere

LEMMA ManageListsInv ==
  ASSUME ListInv, NEW c \in Calls, NEW op \in Operations, NEW l \in Lists,
         NEW s \in Spellings, ManageLists(c, op, l, s)
  PROVE  ListInv'
  <1> DEFINE r == [IdleCall EXCEPT !.pc = "check", !.op = op, !.list = l, !.line = s]
  <1>1. call' = [call EXCEPT ![c] = r] /\ call[c].pc = "idle"
        /\ UNCHANGED <<status, block_mode, file, lockfile, memory>>
        /\ status = "up" /\ (Undisturbed => file[l] # None)
    BY DEF ManageLists, Active, ListInv, FilesAreThere
  <1>2. r \in CallRecord /\ r.pc = "check" /\ r.op = op /\ r.list = l /\ r.line = s
    BY DEF CallRecord, IdleCall
  <1>3. disputed' \subseteq Lists \X Keys
    <2>1. KeyOf[s] \in Keys /\ disputed \subseteq Lists \X Keys
      BY SpellingAssumption DEF ListInv, TypeOK
    <2> QED BY <2>1 DEF ManageLists, HandledAlready
  <1> HIDE DEF r
  <1>4. ArgumentsOK(r)
    BY <1>2 DEF ArgumentsOK
  <1> QED BY <1>1, <1>2, <1>3, <1>4, LocalStep, CallFacts DEF CriticalPcs

LEMMA CheckMembershipInv ==
  ASSUME ListInv, NEW c \in Calls, CheckMembership(c)
  PROVE  ListInv'
  <1> DEFINE r == [call[c] EXCEPT !.pc = "acquire"]
  <1>1. call[c] \in CallRecord /\ ArgumentsOK(call[c]) /\ call \in [Calls -> CallRecord]
    BY CallFacts
  <1>2. /\ call' = [call EXCEPT ![c] = IdleCall] \/ call' = [call EXCEPT ![c] = r]
        /\ call[c].pc = "check"
        /\ UNCHANGED <<status, block_mode, file, lockfile, memory, disputed>>
        /\ status = "up" /\ (Undisturbed => file[call[c].list] # None)
    BY DEF CheckMembership, ListInv, CallInv, FindsFile
  <1>3. /\ r \in CallRecord /\ r.pc = "acquire" /\ r.list = call[c].list
        /\ r.op = call[c].op /\ r.line = call[c].line
    BY <1>1 DEF CallRecord
  <1> HIDE DEF r
  <1>4. ArgumentsOK(r) /\ ArgumentsOK(IdleCall)
    BY <1>1, <1>2, <1>3, IdleCallOK DEF ArgumentsOK
  <1> QED BY <1>2, <1>3, <1>4, IdleCallOK, LocalStep DEF CriticalPcs, ListInv, TypeOK

LEMMA UpdateMemoryInv ==
  ASSUME ListInv, NEW c \in Calls, UpdateMemory(c)
  PROVE  ListInv'
  <1>1. ArgumentsOK(call[c]) /\ memory \in [{"pubkey", "zeroconf"} -> SUBSET Keys]
        /\ call[c].pc = "memory"
    BY CallFacts DEF UpdateMemory
  <1>2. KeyOf[call[c].line] \in Keys /\ MemoryOf(call[c].list) \in {"pubkey", "zeroconf"}
    BY <1>1, SpellingAssumption DEF ArgumentsOK, MemoryOf
  <1>3. memory' \in [{"pubkey", "zeroconf"} -> SUBSET Keys]
    <2> DEFINE m == MemoryOf(call[c].list)
               s == IF call[c].op = "add" THEN memory[m] \cup {KeyOf[call[c].line]}
                    ELSE memory[m] \ {KeyOf[call[c].line]}
    <2>1. memory' = [memory EXCEPT ![m] = s]
      BY DEF UpdateMemory
    <2>2. s \in SUBSET Keys
      BY <1>1, <1>2
    <2> HIDE DEF s
    <2> QED BY <1>1, <1>2, <2>1, <2>2
  <1>4. call' = [call EXCEPT ![c] = IdleCall]
        /\ UNCHANGED <<status, block_mode, file, lockfile, disputed>>
    BY DEF UpdateMemory
  <1> QED BY <1>1, <1>3, <1>4, IdleCallOK, LocalStep
          DEF CriticalPcs, ListInv, TypeOK, ArgumentsOK

LEMMA ReloadInv ==
  ASSUME ListInv, NEW c \in Calls, Reload(c)
  PROVE  ListInv'
  <1> DEFINE r == [IdleCall EXCEPT !.pc = "load", !.op = "reload", !.list = block_mode]
  <1>1. /\ call' = [call EXCEPT ![c] = r] /\ call[c].pc = "idle"
        /\ UNCHANGED <<status, block_mode, file, lockfile, memory>>
        /\ status = "up" /\ (Undisturbed => file[block_mode] # None)
    BY DEF Reload, Active, ListInv, FilesAreThere
  <1>2. block_mode \in Lists
    BY ModesAssumption DEF ListInv, TypeOK, Lists
  <1>3. r \in CallRecord /\ r.pc = "load" /\ r.op = "reload" /\ r.list = block_mode
    BY <1>2 DEF CallRecord, IdleCall
  <1>4. disputed' \subseteq Lists \X Keys
    <2>1. "zeroconf" \in Lists
      BY DEF Lists
    <2> QED BY <1>2, <2>1 DEF Reload, HandledAlready, ListInv, TypeOK
  <1> HIDE DEF r
  <1>5. ArgumentsOK(r)
    BY <1>2, <1>3 DEF ArgumentsOK
  <1> QED BY <1>1, <1>3, <1>4, <1>5, LocalStep, CallFacts DEF CriticalPcs

LEMMA KeysInOK == ASSUME NEW f PROVE KeysIn(f) \in SUBSET Keys
  BY SpellingAssumption DEF KeysIn

LEMMA SwapListInv ==
  ASSUME ListInv, NEW c \in Calls, SwapList(c)
  PROVE  ListInv'
  <1> DEFINE r == [call[c] EXCEPT !.pc = "load", !.list = "zeroconf", !.keys = {}]
  <1>1. /\ call[c] \in CallRecord /\ ArgumentsOK(call[c]) /\ call \in [Calls -> CallRecord]
        /\ memory \in [{"pubkey", "zeroconf"} -> SUBSET Keys]
    BY CallFacts
  <1>2. /\ call[c].pc = "swap"
        /\ call' = [call EXCEPT ![c] = IdleCall] \/ call' = [call EXCEPT ![c] = r]
        /\ UNCHANGED <<status, block_mode, file, lockfile, disputed>>
        /\ status = "up" /\ (Undisturbed => file["zeroconf"] # None)
    BY DEF SwapList, ListInv, CallInv, FindsFile, FilesAreThere
  <1>3. r \in CallRecord /\ r.pc = "load" /\ r.op = call[c].op /\ r.list = "zeroconf"
    BY <1>1 DEF CallRecord, Lists
  <1>4. memory' \in [{"pubkey", "zeroconf"} -> SUBSET Keys]
    BY <1>1 DEF SwapList, CallRecord
  <1> HIDE DEF r
  <1>5. ArgumentsOK(r) /\ ArgumentsOK(IdleCall)
    BY <1>1, <1>2, <1>3, IdleCallOK DEF ArgumentsOK, Lists
  <1> QED BY <1>2, <1>3, <1>4, <1>5, IdleCallOK, LocalStep DEF CriticalPcs, ListInv, TypeOK

LEMMA LoadFileInv ==
  ASSUME ListInv, NEW c \in Calls, LoadFile(c) \/ FileMissing(c)
  PROVE  ListInv'
  <1> DEFINE ks == KeysIn(file[call[c].list])
             r1 == [call[c] EXCEPT !.pc = "swap", !.keys = ks]
             r2 == [call[c] EXCEPT !.pc = "create"]
  <1>1. /\ call[c] \in CallRecord /\ ArgumentsOK(call[c]) /\ call[c].pc = "load"
        /\ status = "up" /\ (Undisturbed => file[call[c].list] # None)
        /\ UNCHANGED <<status, block_mode, file, lockfile, memory, disputed>>
    BY CallFacts DEF LoadFile, FileMissing, ListInv, CallInv, FindsFile
  <1>2. ks \in SUBSET Keys
    BY KeysInOK
  <1>3. \/ call' = [call EXCEPT ![c] = IdleCall]
        \/ call' = [call EXCEPT ![c] = r1]
        \/ call' = [call EXCEPT ![c] = r2] /\ ~Undisturbed
    BY <1>1 DEF LoadFile, FileMissing
  <1> HIDE DEF ks
  <1>4. /\ r1 \in CallRecord /\ r1.pc = "swap" /\ r1.list = call[c].list
        /\ r1.op = call[c].op /\ r1.line = call[c].line
    BY <1>1, <1>2 DEF CallRecord
  <1>5. /\ r2 \in CallRecord /\ r2.pc = "create" /\ r2.list = call[c].list
        /\ r2.op = call[c].op /\ r2.line = call[c].line
    BY <1>1 DEF CallRecord
  <1> HIDE DEF r1, r2
  <1>6. ArgumentsOK(r1) /\ ArgumentsOK(r2) /\ ArgumentsOK(IdleCall)
    BY <1>1, <1>4, <1>5, IdleCallOK DEF ArgumentsOK
  <1>7. memory \in [{"pubkey", "zeroconf"} -> SUBSET Keys] /\ disputed \subseteq Lists \X Keys
    BY DEF ListInv, TypeOK
  <1> QED BY <1>1, <1>3, <1>4, <1>5, <1>6, <1>7, IdleCallOK, LocalStep DEF CriticalPcs

\* A call that cannot create the lock file.
LEMMA AcquireFailsInv ==
  ASSUME ListInv, NEW c \in Calls, AcquireFails(c)
  PROVE  ListInv'
  <1>1. /\ call' = [call EXCEPT ![c] = IdleCall] /\ call[c].pc = "acquire"
        /\ UNCHANGED <<status, block_mode, file, lockfile, memory, disputed>>
    BY DEF AcquireFails
  <1>2. ArgumentsOK(IdleCall)
    BY IdleCallOK DEF ArgumentsOK
  <1> QED BY <1>1, <1>2, IdleCallOK, LocalStep DEF CriticalPcs, ListInv, TypeOK

\* A reload that creates a file, which one mode alone never makes it do.
LEMMA CreateFileInv ==
  ASSUME ListInv, NEW c \in Calls, CreateFile(c)
  PROVE  ListInv'
  <1> DEFINE l == call[c].list
             r == [call[c] EXCEPT !.pc = "load"]
  <1>1. /\ call[c] \in CallRecord /\ ArgumentsOK(call[c]) /\ call \in [Calls -> CallRecord]
        /\ file \in [Lists -> FileContent \cup {None}] /\ call[c].pc = "create"
        /\ status = "up" /\ ~Undisturbed
    BY CallFacts DEF CreateFile, ListInv, CallInv, FindsFile
  <1>2. l \in Lists
    BY <1>1 DEF ArgumentsOK
  <1>3. /\ call' = [call EXCEPT ![c] = r] /\ file' = [file EXCEPT ![l] = EmptyFile]
        /\ UNCHANGED <<status, block_mode, lockfile, memory, disputed>>
    BY DEF CreateFile
  <1>4. /\ r \in CallRecord /\ r.pc = "load" /\ r.list = l
        /\ r.op = call[c].op /\ r.line = call[c].line
    BY <1>1 DEF CallRecord
  <1>5. ArgumentsOK(r)
    BY <1>1, <1>4 DEF ArgumentsOK
  <1> HIDE DEF r
  <1>6. call' \in [Calls -> CallRecord] /\ call'[c] = r
        /\ \A d \in Calls \ {c} : call'[d] = call[d]
    BY <1>1, <1>3, <1>4
  <1>7. /\ file' \in [Lists -> FileContent \cup {None}]
        /\ \A k \in Lists : file'[k] \in {file[k], EmptyFile}
    BY <1>1, <1>2, <1>3, EmptyFileOK
  <1>8. TypeOK'
    <2>1. \A d \in Calls : ArgumentsOK(call'[d])
      BY <1>5, <1>6, CallFacts
    <2> QED BY <1>3, <1>6, <1>7, <2>1, TypeFromParts DEF ListInv, TypeOK
  <1>9. ASSUME NEW d \in Calls PROVE CallInv(d)'
    <2>1. CASE d = c
      BY <1>1, <1>3, <1>4, <1>6, <2>1
         DEF CallInv, HoldsLock, ReadIsCurrent, HasAppended, FindsFile, CriticalPcs, Undisturbed
    <2>2. CASE d # c
      <3>1. call'[d] = call[d] /\ (call[d].pc = "newline" => call[d].list \in Lists)
        BY <1>6, <2>2, CallFacts DEF ArgumentsOK
      <3> QED BY <1>1, <1>3, <1>7, <3>1, EmptyFileOK
              DEF ListInv, CallInv, HoldsLock, ReadIsCurrent, HasAppended, FindsFile, Undisturbed
    <2> QED BY <2>1, <2>2
  <1>10. ASSUME NEW k \in Lists PROVE FileInv(k)'
    BY <1>1 DEF FileInv, TailGuarded, Undisturbed
  <1> QED BY <1>1, <1>8, <1>9, <1>10 DEF ListInv, FilesAreThere, Undisturbed

(***************************************************************************)
(* The critical section.                                                   *)
(***************************************************************************)

\* A step that touches the lock file and the file of one list only, taken by
\* a call c that has or gets the lock, keeps the invariant if it keeps the
\* part about that call and that list.
LEMMA CriticalStep ==
  ASSUME ListInv, NEW c \in Calls, NEW r \in CallRecord, ArgumentsOK(r),
         NEW l \in Lists, call[c].list = l, r.pc # "idle" => r.list = l,
         NEW f \in FileContent \cup {None}, NEW h \in Calls \cup {None},
         call' = [call EXCEPT ![c] = r],
         file' = [file EXCEPT ![l] = f], lockfile' = [lockfile EXCEPT ![l] = h],
         UNCHANGED <<status, block_mode, memory>>,
         disputed' \subseteq disputed \cup (Lists \X Keys),
         call[c].pc \in CriticalPcs \/ (call[c].pc # "idle" /\ lockfile[l] = None),
         r.pc \in CriticalPcs => h = c,
         r.pc = "newline" => f # None,
         Undisturbed =>
           /\ f # None /\ Parses(f) /\ r.pc # "create"
           /\ f.tail # None <=> r.pc = "newline"
           /\ r.pc = "rename" => r.filtered = Lines(f) \ {r.line}
  PROVE  ListInv'
  <1>1. /\ call \in [Calls -> CallRecord] /\ \A d \in Calls : ArgumentsOK(call[d])
        /\ file \in [Lists -> FileContent \cup {None}]
        /\ lockfile \in [Lists -> Calls \cup {None, Stale}]
    BY CallFacts
  <1>2. call' \in [Calls -> CallRecord] /\ call'[c] = r
        /\ \A d \in Calls \ {c} : call'[d] = call[d]
    BY <1>1
  <1>3. /\ file'[l] = f /\ \A k \in Lists \ {l} : file'[k] = file[k]
        /\ lockfile'[l] = h /\ \A k \in Lists \ {l} : lockfile'[k] = lockfile[k]
        /\ file' \in [Lists -> FileContent \cup {None}]
        /\ lockfile' \in [Lists -> Calls \cup {None, Stale}]
    BY <1>1
  <1>4. TypeOK'
    <2>1. \A d \in Calls : ArgumentsOK(call'[d])
      BY <1>1, <1>2
    <2> QED BY <1>2, <1>3, <2>1, TypeFromParts DEF ListInv, TypeOK
  <1>5. ASSUME NEW d \in Calls \ {c}, call[d].pc \in CriticalPcs
        PROVE  call[d].list \in Lists \ {l}
    <2>1. call[d].list \in Lists
      BY <1>1, <1>5 DEF ArgumentsOK, CriticalPcs
    <2>2. CASE call[c].pc \in CriticalPcs
      BY <1>5, <2>1, <2>2, OthersElsewhere
    <2>3. CASE lockfile[l] = None
      BY <1>5, <2>1, <2>3, HolderAssumption DEF ListInv, CallInv, HoldsLock
    <2> QED BY <2>2, <2>3
  <1>a. status = "up"
    BY DEF ListInv, CallInv, FindsFile, CriticalPcs
  <1>6. ASSUME NEW d \in Calls PROVE CallInv(d)'
    <2>1. CASE d = c
      BY <1>2, <1>3, <1>a, <2>1 DEF Undisturbed, CallInv, HoldsLock, ReadIsCurrent, HasAppended, FindsFile, CriticalPcs
    <2>2. CASE d # c
      <3>1. call'[d] = call[d] /\ (call[d].pc # "idle" => call[d].list \in Lists)
        BY <1>1, <1>2, <2>2 DEF ArgumentsOK
      <3>2. CASE call[d].pc \in CriticalPcs
        <4>1. call[d].list \in Lists \ {l}
          BY <1>5, <2>2, <3>2
        <4> QED BY <1>3, <3>1, <4>1 DEF Undisturbed, ListInv, CallInv, HoldsLock, ReadIsCurrent, HasAppended, FindsFile
      <3>3. CASE call[d].pc \notin CriticalPcs
        BY <1>3, <1>a, <3>1, <3>3 DEF Undisturbed, ListInv, CallInv, HoldsLock, ReadIsCurrent,
                                      HasAppended, FindsFile, CriticalPcs
      <3> QED BY <3>2, <3>3
    <2> QED BY <2>1, <2>2
  <1>7. ASSUME NEW k \in Lists PROVE FileInv(k)'
    <2>1. CASE k = l
      <3>1. Undisturbed => Parses(file'[k])
        BY <1>3, <2>1
      <3>2. TailGuarded(k)'
        BY <1>2, <1>3, <2>1 DEF TailGuarded, Undisturbed
      <3> QED BY <3>1, <3>2 DEF FileInv, Parses, Lines, Undisturbed
    <2>2. CASE k # l
      <3>1. file'[k] = file[k] /\ lockfile'[k] = lockfile[k]
        BY <1>3, <2>2
      <3>2. FileInv(k)
        BY DEF ListInv
      <3>3. \A d \in Calls : call[d].list = k => call'[d] = call[d]
        BY <1>2, <2>2
      <3> QED BY <3>1, <3>2, <3>3 DEF FileInv, TailGuarded, Parses, Lines, Undisturbed
    <2> QED BY <2>1, <2>2
  <1>8. FilesAreThere'
    BY <1>3, <1>a DEF ListInv, FilesAreThere, Undisturbed, TypeOK, Lists
  <1> QED BY <1>4, <1>6, <1>7, <1>8 DEF ListInv

LEMMA AcquireInv ==
  ASSUME ListInv, NEW c \in Calls, Acquire(c)
  PROVE  ListInv'
  <1> DEFINE l == call[c].list
             next == IF call[c].op = "add" THEN "append" ELSE "read"
             r == [call[c] EXCEPT !.pc = next]
  <1>1. /\ call[c] \in CallRecord /\ ArgumentsOK(call[c]) /\ call \in [Calls -> CallRecord]
        /\ file \in [Lists -> FileContent \cup {None}]
        /\ call[c].pc = "acquire" /\ lockfile[l] = None
    BY CallFacts DEF Acquire
  <1>2. l \in Lists /\ next \in {"append", "read"}
    BY <1>1 DEF ArgumentsOK
  <1>3. /\ call' = [call EXCEPT ![c] = r] /\ lockfile' = [lockfile EXCEPT ![l] = c]
        /\ UNCHANGED <<status, block_mode, file, memory, disputed>>
    BY DEF Acquire
  <1> HIDE DEF next
  <1>4. /\ r \in CallRecord /\ r.pc = next /\ r.list = l
        /\ r.op = call[c].op /\ r.line = call[c].line
    BY <1>1, <1>2 DEF CallRecord, CriticalPcs
  <1>5. ArgumentsOK(r)
    BY <1>1, <1>2, <1>4 DEF ArgumentsOK
  <1> HIDE DEF r
  <1>6. Undisturbed => file[l] # None /\ Parses(file[l]) /\ file[l].tail = None
    <2>0. Undisturbed => file[l] # None /\ Parses(file[l])
      BY <1>1, <1>2 DEF ListInv, CallInv, FindsFile, FileInv
    <2>1. ASSUME NEW d \in Calls, call[d].pc = "newline", call[d].list = l PROVE FALSE
      BY <1>1, <2>1, HolderAssumption DEF ListInv, CallInv, HoldsLock, CriticalPcs
    <2> QED BY <1>1, <1>2, <2>0, <2>1, HolderAssumption DEF ListInv, FileInv, TailGuarded
  <1>7. file' = [file EXCEPT ![l] = file[l]] /\ file[l] \in FileContent \cup {None}
    BY <1>1, <1>2, <1>3
  <1> QED BY <1>1, <1>2, <1>3, <1>4, <1>5, <1>6, <1>7, CriticalStep

LEMMA AppendLineInv ==
  ASSUME ListInv, NEW c \in Calls, AppendLine(c)
  PROVE  ListInv'
  <1> DEFINE l == call[c].list
             old == IF file[l] = None THEN EmptyFile ELSE file[l]
             new == IF old.tail = None THEN call[c].line ELSE Garbage
             f == [lines |-> (old.lines \ {old.tail}) \cup {new}, tail |-> new]
             r == [call[c] EXCEPT !.pc = "newline"]
  <1>1. /\ call[c] \in CallRecord /\ ArgumentsOK(call[c]) /\ call \in [Calls -> CallRecord]
        /\ file \in [Lists -> FileContent \cup {None}]
        /\ lockfile \in [Lists -> Calls \cup {None, Stale}]
        /\ call[c].pc = "append"
    BY CallFacts DEF AppendLine
  <1>2. l \in Lists /\ call[c].line \in Spellings /\ lockfile[l] = c
    BY <1>1 DEF ArgumentsOK, ListInv, CallInv, HoldsLock, CriticalPcs
  <1>3. /\ call' = [call EXCEPT ![c] = r] /\ file' = [file EXCEPT ![l] = f]
        /\ UNCHANGED <<status, block_mode, lockfile, memory, disputed>>
    BY <1>1 DEF AppendLine
  <1>4. old \in FileContent /\ (Undisturbed => old.tail = None /\ Garbage \notin old.lines)
    <2>1. CASE file[l] = None
      BY <2>1, EmptyFileOK
    <2>2. CASE file[l] # None
      BY <1>1, <1>2, <2>2, NoTailToAppendTo DEF ListInv, FileInv, Parses, Lines
    <2> QED BY <2>1, <2>2
  <1>5. new \in Line /\ (Undisturbed => new = call[c].line)
    BY <1>2, <1>4 DEF Line
  <1> HIDE DEF old, new
  <1>6. f \in FileContent /\ f # None /\ f.tail # None /\ (Undisturbed => Garbage \notin f.lines)
    <2>1. f.lines = (old.lines \ {old.tail}) \cup {new} /\ f.tail = new
      OBVIOUS
    <2>2. old.lines \in SUBSET Line
      BY <1>4 DEF FileContent
    <2>3. f \in FileContent
      BY <1>5, <2>2 DEF FileContent
    <2> QED BY <1>2, <1>4, <1>5, <2>1, <2>3, SpellingAssumption
  <1>7. r \in CallRecord /\ r.pc = "newline" /\ r.list = l /\ r.op = call[c].op
        /\ r.line = call[c].line
    BY <1>1 DEF CallRecord, CriticalPcs
  <1>8. ArgumentsOK(r)
    BY <1>1, <1>7 DEF ArgumentsOK
  <1>9. lockfile' = [lockfile EXCEPT ![l] = c]
    BY <1>1, <1>2, <1>3
  <1>10. Undisturbed => Parses(f)
    BY <1>6 DEF Parses, Lines
  <1> HIDE DEF r, f, l
  <1>11. call[c].list = l
    BY DEF l
  <1> QED BY <1>1, <1>2, <1>3, <1>6, <1>7, <1>8, <1>9, <1>10, <1>11, CriticalStep
          DEF CriticalPcs

LEMMA AppendNewlineInv ==
  ASSUME ListInv, NEW c \in Calls, AppendNewline(c)
  PROVE  ListInv'
  <1> DEFINE l == call[c].list
             ls == IF file[l].tail = None THEN file[l].lines \cup {Garbage} ELSE file[l].lines
             f == [lines |-> ls, tail |-> None]
             r == [call[c] EXCEPT !.pc = "memory"]
  <1>1. /\ call[c] \in CallRecord /\ ArgumentsOK(call[c]) /\ call \in [Calls -> CallRecord]
        /\ file \in [Lists -> FileContent \cup {None}]
        /\ call[c].pc = "newline"
    BY CallFacts DEF AppendNewline
  <1>2. l \in Lists /\ file[l] \in FileContent /\ (Undisturbed => file[l].tail # None)
    BY <1>1 DEF ArgumentsOK, ListInv, CallInv, HasAppended
  <1>3. /\ call' = [call EXCEPT ![c] = r] /\ file' = [file EXCEPT ![l] = f]
        /\ lockfile' = [lockfile EXCEPT ![l] = None]
        /\ UNCHANGED <<status, block_mode, memory, disputed>>
    BY <1>1, <1>2 DEF AppendNewline, Release
  <1>4. ls \in SUBSET Line /\ (Undisturbed => ls = file[l].lines)
    BY <1>2 DEF FileContent, Line
  <1> HIDE DEF ls
  <1>5. /\ f \in FileContent /\ f.tail = None /\ f # None
        /\ Undisturbed => Parses(f)
    BY <1>2, <1>4, SpellingAssumption DEF FileContent, ListInv, FileInv, Parses, Lines
  <1>6. r \in CallRecord /\ r.pc = "memory" /\ r.list = l /\ r.op = call[c].op
        /\ r.line = call[c].line
    BY <1>1 DEF CallRecord
  <1>7. ArgumentsOK(r)
    BY <1>1, <1>6 DEF ArgumentsOK
  <1> HIDE DEF r, f
  <1> QED BY <1>1, <1>2, <1>3, <1>4, <1>5, <1>6, <1>7, CriticalStep DEF CriticalPcs

LEMMA ReadAndFilterInv ==
  ASSUME ListInv, NEW c \in Calls, ReadAndFilter(c)
  PROVE  ListInv'
  <1> DEFINE l == call[c].list
             kept == Lines(file[l]) \ {call[c].line}
             r == [call[c] EXCEPT !.pc = "rename", !.filtered = kept]
  <1>1. /\ call[c] \in CallRecord /\ ArgumentsOK(call[c]) /\ call \in [Calls -> CallRecord]
        /\ file \in [Lists -> FileContent \cup {None}]
        /\ lockfile \in [Lists -> Calls \cup {None, Stale}]
        /\ call[c].pc = "read" /\ file[l] # None
    BY CallFacts DEF ReadAndFilter
  <1>2. l \in Lists /\ lockfile[l] = c
    BY <1>1 DEF ArgumentsOK, ListInv, CallInv, HoldsLock, CriticalPcs
  <1>3. /\ call' = [call EXCEPT ![c] = r]
        /\ UNCHANGED <<status, block_mode, file, lockfile, memory, disputed>>
    BY <1>1 DEF ReadAndFilter
  <1>4. kept \in SUBSET Line /\ kept = Lines(file[l]) \ {call[c].line}
    BY <1>1, <1>2 DEF Lines, FileContent
  <1> HIDE DEF kept
  <1>5. r \in CallRecord /\ r.pc = "rename" /\ r.list = l /\ r.op = call[c].op
        /\ r.line = call[c].line /\ r.filtered = kept
    BY <1>1, <1>4 DEF CallRecord, CriticalPcs
  <1>6. ArgumentsOK(r)
    BY <1>1, <1>5 DEF ArgumentsOK
  <1> HIDE DEF r
  <1>7. Undisturbed => file[l].tail = None /\ Parses(file[l])
    <2>1. ASSUME NEW d \in Calls, call[d].pc = "newline", call[d].list = l PROVE FALSE
      BY <1>1, <1>2, <2>1 DEF ListInv, CallInv, HoldsLock, CriticalPcs
    <2> QED BY <1>1, <1>2, <2>1, HolderAssumption DEF ListInv, FileInv, TailGuarded
  <1>8. /\ file' = [file EXCEPT ![l] = file[l]] /\ file[l] \in FileContent
        /\ lockfile' = [lockfile EXCEPT ![l] = c]
    BY <1>1, <1>2, <1>3
  <1>9. r.filtered = Lines(file[l]) \ {r.line} /\ call[c].pc \in CriticalPcs
        /\ c \in Calls \cup {None} /\ r.pc \notin {"newline", "create"} /\ call[c].list = l
    BY <1>1, <1>4, <1>5 DEF CriticalPcs
  <1> DEFINE f == file[l]
  <1>10. /\ f \in FileContent \cup {None} /\ file' = [file EXCEPT ![l] = f]
         /\ Undisturbed =>
              /\ f # None /\ Parses(f) /\ r.pc # "create"
              /\ f.tail # None <=> r.pc = "newline"
              /\ r.pc = "rename" => r.filtered = Lines(f) \ {r.line}
    BY <1>1, <1>7, <1>8, <1>9
  <1> HIDE DEF l, f
  <1>11. UNCHANGED <<status, block_mode, memory, disputed>> /\ call' = [call EXCEPT ![c] = r]
    BY <1>3
  <1>12. r \in CallRecord /\ (r.pc # "idle" => r.list = l) /\ r.pc # "newline"
         /\ (r.pc \in CriticalPcs => c = c)
    BY <1>5, <1>9
  <1>13. lockfile' = [lockfile EXCEPT ![l] = c] /\ c \in Calls \cup {None}
    BY <1>8, <1>9
  <1> QED BY <1>2, <1>6, <1>9, <1>10, <1>11, <1>12, <1>13, CriticalStep

LEMMA ReadFailsInv ==
  ASSUME ListInv, NEW c \in Calls, ReadFails(c)
  PROVE  ListInv'
  <1> DEFINE l == call[c].list
  <1>1. /\ ArgumentsOK(call[c]) /\ call[c].pc = "read" /\ file[l] = None
        /\ file \in [Lists -> FileContent \cup {None}]
    BY CallFacts DEF ReadFails
  <1>2. l \in Lists
    BY <1>1 DEF ArgumentsOK
  <1>3. /\ call' = [call EXCEPT ![c] = IdleCall] /\ lockfile' = [lockfile EXCEPT ![l] = None]
        /\ file' = [file EXCEPT ![l] = None]
        /\ UNCHANGED <<status, block_mode, memory, disputed>>
    BY <1>1, <1>2 DEF ReadFails, Release
  <1>4. ~Undisturbed /\ ArgumentsOK(IdleCall)
    BY <1>1, IdleCallOK DEF ListInv, CallInv, FindsFile, ArgumentsOK
  <1> QED BY <1>1, <1>2, <1>3, <1>4, IdleCallOK, CriticalStep DEF CriticalPcs

LEMMA FileErrorInv ==
  ASSUME ListInv, NEW c \in Calls, FileError(c)
  PROVE  ListInv'
  <1> DEFINE l == call[c].list
  <1>1. /\ ArgumentsOK(call[c]) /\ call[c].pc \in CriticalPcs
        /\ file \in [Lists -> FileContent \cup {None}]
    BY CallFacts DEF FileError, CriticalPcs
  <1>2. l \in Lists
    BY <1>1 DEF ArgumentsOK, CriticalPcs
  <1>3. /\ call' = [call EXCEPT ![c] = IdleCall] /\ lockfile' = [lockfile EXCEPT ![l] = None]
        /\ UNCHANGED <<status, block_mode, file, memory, disputed>>
    BY DEF FileError, Release
  <1>4. file' = [file EXCEPT ![l] = file[l]] /\ file[l] \in FileContent \cup {None}
    BY <1>1, <1>2, <1>3
  <1>5. ~Undisturbed /\ ArgumentsOK(IdleCall)
    BY IdleCallOK DEF FileError, Undisturbed, ArgumentsOK
  <1> DEFINE f == file[l]
  <1>6. file' = [file EXCEPT ![l] = f] /\ f \in FileContent \cup {None}
    BY <1>4
  <1> HIDE DEF f
  <1> QED BY <1>1, <1>2, <1>3, <1>5, <1>6, IdleCallOK, CriticalStep DEF CriticalPcs

LEMMA RenameInv ==
  ASSUME ListInv, NEW c \in Calls, Rename(c)
  PROVE  ListInv'
  <1> DEFINE l == call[c].list
             f == [lines |-> call[c].filtered, tail |-> None]
             r == [call[c] EXCEPT !.pc = "memory", !.filtered = {}]
  <1>1. /\ call[c] \in CallRecord /\ ArgumentsOK(call[c]) /\ call \in [Calls -> CallRecord]
        /\ file \in [Lists -> FileContent \cup {None}]
        /\ call[c].pc = "rename"
    BY CallFacts DEF Rename
  <1>2. l \in Lists
    BY <1>1 DEF ArgumentsOK
  <1>3. /\ call' = [call EXCEPT ![c] = r] /\ file' = [file EXCEPT ![l] = f]
        /\ lockfile' = [lockfile EXCEPT ![l] = None]
        /\ disputed' = disputed \cup Respelled(c)
        /\ UNCHANGED <<status, block_mode, memory>>
    BY <1>1 DEF Rename, Release
  <1>4. f.lines = call[c].filtered /\ f.tail = None /\ f \in FileContent /\ f # None
    BY <1>1, SpellingAssumption DEF FileContent, CallRecord
  <1>5. Undisturbed => Parses(f)
    BY <1>1, <1>2, <1>4 DEF ListInv, CallInv, FileInv, ReadIsCurrent, Parses, Lines
  <1>6. r \in CallRecord /\ r.pc = "memory" /\ r.list = l /\ r.op = call[c].op
        /\ r.line = call[c].line
    BY <1>1 DEF CallRecord
  <1>7. ArgumentsOK(r)
    BY <1>1, <1>6 DEF ArgumentsOK
  <1>8. Respelled(c) \subseteq Lists \X Keys
    <2>1. KeyOf[call[c].line] \in Keys
      BY <1>1, SpellingAssumption DEF ArgumentsOK
    <2> QED BY <1>2, <2>1 DEF Respelled
  <1> HIDE DEF r, f
  <1> QED BY <1>1, <1>2, <1>3, <1>4, <1>5, <1>6, <1>7, <1>8, CriticalStep DEF CriticalPcs

(***************************************************************************)
(* The surroundings.                                                       *)
(***************************************************************************)

LEMMA SetBlockModeInv ==
  ASSUME ListInv, NEW m \in Modes, SetBlockMode(m)
  PROVE  ListInv'
  <1>1. UNCHANGED <<status, file, lockfile, memory, call, disputed>> /\ block_mode' = m
    BY DEF SetBlockMode
  <1>2. TypeOK'
    BY <1>1 DEF ListInv, TypeOK, Active
  <1>3. ~Undisturbed
    BY DEF SetBlockMode, ListInv, TypeOK, Undisturbed
  <1> QED BY <1>1, <1>2, <1>3
          DEF ListInv, FilesAreThere, CallInv, HoldsLock, ReadIsCurrent, HasAppended, FindsFile,
              FileInv, TailGuarded, Undisturbed

\* A lock file held by a call that dies stays, with the line it guards.
LEMMA CrashInv == ASSUME ListInv, Crash PROVE ListInv'
  <1>1. /\ call' = [c \in Calls |-> IdleCall] /\ status' = "down" /\ disputed' = {}
        /\ lockfile' = [l \in Lists |-> IF lockfile[l] \in Calls THEN Stale ELSE lockfile[l]]
        /\ memory' = [m \in {"pubkey", "zeroconf"} |-> {}]
        /\ UNCHANGED <<block_mode, file>>
    BY DEF Crash
  <1>2. lockfile \in [Lists -> Calls \cup {None, Stale}]
        /\ file \in [Lists -> FileContent \cup {None}] /\ block_mode \in Modes
    BY DEF ListInv, TypeOK
  <1>3. /\ call' \in [Calls -> CallRecord] /\ \A c \in Calls : call'[c].pc = "idle"
        /\ \A c \in Calls : ArgumentsOK(call'[c])
    BY <1>1, IdleCallOK DEF ArgumentsOK
  <1>4. lockfile' \in [Lists -> Calls \cup {None, Stale}]
    BY <1>1, <1>2
  <1>5. TypeOK'
    BY <1>1, <1>2, <1>3, <1>4, TypeFromParts
  <1>6. ASSUME NEW c \in Calls PROVE CallInv(c)'
    BY <1>3 DEF CallInv, HoldsLock, ReadIsCurrent, HasAppended, FindsFile, CriticalPcs
  <1>7. ASSUME NEW l \in Lists PROVE FileInv(l)'
    <2>1. Undisturbed => Parses(file[l])'
      BY <1>1 DEF ListInv, FileInv, Parses, Lines
    <2>2. ASSUME Undisturbed, file[l] # None, file[l].tail # None PROVE lockfile'[l] = Stale
      <3>1. CASE lockfile[l] = Stale
        BY <1>1, <3>1
      <3>2. ASSUME NEW c \in Calls, call[c].pc = "newline", call[c].list = l
            PROVE  lockfile'[l] = Stale
        BY <1>1, <3>2 DEF ListInv, CallInv, HoldsLock, CriticalPcs
      <3> QED BY <2>2, <3>1, <3>2 DEF ListInv, FileInv, TailGuarded
    <2> QED BY <1>1, <2>1, <2>2 DEF FileInv, TailGuarded, Undisturbed
  <1>8. FilesAreThere'
    BY <1>1 DEF FilesAreThere
  <1> QED BY <1>5, <1>6, <1>7, <1>8 DEF ListInv

\* A start creates missing files and changes no other.
LEMMA RestartInv == ASSUME ListInv, Restart PROVE ListInv'
  <1>1. /\ file' = Touched /\ status = "down" /\ status' \in {"up", "disabled"}
        /\ memory' = Loaded \/ memory' = memory
        /\ UNCHANGED <<block_mode, lockfile, call, disputed>>
    BY DEF Restart
  <1>2. /\ file' \in [Lists -> FileContent \cup {None}]
        /\ \A k \in Lists : file'[k] = file[k] \/ (file[k] = None /\ file'[k] = EmptyFile)
        /\ \A k \in {block_mode, "zeroconf"} \cap Lists : file'[k] # None
    BY <1>1, EmptyFileOK DEF Touched, ListInv, TypeOK
  <1>3. Loaded \in [{"pubkey", "zeroconf"} -> SUBSET Keys]
    BY KeysInOK DEF Loaded
  <1>4. TypeOK'
    BY <1>1, <1>2, <1>3 DEF ListInv, TypeOK, Active
  <1>5. ASSUME NEW c \in Calls PROVE CallInv(c)'
    <2>1. call'[c].pc = "idle"
      BY <1>1 DEF ListInv, CallInv, FindsFile
    <2> QED BY <2>1 DEF CallInv, HoldsLock, ReadIsCurrent, HasAppended, FindsFile, CriticalPcs
  <1>6. ASSUME NEW l \in Lists PROVE FileInv(l)'
    BY <1>1, <1>2, EmptyFileOK DEF ListInv, FileInv, TailGuarded, Parses, Lines, Undisturbed
  <1>7. FilesAreThere'
    <2>1. block_mode \in Lists /\ "zeroconf" \in Lists
      BY ModesAssumption DEF ListInv, TypeOK, Lists
    <2> QED BY <1>1, <1>2, <2>1 DEF FilesAreThere
  <1> QED BY <1>4, <1>5, <1>6, <1>7 DEF ListInv

(***************************************************************************)
(* The theorems.                                                           *)
(***************************************************************************)

LEMMA ListInitInv == Init => ListInv
  <1> SUFFICES ASSUME Init PROVE ListInv
    OBVIOUS
  <1>1. \A c \in Calls : call[c] = IdleCall /\ call[c].pc = "idle"
    BY IdleCallOK DEF Init
  <1>2. \A l \in Lists : file[l] \in {None, EmptyFile}
    BY DEF Init
  <1>3. TypeOK
    BY <1>1, IdleCallOK, EmptyFileOK DEF Init, TypeOK, Active
  <1>4. ASSUME NEW c \in Calls PROVE CallInv(c)
    BY <1>1 DEF CallInv, HoldsLock, ReadIsCurrent, HasAppended, FindsFile, CriticalPcs
  <1>5. ASSUME NEW l \in Lists PROVE FileInv(l)
    BY <1>2, EmptyFileOK DEF FileInv, TailGuarded, Parses, Lines
  <1>6. FilesAreThere
    BY <1>3, ModesAssumption, EmptyFileOK DEF Init, FilesAreThere, Lists
  <1> QED BY <1>3, <1>4, <1>5, <1>6 DEF ListInv

LEMMA ListNextInv == ListInv /\ [Next]_vars => ListInv'
  <1> SUFFICES ASSUME ListInv, [Next]_vars PROVE ListInv'
    OBVIOUS
  <1>1. ASSUME NEW c \in Calls, CallStep(c) PROVE ListInv'
    <2>1. CASE Critical(c)
      BY <2>1, AppendLineInv, AppendNewlineInv, ReadAndFilterInv, ReadFailsInv, RenameInv,
            FileErrorInv
         DEF Critical
    <2> QED BY <1>1, <2>1, CheckMembershipInv, AcquireInv, AcquireFailsInv, UpdateMemoryInv, LoadFileInv,
            CreateFileInv, SwapListInv DEF CallStep
  <1>2. CASE UNCHANGED vars
    BY <1>2 DEF vars, ListInv, TypeOK, Active, CallInv, HoldsLock, ReadIsCurrent, HasAppended, FindsFile,
                FilesAreThere, FileInv, TailGuarded, Parses, Lines, Undisturbed
  <1> QED BY <1>1, <1>2, ModesAssumption, ManageListsInv, ReloadInv, SetBlockModeInv,
             CrashInv, RestartInv DEF Next

\* The invariant every theorem below starts from.
THEOREM ListInvariant == Spec => []ListInv
  BY ListInitInv, ListNextInv, PTL DEF Spec

\* Every variable stays in its domain.
THEOREM ListTypeCorrect == Spec => []TypeOK
  BY ListInvariant, PTL DEF ListInv

\* The lock file excludes: of all calls on one list at most one is between
\* acquiring it and dropping it.
THEOREM LockExcludes == Spec => []LockIsExclusive
  <1>1. ListInv => LockIsExclusive
    BY DEF ListInv, CallInv, HoldsLock, LockIsExclusive
  <1> QED BY <1>1, ListInvariant, PTL

\* As long as the block mode stays and no write fails, a removal replaces the file by what is in
\* it less the line: no other call's update is lost.
THEOREM RemovalsLoseNothing ==
  ASSUME Undisturbed
  PROVE  Spec => []RemovalLosesNothing
  <1>1. ListInv => RemovalLosesNothing
    BY DEF ListInv, CallInv, ReadIsCurrent, RemovalLosesNothing
  <1> QED BY <1>1, ListInvariant, PTL

\* As long as the block mode stays and no write fails, the files parse at every moment, crashes
\* included.
THEOREM FilesAlwaysParse ==
  ASSUME Undisturbed
  PROVE  Spec => []FilesParse
  <1>1. ListInv => FilesParse
    BY DEF ListInv, FileInv, FilesParse
  <1> QED BY <1>1, ListInvariant, PTL

(***************************************************************************)
(* The files implement ListStore.                                          *)
(***************************************************************************)

Stored == [l \in Lists |-> Lines(file[l])]
Requests == [c \in Calls |-> RequestOf(c)]

\* A call inside the critical section of add_line adds, one inside that of
\* remove_line removes.
OperationFits ==
  \A c \in Calls :
    /\ call[c].pc \in {"append", "newline"} => call[c].op = "add"
    /\ call[c].pc \in {"read", "rename"} => call[c].op = "remove"

LEMMA OperationStep ==
  ASSUME ListInv, OperationFits, NEW c \in Calls, NEW r,
         call' = [call EXCEPT ![c] = r],
         r.pc \in {"append", "newline"} => r.op = "add",
         r.pc \in {"read", "rename"} => r.op = "remove"
  PROVE  OperationFits'
  <1>1. call' = [call EXCEPT ![c] = r] /\ call \in [Calls -> CallRecord]
    BY CallFacts
  <1>2. call'[c] = r /\ \A d \in Calls \ {c} : call'[d] = call[d]
    BY <1>1
  <1> QED BY <1>2 DEF OperationFits

\* What a call stands for depends on where it is.
LEMMA RequestCases ==
  ASSUME NEW c \in Calls
  PROVE  /\ call[c].pc \in {"check", "acquire", "append", "read", "rename"} =>
              RequestOf(c) = [pc |-> "requested", op |-> call[c].op,
                              list |-> call[c].list, line |-> call[c].line]
         /\ call[c].pc \in {"newline", "memory"} =>
              RequestOf(c) = [pc |-> "committed", op |-> call[c].op,
                              list |-> call[c].list, line |-> call[c].line]
         /\ call[c].pc \in {"idle", "load", "create", "swap"} => RequestOf(c) = Store!Idle
  BY DEF RequestOf, Phase, Store!Idle

LEMMA RequestCasesNext ==
  ASSUME NEW c \in Calls
  PROVE  /\ call'[c].pc \in {"check", "acquire", "append", "read", "rename"} =>
              RequestOf(c)' = [pc |-> "requested", op |-> call'[c].op,
                               list |-> call'[c].list, line |-> call'[c].line]
         /\ call'[c].pc \in {"newline", "memory"} =>
              RequestOf(c)' = [pc |-> "committed", op |-> call'[c].op,
                               list |-> call'[c].list, line |-> call'[c].line]
         /\ call'[c].pc \in {"idle", "load", "create", "swap"} => RequestOf(c)' = Store!Idle
  BY DEF RequestOf, Phase, Store!Idle

\* One call's step changes one request.
LEMMA RequestMoves ==
  ASSUME ListInv, NEW c \in Calls, NEW r, call' = [call EXCEPT ![c] = r]
  PROVE  call'[c] = r /\ Requests' = [Requests EXCEPT ![c] = RequestOf(c)']
  <1>1. call'[c] = r /\ \A d \in Calls \ {c} : call'[d] = call[d]
    BY CallFacts
  <1>2. \A d \in Calls \ {c} : RequestOf(d)' = RequestOf(d)
    BY <1>1 DEF RequestOf
  <1> QED BY <1>1, <1>2 DEF Requests

\* A step of one call that stands for no step of its request.
LEMMA RequestStays ==
  ASSUME ListInv, NEW c \in Calls, NEW r, call' = [call EXCEPT ![c] = r],
         RequestOf(c)' = RequestOf(c)
  PROVE  Requests' = Requests
  BY RequestMoves DEF Requests

\* A step that changes neither what the files hold nor a request.
LEMMA StoreStutters ==
  ASSUME Stored' = Stored, Requests' = Requests
  PROVE  UNCHANGED <<[l \in Lists |-> Lines(file[l])], [c \in Calls |-> RequestOf(c)]>>
  BY DEF Stored, Requests

LEMMA StoredStays ==
  ASSUME \A l \in Lists : Lines(file'[l]) = Lines(file[l])
  PROVE  Stored' = Stored
  BY DEF Stored, Lines

LEMMA StoredChanges ==
  ASSUME ListInv, NEW l \in Lists, NEW f, file' = [file EXCEPT ![l] = f]
  PROVE  Stored' = [Stored EXCEPT ![l] = Lines(f)]
  <1>1. file'[l] = f /\ \A k \in Lists \ {l} : file'[k] = file[k]
    BY DEF ListInv, TypeOK
  <1>2. Stored' = [k \in Lists |-> Lines(file'[k])]
    BY DEF Stored, Lines
  <1>3. \A k \in Lists : Lines(file'[k]) = IF k = l THEN Lines(f) ELSE Stored[k]
    BY <1>1 DEF Stored
  <1>4. [Stored EXCEPT ![l] = Lines(f)] = [k \in Lists |-> IF k = l THEN Lines(f) ELSE Stored[k]]
    BY DEF Stored
  <1> QED BY <1>2, <1>3, <1>4

LEMMA EndOfCall ==
  ASSUME ListInv, NEW c \in Calls, call' = [call EXCEPT ![c] = IdleCall],
         call[c].pc \in {"check", "acquire", "append", "read", "rename", "newline", "memory"},
         UNCHANGED file
  PROVE  Store!End(c)
  <1>1. Requests' = [Requests EXCEPT ![c] = Store!Idle]
    BY RequestMoves, RequestCasesNext, IdleCallOK
  <1>2. Requests[c].pc # "idle"
    BY RequestCases DEF Requests
  <1>3. Stored' = Stored
    BY DEF Stored, Lines
  <1> QED BY <1>1, <1>2, <1>3 DEF Stored, Requests, Store!End, Store!Idle

LEMMA RequestBegins ==
  ASSUME ListInv, NEW c \in Calls, NEW op \in Operations, NEW l \in Lists,
         NEW s \in Spellings, ManageLists(c, op, l, s)
  PROVE  Store!Request(c)
  <1> DEFINE r == [IdleCall EXCEPT !.pc = "check", !.op = op, !.list = l, !.line = s]
  <1>1. call' = [call EXCEPT ![c] = r] /\ call[c].pc = "idle" /\ UNCHANGED file
    BY DEF ManageLists, Active
  <1>2. r.pc = "check" /\ r.op = op /\ r.list = l /\ r.line = s
    BY DEF IdleCall
  <1> HIDE DEF r
  <1>3. Requests' = [Requests EXCEPT ![c] =
                       [pc |-> "requested", op |-> op, list |-> l, line |-> s]]
    BY <1>1, <1>2, RequestMoves, RequestCasesNext
  <1>4. Requests[c].pc = "idle"
    BY <1>1, RequestCases DEF Requests, Store!Idle
  <1>5. Stored' = Stored
    BY <1>1 DEF Stored, Lines
  <1>6. op \in {"add", "remove"}
    BY DEF Operations
  <1> QED BY <1>3, <1>4, <1>5, <1>6 DEF Stored, Requests, Store!Request

\* A step that takes a call from requested to committed and changes the lines
\* of its list accordingly.
LEMMA CommitOfCall ==
  ASSUME ListInv, NEW c \in Calls, NEW r, call' = [call EXCEPT ![c] = r],
         call[c].pc \in {"append", "rename"}, r.pc \in {"newline", "memory"},
         r.op = call[c].op, r.list = call[c].list, r.line = call[c].line,
         NEW f, file' = [file EXCEPT ![call[c].list] = f],
         call[c].op = "add" => Lines(f) = Lines(file[call[c].list]) \cup {call[c].line},
         call[c].op # "add" => Lines(f) = Lines(file[call[c].list]) \ {call[c].line}
  PROVE  Store!Commit(c)
  <1> DEFINE l == call[c].list
  <1>1. l \in Lists
    BY CallFacts DEF ArgumentsOK
  <1>2. Stored' = [Stored EXCEPT ![l] = Lines(f)] /\ Stored[l] = Lines(file[l])
    BY <1>1, StoredChanges DEF Stored
  <1>3. Requests[c] = [pc |-> "requested", op |-> call[c].op, list |-> l, line |-> call[c].line]
    BY RequestCases DEF Requests
  <1>4. Requests' = [Requests EXCEPT ![c] =
          [pc |-> "committed", op |-> call[c].op, list |-> l, line |-> call[c].line]]
    <2>1. call'[c] = r /\ Requests' = [Requests EXCEPT ![c] = RequestOf(c)']
      BY RequestMoves
    <2>2. RequestOf(c)' = [pc |-> "committed", op |-> call'[c].op, list |-> call'[c].list,
                           line |-> call'[c].line]
      BY <2>1, RequestCasesNext
    <2>3. RequestOf(c)' = [pc |-> "committed", op |-> call[c].op, list |-> l,
                           line |-> call[c].line]
      BY <2>1, <2>2
    <2> QED BY <2>1, <2>3
  <1> DEFINE old == Requests[c]
  <1>5. /\ old.pc = "requested" /\ old.op = call[c].op /\ old.list = l /\ old.line = call[c].line
        /\ [old EXCEPT !.pc = "committed"] =
             [pc |-> "committed", op |-> call[c].op, list |-> l, line |-> call[c].line]
    BY <1>3
  <1>6. Requests' = [Requests EXCEPT ![c].pc = "committed"]
    BY <1>4, <1>5
  <1>7. Stored' = [Stored EXCEPT ![old.list] =
          IF old.op = "add" THEN Stored[old.list] \cup {old.line}
          ELSE Stored[old.list] \ {old.line}]
    BY <1>2, <1>5
  <1>8. Store!Commit(c) <=>
          /\ Requests[c].pc = "requested"
          /\ Requests' = [Requests EXCEPT ![c].pc = "committed"]
          /\ Stored' = [Stored EXCEPT ![Requests[c].list] =
               IF Requests[c].op = "add" THEN Stored[Requests[c].list] \cup {Requests[c].line}
               ELSE Stored[Requests[c].list] \ {Requests[c].line}]
    BY DEF Store!Commit, Stored, Requests
  <1> QED BY <1>5, <1>6, <1>7, <1>8

StoreStep ==
  [Store!Next]_<<[l \in Lists |-> Lines(file[l])], [c \in Calls |-> RequestOf(c)]>>

LEMMA CommitIsStep == ASSUME NEW c \in Calls, Store!Commit(c) PROVE StoreStep
  BY DEF StoreStep, Store!Next

LEMMA EndIsStep == ASSUME NEW c \in Calls, Store!End(c) PROVE StoreStep
  BY DEF StoreStep, Store!Next

LEMMA StayIsStep ==
  ASSUME UNCHANGED file, Requests' = Requests PROVE StoreStep
  <1>1. Stored' = Stored
    BY DEF Stored, Lines
  <1> QED BY <1>1, StoreStutters DEF StoreStep

\* A step of one call outside of the store's business.
LEMMA LocalIsStep ==
  ASSUME ListInv, NEW c \in Calls, NEW r, call' = [call EXCEPT ![c] = r],
         UNCHANGED file, Phase(r.pc) = Phase(call[c].pc),
         Phase(r.pc) # "idle" =>
           r.op = call[c].op /\ r.list = call[c].list /\ r.line = call[c].line
  PROVE  StoreStep
  <1>1. call'[c] = r
    BY RequestMoves
  <1>2. RequestOf(c)' = RequestOf(c)
    BY <1>1 DEF RequestOf, Phase
  <1> QED BY <1>2, RequestStays, StayIsStep

LEMMA AppendCommits ==
  ASSUME ListInv, OperationFits, Undisturbed, NEW c \in Calls, AppendLine(c)
  PROVE  Store!Commit(c) /\ OperationFits'
  <1> DEFINE l == call[c].list
             old == IF file[l] = None THEN EmptyFile ELSE file[l]
             new == IF old.tail = None THEN call[c].line ELSE Garbage
             f == [lines |-> (old.lines \ {old.tail}) \cup {new}, tail |-> new]
             r == [call[c] EXCEPT !.pc = "newline"]
  <1>1. /\ call' = [call EXCEPT ![c] = r] /\ file' = [file EXCEPT ![l] = f]
        /\ call[c].pc = "append" /\ call[c] \in CallRecord /\ ArgumentsOK(call[c])
    BY CallFacts DEF AppendLine
  <1>2. r.pc = "newline" /\ r.op = call[c].op /\ r.list = l /\ r.line = call[c].line
    BY <1>1 DEF CallRecord
  <1>3. old.tail = None /\ None \notin old.lines /\ old.lines = Lines(file[l])
    <2>1. CASE file[l] = None
      BY <2>1, EmptyFileOK DEF Lines
    <2>2. CASE file[l] # None
      <3>1. file[l] \in FileContent
        BY <1>1, <2>2, CallFacts DEF ArgumentsOK
      <3> QED BY <1>1, <2>2, <3>1, NoTailToAppendTo, SpellingAssumption DEF Lines, FileContent
    <2> QED BY <2>1, <2>2
  <1> HIDE DEF old
  <1>4. f.lines = Lines(file[l]) \cup {call[c].line}
    BY <1>3
  <1>5. f # None
    <2>1. f.lines \in SUBSET Line /\ f.tail \in Line
      BY <1>1, <1>3, <1>4, CallFacts DEF Lines, FileContent, ArgumentsOK, Line
    <2>2. f \in FileContent
      BY <2>1 DEF FileContent
    <2> QED BY <2>2, SpellingAssumption
  <1>6. Lines(f) = Lines(file[l]) \cup {call[c].line} /\ call[c].op = "add"
    BY <1>1, <1>4, <1>5 DEF Lines, OperationFits
  <1> HIDE DEF r, f
  <1> QED BY <1>1, <1>2, <1>6, CommitOfCall, OperationStep

LEMMA RenameCommits ==
  ASSUME ListInv, OperationFits, Undisturbed, NEW c \in Calls, Rename(c)
  PROVE  Store!Commit(c) /\ OperationFits'
  <1> DEFINE l == call[c].list
             f == [lines |-> call[c].filtered, tail |-> None]
             r == [call[c] EXCEPT !.pc = "memory", !.filtered = {}]
  <1>1. /\ call' = [call EXCEPT ![c] = r] /\ file' = [file EXCEPT ![l] = f]
        /\ call[c].pc = "rename" /\ call[c] \in CallRecord
    BY CallFacts DEF Rename
  <1>2. r.pc = "memory" /\ r.op = call[c].op /\ r.list = l /\ r.line = call[c].line
    BY <1>1 DEF CallRecord
  <1>3. f \in FileContent /\ f # None
    BY <1>1, SpellingAssumption DEF FileContent, CallRecord
  <1>4. Lines(f) = Lines(file[l]) \ {call[c].line} /\ call[c].op = "remove"
    BY <1>1, <1>3 DEF Lines, ListInv, CallInv, ReadIsCurrent, OperationFits
  <1> HIDE DEF r, f
  <1> QED BY <1>1, <1>2, <1>4, CommitOfCall, OperationStep

\* The newline ends a line that is there already.
LEMMA NewlineStays ==
  ASSUME ListInv, OperationFits, Undisturbed, NEW c \in Calls, AppendNewline(c)
  PROVE  StoreStep /\ OperationFits' /\ Stored' = Stored
  <1> DEFINE l == call[c].list
             r == [call[c] EXCEPT !.pc = "memory"]
             f == [lines |-> file[l].lines, tail |-> None]
  <1>1. /\ call' = [call EXCEPT ![c] = r] /\ call[c].pc = "newline"
        /\ call[c] \in CallRecord /\ file \in [Lists -> FileContent \cup {None}]
        /\ l \in Lists /\ file[l] # None /\ file[l].tail # None
    BY CallFacts DEF AppendNewline, ListInv, CallInv, HasAppended, ArgumentsOK
  <1>2. file' = [file EXCEPT ![l] = f]
    BY <1>1 DEF AppendNewline
  <1>3. r.pc = "memory" /\ r.op = call[c].op /\ r.list = l /\ r.line = call[c].line
    BY <1>1 DEF CallRecord
  <1>4. f.lines = file[l].lines /\ f \in FileContent /\ f # None
    BY <1>1, SpellingAssumption DEF FileContent
  <1>5. Lines(f) = Lines(file[l])
    BY <1>1, <1>4 DEF Lines
  <1> HIDE DEF r, f
  <1>6. Stored' = Stored
    BY <1>1, <1>2, <1>5, StoredChanges DEF Stored
  <1>7. RequestOf(c)' = RequestOf(c)
    BY <1>1, <1>3, RequestMoves DEF RequestOf, Phase
  <1>8. Requests' = Requests
    BY <1>1, <1>7, RequestStays
  <1> QED BY <1>1, <1>3, <1>6, <1>8, StoreStutters, OperationStep DEF StoreStep

\* The remaining steps of a call: it ends, or goes on without a commit.
LEMMA OtherCallSteps ==
  ASSUME ListInv, OperationFits, Undisturbed, NEW c \in Calls,
         \/ CheckMembership(c) \/ Acquire(c) \/ UpdateMemory(c) \/ ReadAndFilter(c)
         \/ LoadFile(c) \/ FileMissing(c) \/ SwapList(c)
  PROVE  StoreStep /\ OperationFits'
  <1>1. call[c] \in CallRecord /\ ArgumentsOK(call[c]) /\ UNCHANGED file
    BY CallFacts DEF CheckMembership, Acquire, UpdateMemory, ReadAndFilter, LoadFile,
                     FileMissing, SwapList
  <1>2. CASE call' = [call EXCEPT ![c] = IdleCall]
             /\ call[c].pc \in {"check", "acquire", "append", "read", "rename", "newline", "memory"}
    <2>1. Store!End(c)
      BY <1>1, <1>2, EndOfCall
    <2> QED BY <1>2, <2>1, EndIsStep, OperationStep, IdleCallOK
  <1>3. CASE call' = [call EXCEPT ![c] = IdleCall] /\ call[c].pc \in {"load", "swap"}
    <2>1. StoreStep
      BY <1>1, <1>3, LocalIsStep, IdleCallOK DEF Phase
    <2> QED BY <1>3, <2>1, OperationStep, IdleCallOK
  <1>4. CASE CheckMembership(c)
    <2> DEFINE r == [call[c] EXCEPT !.pc = "acquire"]
    <2>1. /\ call[c].pc = "check" /\ r.pc = "acquire" /\ r.op = call[c].op
          /\ r.list = call[c].list /\ r.line = call[c].line
          /\ call' = [call EXCEPT ![c] = IdleCall] \/ call' = [call EXCEPT ![c] = r]
      BY <1>1, <1>4 DEF CheckMembership, CallRecord
    <2> HIDE DEF r
    <2>2. CASE call' = [call EXCEPT ![c] = r]
      BY <1>1, <2>1, <2>2, LocalIsStep, OperationStep DEF Phase
    <2> QED BY <1>2, <2>1, <2>2
  <1>5. CASE Acquire(c)
    <2> DEFINE next == IF call[c].op = "add" THEN "append" ELSE "read"
               r == [call[c] EXCEPT !.pc = next]
    <2>1. /\ call[c].pc = "acquire" /\ r.pc = next /\ r.op = call[c].op
          /\ r.list = call[c].list /\ r.line = call[c].line
          /\ call' = [call EXCEPT ![c] = r]
      BY <1>1, <1>5 DEF Acquire, CallRecord
    <2>2. /\ next \in {"append", "read"}
          /\ next = "append" => call[c].op = "add"
          /\ next = "read" => call[c].op = "remove"
      BY <1>1, <2>1 DEF ArgumentsOK, Operations
    <2> HIDE DEF next, r
    <2>3. StoreStep
      BY <1>1, <2>1, <2>2, LocalIsStep DEF Phase
    <2> QED BY <2>1, <2>2, <2>3, OperationStep
  <1>6. CASE UpdateMemory(c)
    BY <1>2, <1>6 DEF UpdateMemory
  <1>7. CASE ReadAndFilter(c)
    <2> DEFINE kept == Lines(file[call[c].list]) \ {call[c].line}
               r == [call[c] EXCEPT !.pc = "rename", !.filtered = kept]
    <2>1. /\ call[c].pc = "read" /\ r.pc = "rename" /\ r.op = call[c].op
          /\ r.list = call[c].list /\ r.line = call[c].line
          /\ call' = [call EXCEPT ![c] = r] /\ r.op = "remove"
      BY <1>1, <1>7 DEF ReadAndFilter, CallRecord, OperationFits
    <2> HIDE DEF r
    <2> QED BY <1>1, <2>1, LocalIsStep, OperationStep DEF Phase
  <1>8. CASE LoadFile(c) \/ FileMissing(c)
    <2> DEFINE ks == KeysIn(file[call[c].list])
               r1 == [call[c] EXCEPT !.pc = "swap", !.keys = ks]
               r2 == [call[c] EXCEPT !.pc = "create"]
    <2>1. /\ call[c].pc = "load" /\ r1.pc = "swap" /\ r2.pc = "create"
          /\ \/ call' = [call EXCEPT ![c] = IdleCall]
             \/ call' = [call EXCEPT ![c] = r1]
             \/ call' = [call EXCEPT ![c] = r2]
      BY <1>1, <1>8 DEF LoadFile, FileMissing, CallRecord
    <2> HIDE DEF r1, r2
    <2>2. CASE call' = [call EXCEPT ![c] = r1]
      BY <1>1, <2>1, <2>2, LocalIsStep, OperationStep DEF Phase
    <2>3. CASE call' = [call EXCEPT ![c] = r2]
      BY <1>1, <2>1, <2>3, LocalIsStep, OperationStep DEF Phase
    <2> QED BY <1>3, <2>1, <2>2, <2>3
  <1>9. CASE SwapList(c)
    <2> DEFINE r == [call[c] EXCEPT !.pc = "load", !.list = "zeroconf", !.keys = {}]
    <2>1. /\ call[c].pc = "swap" /\ r.pc = "load"
          /\ call' = [call EXCEPT ![c] = IdleCall] \/ call' = [call EXCEPT ![c] = r]
      BY <1>1, <1>9 DEF SwapList, CallRecord
    <2> HIDE DEF r
    <2>2. CASE call' = [call EXCEPT ![c] = r]
      BY <1>1, <2>1, <2>2, LocalIsStep, OperationStep DEF Phase
    <2> QED BY <1>3, <2>1, <2>2
  <1> QED BY <1>4, <1>5, <1>6, <1>7, <1>8, <1>9

LEMMA CallStepStore ==
  ASSUME ListInv, OperationFits, Undisturbed, NEW c \in Calls, CallStep(c)
  PROVE  StoreStep /\ OperationFits'
  <1>1. ~AcquireFails(c) /\ ~FileError(c)
    BY DEF AcquireFails, FileError, Undisturbed
  <1>2. ~ReadFails(c) /\ ~CreateFile(c)
    BY DEF ReadFails, CreateFile, ListInv, CallInv, FindsFile
  <1> QED BY <1>1, <1>2, OtherCallSteps, AppendCommits, RenameCommits, NewlineStays, CommitIsStep
          DEF CallStep, Critical

LEMMA CrashStore ==
  ASSUME ListInv, Crash
  PROVE  StoreStep /\ OperationFits'
  <1>1. UNCHANGED file /\ call' = [c \in Calls |-> IdleCall]
    BY DEF Crash
  <1>2. \A c \in Calls : call'[c].pc = "idle"
    BY <1>1, IdleCallOK
  <1>3. Requests' = [c \in Calls |-> Store!Idle]
    BY <1>2, RequestCasesNext DEF Requests
  <1>4. Stored' = Stored
    BY <1>1 DEF Stored, Lines
  <1>5. Store!Crash
    BY <1>3, <1>4 DEF Store!Crash, Stored, Requests
  <1> QED BY <1>2, <1>5 DEF StoreStep, Store!Next, OperationFits

LEMMA RestartStore ==
  ASSUME ListInv, OperationFits, Restart
  PROVE  StoreStep /\ OperationFits'
  <1>1. file' = Touched /\ UNCHANGED call
    BY DEF Restart
  <1>2. \A l \in Lists : Lines(file'[l]) = Lines(file[l])
    BY <1>1, EmptyFileOK DEF Touched, Lines
  <1>3. Requests' = Requests
    BY <1>1 DEF Requests, RequestOf
  <1> QED BY <1>1, <1>2, <1>3, StoredStays, StoreStutters DEF StoreStep, OperationFits

LEMMA StoreNext ==
  ASSUME Undisturbed, ListInv, OperationFits, [Next]_vars
  PROVE  StoreStep /\ OperationFits'
  <1>1. ASSUME NEW c \in Calls, NEW op \in Operations, NEW l \in Managed, NEW s \in Spellings,
               ManageLists(c, op, l, s)
        PROVE  StoreStep /\ OperationFits'
    <2>1. l \in Lists
      BY ModesAssumption
    <2>2. Store!Request(c)
      BY <1>1, <2>1, RequestBegins
    <2>3. StoreStep
      BY <2>2 DEF StoreStep, Store!Next
    <2> DEFINE r == [IdleCall EXCEPT !.pc = "check", !.op = op, !.list = l, !.line = s]
    <2>4. call' = [call EXCEPT ![c] = r] /\ r.pc = "check"
      BY <1>1 DEF ManageLists, IdleCall
    <2> HIDE DEF r
    <2> QED BY <2>3, <2>4, OperationStep
  <1>2. ASSUME NEW c \in Calls, Reload(c)
        PROVE  StoreStep /\ OperationFits'
    <2> DEFINE r == [IdleCall EXCEPT !.pc = "load", !.op = "reload", !.list = block_mode]
    <2>1. call' = [call EXCEPT ![c] = r] /\ r.pc = "load" /\ call[c].pc = "idle"
          /\ UNCHANGED file
      BY <1>2 DEF Reload, IdleCall, Active
    <2> HIDE DEF r
    <2> QED BY <2>1, LocalIsStep, OperationStep DEF Phase
  <1>3. ASSUME UNCHANGED <<file, call>> PROVE StoreStep /\ OperationFits'
    BY <1>3, StayIsStep DEF Requests, RequestOf, OperationFits
  <1>4. ASSUME NEW m \in Modes, SetBlockMode(m) PROVE UNCHANGED <<file, call>>
    BY <1>4 DEF SetBlockMode
  <1>5. CASE UNCHANGED vars
    BY <1>3, <1>5 DEF vars
  <1> QED BY <1>1, <1>2, <1>3, <1>4, <1>5, CallStepStore, CrashStore, RestartStore DEF Next

LEMMA StoreInit ==
  ASSUME Init
  PROVE  Store!Init /\ OperationFits
  <1>1. \A c \in Calls : call[c] = IdleCall /\ call[c].pc = "idle"
    BY IdleCallOK DEF Init
  <1>2. [l \in Lists |-> Lines(file[l])] \in [Lists -> SUBSET Spellings]
    BY EmptyFileOK DEF Init, Lines
  <1>3. [c \in Calls |-> RequestOf(c)] = [c \in Calls |-> Store!Idle]
    BY <1>1, RequestCases
  <1> QED BY <1>1, <1>2, <1>3 DEF Store!Init, OperationFits

\* As long as the block mode stays and no write fails, the files are the
\* durable lists of ListStore, for any number of calls, keys and spellings and
\* with crashes: each call of managelists takes effect at one moment or not at
\* all.
THEOREM FilesImplementStore ==
  ASSUME Undisturbed
  PROVE  Spec => FilesAreAStore
  <1>1. ListInv /\ OperationFits /\ [Next]_vars => StoreStep /\ OperationFits'
    BY StoreNext
  <1>2. Init => Store!Init /\ OperationFits
    BY StoreInit
  <1> QED BY <1>1, <1>2, ListInvariant, PTL DEF Spec, FilesAreAStore, Store!Spec, StoreStep

(***************************************************************************)
(* Memory and files agree.                                                 *)
(***************************************************************************)

InFile(l, k) == k \in KeysIn(file[l])
InMemory(l, k) == k \in memory[MemoryOf(l)]

HandledAlone(l, k) ==
  \A c, d \in Calls : Handles(c, l, k) /\ Handles(d, l, k) => c = d

\* What call c relies on for the key k it handles: until it has written,
\* memory and file agree, then the file is ahead; a reload has read what is in
\* the file still.
Promise(c, l, k) ==
  /\ Phase(call[c].pc) = "requested" => (InMemory(l, k) <=> InFile(l, k))
  /\ Phase(call[c].pc) = "committed" => (InFile(l, k) <=> call[c].op = "add")
  /\ call[c].pc = "swap" /\ call[c].list = l => (k \in call[c].keys <=> InFile(l, k))

KeyInv(l, k) ==
  <<l, k>> \notin disputed =>
    /\ HandledAlone(l, k)
    /\ status = "up" =>
         /\ \A c \in Calls : Handles(c, l, k) => Promise(c, l, k)
         /\ (\A c \in Calls : ~Handles(c, l, k)) => (InMemory(l, k) <=> InFile(l, k))

InUse == {block_mode, "zeroconf"}

AgreeInv ==
  /\ \A c \in Calls : Active(c) => call[c].list \in InUse
  /\ \A l \in InUse, k \in Keys : KeyInv(l, k)

\* The lists in use are two, and each has its set in memory.
LEMMA ListsInUse ==
  ASSUME ListInv
  PROVE  /\ InUse \subseteq Lists /\ block_mode # "zeroconf"
         /\ \A l \in InUse : MemoryOf(l) \in {"pubkey", "zeroconf"}
         /\ \A l, m \in InUse : MemoryOf(l) = MemoryOf(m) => l = m
  BY ModesAssumption DEF ListInv, TypeOK, InUse, Lists, MemoryOf

\* A line more or less concerns its key alone.
LEMMA KeysOfLines ==
  ASSUME NEW s \in Spellings, NEW k, NEW f, NEW g
  PROVE  /\ Lines(g) = Lines(f) => KeysIn(g) = KeysIn(f)
         /\ Lines(g) = Lines(f) \cup {s} =>
              (k \in KeysIn(g) <=> k = KeyOf[s] \/ k \in KeysIn(f))
         /\ Lines(g) = Lines(f) \ {s} /\ k # KeyOf[s] =>
              (k \in KeysIn(g) <=> k \in KeysIn(f))
  <1>1. \A x : k \in {KeyOf[t] : t \in x \cap Spellings} <=>
                 \E t \in Spellings : t \in x /\ k = KeyOf[t]
    OBVIOUS
  <1>2. (k \in KeysIn(f) <=> \E t \in Spellings : t \in Lines(f) /\ k = KeyOf[t])
        /\ (k \in KeysIn(g) <=> \E t \in Spellings : t \in Lines(g) /\ k = KeyOf[t])
    BY <1>1 DEF KeysIn
  <1>3. Lines(g) = Lines(f) => KeysIn(g) = KeysIn(f)
    BY DEF KeysIn
  <1>4. Lines(g) = Lines(f) \cup {s} =>
          (k \in KeysIn(g) <=> k = KeyOf[s] \/ k \in KeysIn(f))
    BY <1>2
  <1>5. Lines(g) = Lines(f) \ {s} /\ k # KeyOf[s] =>
          (k \in KeysIn(g) <=> k \in KeysIn(f))
    BY <1>2
  <1> QED BY <1>3, <1>4, <1>5

\* A step of call c keeps the part of the invariant about a key, if it leaves
\* a key it does not handle alone and keeps its promise about one it does, or
\* declares the key disputed.
LEMMA KeyStep ==
  ASSUME NEW c \in Calls, NEW l, NEW k, KeyInv(l, k),
         \A d \in Calls \ {c} : call'[d] = call[d], UNCHANGED status,
         disputed \subseteq disputed',
         Handles(c, l, k)' => Handles(c, l, k),
         ~Handles(c, l, k) =>
           (InFile(l, k)' <=> InFile(l, k)) /\ (InMemory(l, k)' <=> InMemory(l, k)),
         <<l, k>> \notin disputed' /\ Handles(c, l, k) /\ Promise(c, l, k) =>
           IF Handles(c, l, k)' THEN Promise(c, l, k)' ELSE (InMemory(l, k)' <=> InFile(l, k)')
  PROVE  KeyInv(l, k)'
  <1> SUFFICES ASSUME <<l, k>> \notin disputed'
               PROVE  /\ HandledAlone(l, k)'
                      /\ status = "up" =>
                           /\ \A d \in Calls : Handles(d, l, k)' => Promise(d, l, k)'
                           /\ (\A d \in Calls : ~Handles(d, l, k)') =>
                                (InMemory(l, k)' <=> InFile(l, k)')
    BY DEF KeyInv
  <1>1. \A d \in Calls \ {c} : Handles(d, l, k)' <=> Handles(d, l, k)
    BY DEF Handles, Active
  <1>2. HandledAlone(l, k) /\ HandledAlone(l, k)'
    BY <1>1 DEF KeyInv, HandledAlone
  <1>3. CASE Handles(c, l, k)
    <2>1. \A d \in Calls \ {c} : ~Handles(d, l, k) /\ ~Handles(d, l, k)'
      BY <1>1, <1>2, <1>3 DEF HandledAlone
    <2> QED BY <1>2, <1>3, <2>1 DEF KeyInv
  <1>4. CASE ~Handles(c, l, k)
    <2>1. ASSUME NEW d \in Calls \ {c}, Promise(d, l, k) PROVE Promise(d, l, k)'
      BY <1>4, <2>1 DEF Promise, Phase
    <2> QED BY <1>1, <1>2, <1>4, <2>1 DEF KeyInv
  <1> QED BY <1>3, <1>4

\* A call that begins to handle keys: those another call handles are disputed.
LEMMA KeyBegins ==
  ASSUME NEW c \in Calls, NEW l, NEW k, KeyInv(l, k), ~Active(c),
         \A d \in Calls \ {c} : call'[d] = call[d],
         UNCHANGED <<status, file, memory>>, disputed \subseteq disputed',
         Handles(c, l, k)' /\ <<l, k>> \notin disputed' => \A d \in Calls : ~Handles(d, l, k),
         Handles(c, l, k)' /\ (InMemory(l, k) <=> InFile(l, k)) => Promise(c, l, k)'
  PROVE  KeyInv(l, k)'
  <1> SUFFICES ASSUME <<l, k>> \notin disputed'
               PROVE  /\ HandledAlone(l, k)'
                      /\ status = "up" =>
                           /\ \A d \in Calls : Handles(d, l, k)' => Promise(d, l, k)'
                           /\ (\A d \in Calls : ~Handles(d, l, k)') =>
                                (InMemory(l, k)' <=> InFile(l, k)')
    BY DEF KeyInv
  <1>1. \A d \in Calls \ {c} : Handles(d, l, k)' <=> Handles(d, l, k)
    BY DEF Handles, Active
  <1>2. ~Handles(c, l, k) /\ <<l, k>> \notin disputed
    BY DEF Handles
  <1>3. (InMemory(l, k)' <=> InMemory(l, k)) /\ (InFile(l, k)' <=> InFile(l, k))
    BY DEF InMemory, InFile, KeysIn, Lines
  <1>4. \A d \in Calls \ {c} : Promise(d, l, k) => Promise(d, l, k)'
    BY <1>3 DEF Promise, Phase
  <1>5. HandledAlone(l, k)'
    BY <1>1, <1>2 DEF KeyInv, HandledAlone
  <1> QED BY <1>1, <1>2, <1>3, <1>4, <1>5 DEF KeyInv

\* The lists of the calls under way stay in use.
LEMMA CallStaysInUse ==
  ASSUME ListInv, AgreeInv, NEW c \in Calls, NEW r, call' = [call EXCEPT ![c] = r],
         r.pc # "idle" => r.list \in InUse, UNCHANGED block_mode
  PROVE  /\ \A d \in Calls : Active(d)' => call'[d].list \in InUse'
         /\ InUse' = InUse
         /\ call'[c] = r /\ \A d \in Calls \ {c} : call'[d] = call[d]
  <1>1. call'[c] = r /\ \A d \in Calls \ {c} : call'[d] = call[d]
    BY CallFacts
  <1>2. InUse' = InUse
    BY DEF InUse
  <1> QED BY <1>1, <1>2 DEF AgreeInv, Active

\* The steps of a call that change neither file nor memory: it ends before it
\* has written anything, or goes on to write it.
LEMMA RequestAgrees ==
  ASSUME ListInv, AgreeInv, NEW c \in Calls,
         CheckMembership(c) \/ Acquire(c) \/ ReadAndFilter(c)
  PROVE  AgreeInv'
  <1>1. /\ call[c] \in CallRecord /\ ArgumentsOK(call[c])
        /\ call[c].pc \in {"check", "acquire", "read"}
        /\ UNCHANGED <<status, block_mode, file, memory, disputed>>
    BY CallFacts DEF CheckMembership, Acquire, ReadAndFilter
  <1>2. PICK r : /\ call' = [call EXCEPT ![c] = r]
                 /\ \/ r.pc = "idle"
                    \/ /\ Phase(r.pc) = "requested"
                       /\ r.op = call[c].op /\ r.list = call[c].list /\ r.line = call[c].line
    <2>1. CASE CheckMembership(c)
      <3> DEFINE q == [call[c] EXCEPT !.pc = "acquire"]
      <3>1. q.pc = "acquire" /\ q.op = call[c].op /\ q.list = call[c].list /\ q.line = call[c].line
        BY <1>1 DEF CallRecord
      <3>2. call' = [call EXCEPT ![c] = IdleCall] \/ call' = [call EXCEPT ![c] = q]
        BY <2>1 DEF CheckMembership
      <3> HIDE DEF q
      <3> QED BY <3>1, <3>2, IdleCallOK DEF Phase
    <2>2. CASE Acquire(c)
      <3> DEFINE next == IF call[c].op = "add" THEN "append" ELSE "read"
                 q == [call[c] EXCEPT !.pc = next]
      <3>1. q.pc = next /\ q.op = call[c].op /\ q.list = call[c].list /\ q.line = call[c].line
        BY <1>1 DEF CallRecord
      <3>2. call' = [call EXCEPT ![c] = q] /\ next \in {"append", "read"}
        BY <2>2 DEF Acquire
      <3> HIDE DEF q, next
      <3> QED BY <3>1, <3>2 DEF Phase
    <2>3. CASE ReadAndFilter(c)
      <3> DEFINE kept == Lines(file[call[c].list]) \ {call[c].line}
                 q == [call[c] EXCEPT !.pc = "rename", !.filtered = kept]
      <3>1. q.pc = "rename" /\ q.op = call[c].op /\ q.list = call[c].list /\ q.line = call[c].line
        BY <1>1 DEF CallRecord
      <3>2. call' = [call EXCEPT ![c] = q]
        BY <2>3 DEF ReadAndFilter
      <3> HIDE DEF q
      <3> QED BY <3>1, <3>2 DEF Phase
    <2> QED BY <2>1, <2>2, <2>3
  <1>3. /\ \A d \in Calls : Active(d)' => call'[d].list \in InUse'
        /\ InUse' = InUse /\ call'[c] = r /\ \A d \in Calls \ {c} : call'[d] = call[d]
    BY <1>1, <1>2, CallStaysInUse DEF AgreeInv, Active
  <1>4. ASSUME NEW l \in InUse, NEW k \in Keys PROVE KeyInv(l, k)'
    <2>1. (InMemory(l, k)' <=> InMemory(l, k)) /\ (InFile(l, k)' <=> InFile(l, k))
      BY <1>1 DEF InMemory, InFile, KeysIn, Lines
    <2>2. Handles(c, l, k)' => Handles(c, l, k)
      BY <1>1, <1>2, <1>3 DEF Handles, Active
    <2>3. ASSUME Handles(c, l, k), Promise(c, l, k)
          PROVE  /\ InMemory(l, k)' <=> InFile(l, k)'
                 /\ Handles(c, l, k)' => Promise(c, l, k)'
      <3>1. InMemory(l, k)' <=> InFile(l, k)'
        BY <1>1, <2>1, <2>3 DEF Promise, Phase
      <3>2. r.pc # "idle" => r.pc # "swap" /\ Phase(r.pc) # "committed"
        BY <1>2 DEF Phase
      <3> QED BY <1>3, <3>1, <3>2 DEF Promise, Handles, Active
    <2> QED BY <1>1, <1>3, <2>1, <2>2, <2>3, KeyStep DEF AgreeInv
  <1> QED BY <1>3, <1>4 DEF AgreeInv

\* What a step of the store says of the lines of each list.
LEMMA CommittedLines ==
  ASSUME ListInv, NEW c \in Calls, call[c].pc \in {"append", "rename"}, Store!Commit(c),
         NEW l \in Lists
  PROVE  Lines(file'[l]) =
           IF l # call[c].list THEN Lines(file[l])
           ELSE IF call[c].op = "add" THEN Lines(file[l]) \cup {call[c].line}
           ELSE Lines(file[l]) \ {call[c].line}
  <1>1. Requests[c] = [pc |-> "requested", op |-> call[c].op, list |-> call[c].list,
                       line |-> call[c].line]
    BY RequestCases DEF Requests
  <1>2. Requests[c].op = call[c].op /\ Requests[c].list = call[c].list
        /\ Requests[c].line = call[c].line
    BY <1>1
  <1>3. Stored' = [Stored EXCEPT ![Requests[c].list] =
               IF Requests[c].op = "add" THEN Stored[Requests[c].list] \cup {Requests[c].line}
               ELSE Stored[Requests[c].list] \ {Requests[c].line}]
    BY DEF Store!Commit, Stored, Requests
  <1>4. Stored'[l] = Lines(file'[l]) /\ Stored[l] = Lines(file[l])
    BY DEF Stored, Lines
  <1>5. call[c].list \in Lists /\ Stored[call[c].list] = Lines(file[call[c].list])
    BY CallFacts DEF ArgumentsOK, Stored
  <1>6. DOMAIN Stored = Lists
    BY DEF Stored
  <1> HIDE DEF Stored, Requests
  <1>7. Stored'[l] = IF l # call[c].list THEN Stored[l]
                     ELSE IF call[c].op = "add" THEN Stored[l] \cup {call[c].line}
                     ELSE Stored[l] \ {call[c].line}
    BY ONLY <1>2, <1>3, <1>6, l \in Lists, SMTT(30)
  <1> QED BY <1>4, <1>7

\* The file changes: its key is in it or not, and memory is to follow.
LEMMA CommitAgrees ==
  ASSUME ListInv, AgreeInv, OperationFits, Undisturbed, NEW c \in Calls,
         AppendLine(c) \/ Rename(c)
  PROVE  AgreeInv'
  <1>1. /\ call[c] \in CallRecord /\ ArgumentsOK(call[c])
        /\ call[c].pc \in {"append", "rename"} /\ Store!Commit(c)
        /\ UNCHANGED <<status, block_mode, memory>> /\ disputed \subseteq disputed'
    BY CallFacts, AppendCommits, RenameCommits DEF AppendLine, Rename
  <1>2. PICK r : /\ call' = [call EXCEPT ![c] = r]
                 /\ r.pc \in {"newline", "memory"} /\ r.op = call[c].op
                 /\ r.list = call[c].list /\ r.line = call[c].line
    <2> DEFINE q1 == [call[c] EXCEPT !.pc = "newline"]
               q2 == [call[c] EXCEPT !.pc = "memory", !.filtered = {}]
    <2>1. /\ q1.pc = "newline" /\ q1.op = call[c].op /\ q1.list = call[c].list
          /\ q1.line = call[c].line
          /\ q2.pc = "memory" /\ q2.op = call[c].op /\ q2.list = call[c].list
          /\ q2.line = call[c].line
      BY <1>1 DEF CallRecord
    <2>2. call' = [call EXCEPT ![c] = q1] \/ call' = [call EXCEPT ![c] = q2]
      BY DEF AppendLine, Rename
    <2> HIDE DEF q1, q2
    <2> QED BY <2>1, <2>2
  <1>3. /\ \A d \in Calls : Active(d)' => call'[d].list \in InUse'
        /\ InUse' = InUse /\ call'[c] = r /\ \A d \in Calls \ {c} : call'[d] = call[d]
    <2>1. r.list \in InUse
      BY <1>1, <1>2 DEF AgreeInv, Active
    <2> QED BY <1>1, <1>2, <2>1, CallStaysInUse
  <1>4. call[c].line \in Spellings /\ call[c].op \in Operations
    BY <1>1 DEF ArgumentsOK
  <1>5. ASSUME NEW l \in InUse, NEW k \in Keys PROVE KeyInv(l, k)'
    <2>1. InMemory(l, k)' <=> InMemory(l, k)
      BY <1>1 DEF InMemory
    <2>2. Lines(file'[l]) =
            IF l # call[c].list THEN Lines(file[l])
            ELSE IF call[c].op = "add" THEN Lines(file[l]) \cup {call[c].line}
            ELSE Lines(file[l]) \ {call[c].line}
      BY <1>1, ListsInUse, CommittedLines
    <2>3. Handles(c, l, k) <=> l = call[c].list /\ k = KeyOf[call[c].line]
      BY <1>1, <1>4 DEF Handles, Active, Operations
    <2>4. InFile(l, k)' <=> k \in KeysIn(file'[l])
      BY DEF InFile, KeysIn, Lines
    <2>5. ~Handles(c, l, k) => (InFile(l, k)' <=> InFile(l, k))
      BY <1>4, <2>2, <2>3, <2>4, KeysOfLines DEF InFile
    <2>6. <<l, k>> \notin disputed' /\ Handles(c, l, k) =>
            (InFile(l, k)' <=> call[c].op = "add")
      <3>1. CASE call[c].op = "add"
        BY <1>4, <2>2, <2>3, <2>4, <3>1, KeysOfLines
      <3>2. CASE call[c].op = "remove"
        <4>1. Rename(c)
          BY <3>2 DEF AppendLine, OperationFits
        <4>2. Lines(file'[call[c].list]) = call[c].filtered
          <5> DEFINE f == [lines |-> call[c].filtered, tail |-> None]
          <5>1. f.lines = call[c].filtered /\ f # None
            BY <1>1, SpellingAssumption DEF CallRecord, FileContent
          <5>2. file' = [file EXCEPT ![call[c].list] = f] /\ call[c].list \in Lists
            BY <1>1, <4>1, ListsInUse DEF Rename, AgreeInv, Active
          <5> HIDE DEF f
          <5>3. file'[call[c].list] = f
            BY <5>2, CallFacts
          <5> QED BY <5>1, <5>3 DEF Lines
        <4>3. ASSUME l = call[c].list, k = KeyOf[call[c].line], k \in KeysIn(file'[l])
              PROVE  <<l, k>> \in disputed'
          <5>1. \E t \in call[c].filtered \cap Spellings : KeyOf[t] = k
            BY <4>2, <4>3 DEF KeysIn
          <5>2. <<l, k>> \in Respelled(c)
            BY <4>3, <5>1 DEF Respelled
          <5> QED BY <4>1, <5>2 DEF Rename
        <4> QED BY <2>3, <2>4, <3>2, <4>3
      <3> QED BY <1>4, <3>1, <3>2 DEF Operations
    <2>7. Handles(c, l, k)' <=> Handles(c, l, k)
      BY <1>1, <1>2, <1>3, <1>4, <2>3 DEF Handles, Active, Operations
    <2>8. <<l, k>> \notin disputed' /\ Handles(c, l, k) => Promise(c, l, k)'
      BY <1>2, <1>3, <2>6 DEF Promise, Phase
    <2> QED BY <1>1, <1>3, <2>1, <2>5, <2>7, <2>8, KeyStep DEF AgreeInv
  <1> QED BY <1>3, <1>5 DEF AgreeInv

\* The newline ends a line that is there already.
LEMMA NewlineAgrees ==
  ASSUME ListInv, AgreeInv, OperationFits, Undisturbed, NEW c \in Calls, AppendNewline(c)
  PROVE  AgreeInv'
  <1> DEFINE r == [call[c] EXCEPT !.pc = "memory"]
  <1>1. /\ call[c] \in CallRecord /\ ArgumentsOK(call[c]) /\ call[c].pc = "newline"
        /\ call' = [call EXCEPT ![c] = r]
        /\ UNCHANGED <<status, block_mode, memory, disputed>> /\ Stored' = Stored
    BY CallFacts, NewlineStays DEF AppendNewline
  <1>2. r.pc = "memory" /\ r.op = call[c].op /\ r.list = call[c].list /\ r.line = call[c].line
    BY <1>1 DEF CallRecord
  <1> HIDE DEF r
  <1>3. /\ \A d \in Calls : Active(d)' => call'[d].list \in InUse'
        /\ InUse' = InUse /\ call'[c] = r /\ \A d \in Calls \ {c} : call'[d] = call[d]
    BY <1>1, <1>2, CallStaysInUse DEF AgreeInv, Active
  <1>4. ASSUME NEW l \in InUse, NEW k \in Keys PROVE KeyInv(l, k)'
    <2>1. InMemory(l, k)' <=> InMemory(l, k)
      BY <1>1 DEF InMemory
    <2>2. InFile(l, k)' <=> InFile(l, k)
      <3>1. Stored'[l] = Lines(file'[l]) /\ Stored[l] = Lines(file[l])
        BY ListsInUse DEF Stored, Lines
      <3>2. Lines(file'[l]) = Lines(file[l])
        BY <1>1, <3>1
      <3> QED BY <3>2 DEF InFile, KeysIn, Lines
    <2>3. Handles(c, l, k)' <=> Handles(c, l, k)
      BY <1>1, <1>2, <1>3 DEF Handles, Active
    <2>4. Promise(c, l, k) => Promise(c, l, k)'
      BY <1>1, <1>2, <1>3, <2>2 DEF Promise, Phase
    <2> QED BY <1>1, <1>3, <2>1, <2>2, <2>3, <2>4, KeyStep DEF AgreeInv
  <1> QED BY <1>3, <1>4 DEF AgreeInv

\* Memory follows the file.
LEMMA MemoryAgrees ==
  ASSUME ListInv, AgreeInv, NEW c \in Calls, UpdateMemory(c)
  PROVE  AgreeInv'
  <1> DEFINE m == MemoryOf(call[c].list)
             key == KeyOf[call[c].line]
             set == IF call[c].op = "add" THEN memory[m] \cup {key} ELSE memory[m] \ {key}
  <1>1. /\ ArgumentsOK(call[c]) /\ call[c].pc = "memory"
        /\ call' = [call EXCEPT ![c] = IdleCall] /\ memory' = [memory EXCEPT ![m] = set]
        /\ memory \in [{"pubkey", "zeroconf"} -> SUBSET Keys]
        /\ UNCHANGED <<status, block_mode, file, disputed>>
    BY CallFacts DEF UpdateMemory
  <1>2. call[c].op \in Operations /\ call[c].list \in InUse
    BY <1>1 DEF ArgumentsOK, AgreeInv, Active
  <1>3. /\ \A d \in Calls : Active(d)' => call'[d].list \in InUse'
        /\ InUse' = InUse /\ call'[c] = IdleCall /\ \A d \in Calls \ {c} : call'[d] = call[d]
    BY <1>1, IdleCallOK, CallStaysInUse
  <1>4. ASSUME NEW l \in InUse, NEW k \in Keys PROVE KeyInv(l, k)'
    <2>1. InFile(l, k)' <=> InFile(l, k)
      BY <1>1 DEF InFile, KeysIn, Lines
    <2>2. ~Handles(c, l, k)' /\ (Handles(c, l, k) <=> l = call[c].list /\ k = key)
      BY <1>1, <1>2, <1>3, IdleCallOK DEF Handles, Active, Operations
    <2>3. InMemory(l, k)' <=> k \in memory'[MemoryOf(l)]
      BY DEF InMemory, MemoryOf
    <2>4. MemoryOf(l) \in {"pubkey", "zeroconf"} /\ (m = MemoryOf(l) => call[c].list = l)
      BY <1>2, ListsInUse
    <2>5. memory'[MemoryOf(l)] = IF MemoryOf(l) = m THEN set ELSE memory[MemoryOf(l)]
      <3> HIDE DEF m, set
      <3> QED BY <1>1, <2>4
    <2>6. ~Handles(c, l, k) => (InMemory(l, k)' <=> InMemory(l, k))
      BY <2>2, <2>3, <2>4, <2>5 DEF InMemory
    <2>7. Handles(c, l, k) /\ Promise(c, l, k) => (InMemory(l, k)' <=> InFile(l, k)')
      BY <1>1, <2>1, <2>2, <2>3, <2>5 DEF Promise, Phase
    <2> QED BY <1>1, <1>3, <2>1, <2>2, <2>6, <2>7, KeyStep DEF AgreeInv
  <1> QED BY <1>3, <1>4 DEF AgreeInv

\* A reload reads a list; the file parses.
LEMMA LoadAgrees ==
  ASSUME ListInv, AgreeInv, Undisturbed, NEW c \in Calls, LoadFile(c)
  PROVE  AgreeInv'
  <1> DEFINE ks == KeysIn(file[call[c].list])
             r == [call[c] EXCEPT !.pc = "swap", !.keys = ks]
  <1>1. /\ call[c] \in CallRecord /\ ArgumentsOK(call[c]) /\ call[c].pc = "load"
        /\ UNCHANGED <<status, block_mode, file, memory, disputed>>
    BY CallFacts DEF LoadFile
  <1>2. call' = [call EXCEPT ![c] = r]
    <2>1. Parses(file[call[c].list])
      BY <1>1 DEF ArgumentsOK, ListInv, FileInv
    <2> QED BY <2>1 DEF LoadFile
  <1>3. /\ r.pc = "swap" /\ r.op = call[c].op /\ r.list = call[c].list
        /\ r.line = call[c].line /\ r.keys = ks
    BY <1>1 DEF CallRecord
  <1> HIDE DEF r
  <1>4. /\ \A d \in Calls : Active(d)' => call'[d].list \in InUse'
        /\ InUse' = InUse /\ call'[c] = r /\ \A d \in Calls \ {c} : call'[d] = call[d]
    BY <1>1, <1>2, <1>3, CallStaysInUse DEF AgreeInv, Active
  <1>5. ASSUME NEW l \in InUse, NEW k \in Keys PROVE KeyInv(l, k)'
    <2>1. (InMemory(l, k)' <=> InMemory(l, k)) /\ (InFile(l, k)' <=> InFile(l, k))
      BY <1>1 DEF InMemory, InFile, KeysIn, Lines
    <2>2. Handles(c, l, k)' <=> Handles(c, l, k)
      BY <1>1, <1>3, <1>4 DEF Handles, Active
    <2>3. Promise(c, l, k)'
      <3>1. l = call[c].list => (k \in r.keys <=> InFile(l, k)')
        BY <1>3, <2>1 DEF InFile
      <3> QED BY <1>3, <1>4, <3>1 DEF Promise, Phase
    <2> QED BY <1>1, <1>4, <2>1, <2>2, <2>3, KeyStep DEF AgreeInv
  <1> QED BY <1>4, <1>5 DEF AgreeInv

\* The set in memory becomes what was read.
LEMMA SwapAgrees ==
  ASSUME ListInv, AgreeInv, NEW c \in Calls, SwapList(c)
  PROVE  AgreeInv'
  <1> DEFINE m == MemoryOf(call[c].list)
             q == [call[c] EXCEPT !.pc = "load", !.list = "zeroconf", !.keys = {}]
  <1>1. /\ call[c] \in CallRecord /\ call[c].pc = "swap" /\ call[c].op = "reload"
        /\ memory' = [memory EXCEPT ![m] = call[c].keys]
        /\ memory \in [{"pubkey", "zeroconf"} -> SUBSET Keys]
        /\ UNCHANGED <<status, block_mode, file, disputed>>
    BY CallFacts DEF SwapList, ArgumentsOK
  <1>2. call[c].list \in InUse /\ "zeroconf" \in InUse
    BY <1>1 DEF AgreeInv, Active, InUse
  <1>3. PICK r : /\ call' = [call EXCEPT ![c] = r]
                 /\ \/ call[c].list = "zeroconf" /\ r.pc = "idle"
                    \/ /\ call[c].list # "zeroconf" /\ r.pc = "load" /\ r.op = "reload"
                       /\ r.list = "zeroconf"
    <2>1. q.pc = "load" /\ q.op = "reload" /\ q.list = "zeroconf"
      BY <1>1 DEF CallRecord
    <2>2. call' = IF call[c].list = "zeroconf" THEN [call EXCEPT ![c] = IdleCall]
                  ELSE [call EXCEPT ![c] = q]
      BY DEF SwapList
    <2> HIDE DEF q
    <2> QED BY <2>1, <2>2, IdleCallOK
  <1>4. /\ \A d \in Calls : Active(d)' => call'[d].list \in InUse'
        /\ InUse' = InUse /\ call'[c] = r /\ \A d \in Calls \ {c} : call'[d] = call[d]
    BY <1>1, <1>2, <1>3, CallStaysInUse
  <1>5. ASSUME NEW l \in InUse, NEW k \in Keys PROVE KeyInv(l, k)'
    <2>1. InFile(l, k)' <=> InFile(l, k)
      BY <1>1 DEF InFile, KeysIn, Lines
    <2>2. Handles(c, l, k) <=> l \in {call[c].list, "zeroconf"}
      BY <1>1 DEF Handles, Active, Operations
    <2>3. Handles(c, l, k)' <=> l = "zeroconf" /\ call[c].list # "zeroconf"
      BY <1>3, <1>4 DEF Handles, Active, Operations
    <2>4. InMemory(l, k)' <=> k \in memory'[MemoryOf(l)]
      BY DEF InMemory, MemoryOf
    <2>5. MemoryOf(l) \in {"pubkey", "zeroconf"} /\ (m = MemoryOf(l) => call[c].list = l)
      BY <1>2, ListsInUse
    <2>6. memory'[MemoryOf(l)] = IF MemoryOf(l) = m THEN call[c].keys ELSE memory[MemoryOf(l)]
      <3> HIDE DEF m
      <3> QED BY <1>1, <2>5
    <2>7. ~Handles(c, l, k) => (InMemory(l, k)' <=> InMemory(l, k))
      BY <2>2, <2>4, <2>5, <2>6 DEF InMemory
    <2>8. Handles(c, l, k)' => Promise(c, l, k)'
      BY <1>3, <1>4, <2>3 DEF Promise, Phase
    <2>9. ASSUME Handles(c, l, k), ~Handles(c, l, k)', Promise(c, l, k)
          PROVE  InMemory(l, k)' <=> InFile(l, k)'
      <3>1. l = call[c].list
        BY <2>2, <2>3, <2>9
      <3>2. k \in call[c].keys <=> InFile(l, k)
        BY <1>1, <2>9, <3>1 DEF Promise
      <3> QED BY <2>1, <2>4, <2>6, <3>1, <3>2
    <2> QED BY <1>1, <1>4, <2>1, <2>2, <2>3, <2>7, <2>8, <2>9, KeyStep DEF AgreeInv
  <1> QED BY <1>4, <1>5 DEF AgreeInv

LEMMA ManageListsAgrees ==
  ASSUME ListInv, AgreeInv, NEW c \in Calls, NEW op \in Operations, NEW m \in Lists,
         NEW s \in Spellings, ManageLists(c, op, m, s)
  PROVE  AgreeInv'
  <1> DEFINE r == [IdleCall EXCEPT !.pc = "check", !.op = op, !.list = m, !.line = s]
  <1>1. /\ call' = [call EXCEPT ![c] = r] /\ ~Active(c) /\ m \in InUse
        /\ disputed' = disputed \cup HandledAlready({m}, {KeyOf[s]})
        /\ UNCHANGED <<status, block_mode, file, memory>>
    BY DEF ManageLists, InUse
  <1>2. r.pc = "check" /\ r.op = op /\ r.list = m /\ r.line = s
    BY DEF IdleCall
  <1> HIDE DEF r
  <1>3. /\ \A d \in Calls : Active(d)' => call'[d].list \in InUse'
        /\ InUse' = InUse /\ call'[c] = r /\ \A d \in Calls \ {c} : call'[d] = call[d]
    BY <1>1, <1>2, CallStaysInUse
  <1>4. ASSUME NEW l \in InUse, NEW k \in Keys PROVE KeyInv(l, k)'
    <2>1. Handles(c, l, k)' <=> l = m /\ k = KeyOf[s]
      BY <1>2, <1>3 DEF Handles, Active, Operations
    <2>2. ASSUME NEW d \in Calls, Handles(d, m, KeyOf[s]) PROVE <<m, KeyOf[s]>> \in disputed'
      BY <1>1, <2>2 DEF HandledAlready
    <2>3. (InMemory(l, k)' <=> InMemory(l, k)) /\ (InFile(l, k)' <=> InFile(l, k))
      BY <1>1 DEF InMemory, InFile, KeysIn, Lines
    <2>4. (InMemory(l, k) <=> InFile(l, k)) => Promise(c, l, k)'
      BY <1>2, <1>3, <2>3 DEF Promise, Phase
    <2> QED BY <1>1, <1>3, <2>1, <2>2, <2>4, KeyBegins DEF AgreeInv
  <1> QED BY <1>3, <1>4 DEF AgreeInv

LEMMA ReloadAgrees ==
  ASSUME ListInv, AgreeInv, NEW c \in Calls, Reload(c)
  PROVE  AgreeInv'
  <1> DEFINE r == [IdleCall EXCEPT !.pc = "load", !.op = "reload", !.list = block_mode]
  <1>1. /\ call' = [call EXCEPT ![c] = r] /\ ~Active(c)
        /\ disputed' = disputed \cup HandledAlready(InUse, Keys)
        /\ UNCHANGED <<status, block_mode, file, memory>>
    BY DEF Reload, InUse
  <1>2. r.pc = "load" /\ r.op = "reload" /\ r.list = block_mode /\ block_mode \in InUse
    BY DEF IdleCall, InUse
  <1> HIDE DEF r
  <1>3. /\ \A d \in Calls : Active(d)' => call'[d].list \in InUse'
        /\ InUse' = InUse /\ call'[c] = r /\ \A d \in Calls \ {c} : call'[d] = call[d]
    BY <1>1, <1>2, CallStaysInUse
  <1>4. ASSUME NEW l \in InUse, NEW k \in Keys PROVE KeyInv(l, k)'
    <2>1. ASSUME NEW d \in Calls, Handles(d, l, k) PROVE <<l, k>> \in disputed'
      BY <1>1, <2>1 DEF HandledAlready
    <2>2. Promise(c, l, k)'
      BY <1>2, <1>3 DEF Promise, Phase
    <2> QED BY <1>1, <1>3, <2>1, <2>2, KeyBegins DEF AgreeInv
  <1> QED BY <1>3, <1>4 DEF AgreeInv

\* A crash ends every call, and memory with them ...
LEMMA CrashAgrees == ASSUME AgreeInv, Crash PROVE AgreeInv'
  <1>1. /\ call' = [c \in Calls |-> IdleCall] /\ status' = "down"
    BY DEF Crash
  <1>2. \A c \in Calls : call'[c].pc = "idle"
    BY <1>1, IdleCallOK
  <1> QED BY <1>1, <1>2 DEF AgreeInv, KeyInv, HandledAlone, Handles, Active

\* ... and a start fills memory from the files.
LEMMA RestartAgrees ==
  ASSUME ListInv, AgreeInv, Restart
  PROVE  AgreeInv'
  <1>1. /\ file' = Touched /\ status = "down" /\ UNCHANGED <<block_mode, call, disputed>>
        /\ status' = "up" => memory' = Loaded
    BY DEF Restart
  <1>2. \A c \in Calls : call'[c].pc = "idle"
    BY <1>1 DEF ListInv, CallInv, FindsFile
  <1>3. InUse' = InUse
    BY <1>1 DEF InUse
  <1>4. ASSUME NEW l \in InUse, NEW k \in Keys, status' = "up"
        PROVE  InMemory(l, k)' <=> InFile(l, k)'
    <2>1. Lines(file'[l]) = Lines(file[l])
      BY <1>1, ListsInUse, EmptyFileOK DEF Touched, Lines
    <2>2. InFile(l, k)' <=> k \in KeysIn(file[l])
      BY <2>1 DEF InFile, KeysIn, Lines
    <2>3. InMemory(l, k)' <=> k \in memory'[MemoryOf(l)]
      BY DEF InMemory, MemoryOf
    <2>4. memory'[MemoryOf(l)] = KeysIn(file[l])
      BY <1>1, <1>4, ListsInUse DEF Loaded, MemoryOf, InUse
    <2> QED BY <2>2, <2>3, <2>4
  <1> QED BY <1>2, <1>3, <1>4 DEF AgreeInv, KeyInv, HandledAlone, Handles, Active

LEMMA CallStepAgrees ==
  ASSUME ListInv, AgreeInv, OperationFits, Undisturbed, NEW c \in Calls, CallStep(c)
  PROVE  AgreeInv'
  <1>1. ~AcquireFails(c) /\ ~FileError(c)
    BY DEF AcquireFails, FileError, Undisturbed
  <1>2. ~ReadFails(c) /\ ~CreateFile(c) /\ ~FileMissing(c)
    BY DEF ReadFails, CreateFile, FileMissing, ListInv, CallInv, FindsFile
  <1> QED BY <1>1, <1>2, RequestAgrees, CommitAgrees, NewlineAgrees, MemoryAgrees, LoadAgrees,
             SwapAgrees DEF CallStep, Critical

LEMMA AgreeInit ==
  ASSUME Init
  PROVE  AgreeInv
  <1>1. ListInv /\ \A c \in Calls : call[c].pc = "idle"
    BY ListInitInv, IdleCallOK DEF Init
  <1>2. ASSUME NEW l \in InUse, NEW k \in Keys PROVE InMemory(l, k) <=> InFile(l, k)
    <2>1. MemoryOf(l) \in {"pubkey", "zeroconf"} /\ l \in Lists
      BY <1>1, ListsInUse
    <2>2. ~InMemory(l, k)
      BY <2>1 DEF Init, InMemory
    <2>3. Lines(file[l]) = {}
      BY <2>1, EmptyFileOK DEF Init, Lines
    <2> QED BY <2>2, <2>3 DEF InFile, KeysIn
  <1> QED BY <1>1, <1>2 DEF AgreeInv, KeyInv, HandledAlone, Handles, Active

LEMMA AgreeNext ==
  ASSUME Undisturbed, ListInv, AgreeInv, OperationFits, [Next]_vars
  PROVE  AgreeInv'
  <1>1. ASSUME NEW m \in Modes, SetBlockMode(m) PROVE FALSE
    BY <1>1 DEF SetBlockMode, ListInv, TypeOK, Undisturbed
  <1>2. CASE UNCHANGED vars
    BY <1>2 DEF vars, AgreeInv, InUse, KeyInv, HandledAlone, Handles, Active, Promise, Phase,
                InMemory, InFile, KeysIn, Lines
  <1> QED BY <1>1, <1>2, ModesAssumption, ManageListsAgrees, ReloadAgrees, CallStepAgrees,
             CrashAgrees, RestartAgrees DEF Next

\* As long as the block mode stays and no write fails, a key of a list that no
\* two calls handled at a time, and no removal left in the file in another
\* spelling, is in memory just if it is in the file, whenever no call is
\* handling it: whatever other keys are handled meanwhile, by any number of
\* calls, and after any crash.
THEOREM MemoryAgreesWithFiles ==
  ASSUME Undisturbed
  PROVE  Spec => []Agreement
  <1>1. Init => AgreeInv /\ OperationFits
    BY AgreeInit, StoreInit
  <1>2. ListInv /\ (AgreeInv /\ OperationFits) /\ [Next]_vars => (AgreeInv /\ OperationFits)'
    BY AgreeNext, StoreNext
  <1>3. ListInv /\ AgreeInv => Agreement
    BY DEF AgreeInv, KeyInv, InUse, InMemory, InFile, Agreement
  <1> QED BY <1>1, <1>2, <1>3, ListInvariant, PTL DEF Spec

=============================================================================

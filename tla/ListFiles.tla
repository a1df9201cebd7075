----------------------------- MODULE ListFiles -----------------------------
(***************************************************************************)
(* The list files allowlist.txt, denylist.txt and zeroconflist.txt, the    *)
(* lock files beside them, and the two sets of public keys clnrod keeps in *)
(* memory for the hooks: clnrod-managelists and clnrod-reload              *)
(* (src/rpc.rs), the reading of the files (src/config.rs), the             *)
(* change of the block mode, crashes and restarts.                         *)
(*                                                                         *)
(* A line is a spelling of a public key, since files are compared by text  *)
(* and memory by key; Garbage is a line that is no key.  The order and the *)
(* repetition of lines do not matter: every reader collects keys into a    *)
(* set, and a removal drops every equal line.                              *)
(***************************************************************************)
EXTENDS FiniteSets

CONSTANTS
  Calls,      \* slots for concurrent RPC calls
  Keys,       \* public keys
  Spellings,  \* the texts a key is written as in files and arguments
  KeyOf,      \* KeyOf[s]: the key that s parses to
  Garbage,    \* a line that does not parse
  Managed,    \* the lists clnrod-managelists is called for
  Modes,      \* the block modes in use, of {"allow", "deny"}
  Crashes,    \* TRUE: the process may die at any moment
  WriteErrors, \* TRUE: the file system may refuse an operation
  None,
  Stale       \* holder of a lock file that outlived its process

Lists == {"allow", "deny", "zeroconf"}
Line == Spellings \cup {Garbage}
FileContent == [lines : SUBSET Line, tail : Line \cup {None}]
Operations == {"add", "remove"}

ASSUME SpellingAssumption ==
  /\ KeyOf \in [Spellings -> Keys]
  /\ Garbage \notin Spellings
  /\ None \notin Line
  /\ None \notin FileContent
ASSUME HolderAssumption == None \notin Calls /\ Stale \notin Calls /\ None # Stale
ASSUME ModesAssumption ==
  /\ Modes \subseteq {"allow", "deny"}
  /\ Managed \subseteq Lists
  /\ Crashes \in BOOLEAN
  /\ WriteErrors \in BOOLEAN

VARIABLES
  status,      \* "up", "down" after a crash, "disabled" by a failed start
  block_mode,  \* the configured mode, kept by lightningd across restarts
  file,        \* per list its lines, or None if the file does not exist;
               \* tail: the last line if its newline is missing
  lockfile,    \* per list the call that created the .lock file, Stale or None
  memory,      \* "pubkey" and "zeroconf": pubkey_list and zero_conf_list
  call,        \* per slot the local state of a handler
  disputed     \* history: <<list, key>> that two calls handled at a time, or
               \* that a removal left in the file in another spelling
vars == <<status, block_mode, file, lockfile, memory, call, disputed>>

EmptyFile == [lines |-> {}, tail |-> None]
MemoryOf(l) == IF l = "zeroconf" THEN "zeroconf" ELSE "pubkey"
Lines(f) == IF f = None THEN {} ELSE f.lines
Parses(f) == Garbage \notin Lines(f)
KeysIn(f) == {KeyOf[s] : s \in Lines(f) \cap Spellings}

IdleCall == [pc |-> "idle", op |-> None, list |-> None, line |-> None,
             filtered |-> {}, keys |-> {}]
Active(c) == call[c].pc # "idle"

\* A start reads the list of the block mode and the zeroconf list, creating
\* what is missing.
Touched == [l \in Lists |-> IF file[l] = None /\ l \in {block_mode, "zeroconf"}
                            THEN EmptyFile ELSE file[l]]
\* Mutant: at a start both sets are filled from the list of the block mode.
LoadedFromOneFile == [m \in {"pubkey", "zeroconf"} |-> KeysIn(file[block_mode])]
Loaded == [m \in {"pubkey", "zeroconf"} |->
             KeysIn(file[IF m = "zeroconf" THEN "zeroconf" ELSE block_mode])]

Init ==
  /\ status = "up"
  /\ block_mode \in Modes
  /\ file = [l \in Lists |-> IF l \in {block_mode, "zeroconf"} THEN EmptyFile ELSE None]
  /\ lockfile = [l \in Lists |-> None]
  /\ memory = [m \in {"pubkey", "zeroconf"} |-> {}]
  /\ call = [c \in Calls |-> IdleCall]
  /\ disputed = {}

\* Call d is going to change what memory or file l says of key k.
Handles(d, l, k) ==
  /\ Active(d)
  /\ \/ call[d].op \in Operations /\ call[d].list = l /\ KeyOf[call[d].line] = k
     \/ call[d].op = "reload" /\ l \in {call[d].list, "zeroconf"}

\* The keys of ks that some call handles, in the lists ls.
HandledAlready(ls, ks) ==
  {x \in ls \X ks : \E d \in Calls : Handles(d, x[1], x[2])}

(***************************************************************************)
(* clnrod-managelists.                                                     *)
(***************************************************************************)

\* The call is refused unless the list is the one of the block mode or the
\* zeroconf list.
ManageLists(c, op, l, s) ==
  /\ status = "up" /\ ~Active(c)
  /\ l \in {block_mode, "zeroconf"}
  /\ call' = [call EXCEPT ![c] =
       [IdleCall EXCEPT !.pc = "check", !.op = op, !.list = l, !.line = s]]
  /\ disputed' = disputed \cup HandledAlready({l}, {KeyOf[s]})
  /\ UNCHANGED <<status, block_mode, file, lockfile, memory>>

\* Under the list's mutex: an add of a key that is there and a removal of one
\* that is not end with an error.
CheckMembership(c) ==
  /\ call[c].pc = "check"
  /\ LET isIn == KeyOf[call[c].line] \in memory[MemoryOf(call[c].list)] IN
       call' = IF (call[c].op = "add") = isIn THEN [call EXCEPT ![c] = IdleCall]
               ELSE [call EXCEPT ![c].pc = "acquire"]
  /\ UNCHANGED <<status, block_mode, file, lockfile, memory, disputed>>

\* Mutant: the lock file is opened with create instead of create_new.
AcquireAnyway(c) ==
  /\ call[c].pc = "acquire"
  /\ lockfile' = [lockfile EXCEPT ![call[c].list] = c]
  /\ call' = [call EXCEPT ![c].pc = IF call[c].op = "add" THEN "append" ELSE "read"]
  /\ UNCHANGED <<status, block_mode, file, memory, disputed>>

\* create_new of the lock file; while it exists the call polls.
Acquire(c) ==
  /\ call[c].pc = "acquire"
  /\ lockfile[call[c].list] = None
  /\ lockfile' = [lockfile EXCEPT ![call[c].list] = c]
  /\ call' = [call EXCEPT ![c].pc = IF call[c].op = "add" THEN "append" ELSE "read"]
  /\ UNCHANGED <<status, block_mode, file, memory, disputed>>

\* Any other error than that the lock file exists ends the call.
AcquireFails(c) ==
  /\ WriteErrors
  /\ call[c].pc = "acquire"
  /\ call' = [call EXCEPT ![c] = IdleCall]
  /\ UNCHANGED <<status, block_mode, file, lockfile, memory, disputed>>

Release(l) == lockfile' = [lockfile EXCEPT ![l] = None]

\* Mutant: the lock covers the first write only.
AppendLineUnlocking(c) ==
  /\ call[c].pc = "append"
  /\ LET l == call[c].list
         f == IF file[l] = None THEN EmptyFile ELSE file[l]
         new == IF f.tail = None THEN call[c].line ELSE Garbage
     IN  file' = [file EXCEPT ![l] = [lines |-> (f.lines \ {f.tail}) \cup {new}, tail |-> new]]
  /\ Release(call[c].list)
  /\ call' = [call EXCEPT ![c].pc = "newline"]
  /\ UNCHANGED <<status, block_mode, memory, disputed>>

\* add_line: the first write appends the text, right behind a last line that
\* has no newline.
AppendLine(c) ==
  /\ call[c].pc = "append"
  /\ LET l == call[c].list
         f == IF file[l] = None THEN EmptyFile ELSE file[l]
         new == IF f.tail = None THEN call[c].line ELSE Garbage
     IN  file' = [file EXCEPT ![l] = [lines |-> (f.lines \ {f.tail}) \cup {new}, tail |-> new]]
  /\ call' = [call EXCEPT ![c].pc = "newline"]
  /\ UNCHANGED <<status, block_mode, lockfile, memory, disputed>>

\* The second write ends the line, or makes an empty one if the file was
\* truncated in between; the lock is dropped on return.
AppendNewline(c) ==
  /\ call[c].pc = "newline"
  /\ LET f == file[call[c].list] IN
       file' = [file EXCEPT ![call[c].list] =
         [lines |-> IF f.tail = None THEN f.lines \cup {Garbage} ELSE f.lines, tail |-> None]]
  /\ Release(call[c].list)
  /\ call' = [call EXCEPT ![c].pc = "memory"]
  /\ UNCHANGED <<status, block_mode, memory, disputed>>

\* remove_line reads the whole file and keeps the lines with another text.
ReadAndFilter(c) ==
  /\ call[c].pc = "read"
  /\ file[call[c].list] # None
  /\ call' = [call EXCEPT ![c].pc = "rename",
                          ![c].filtered = Lines(file[call[c].list]) \ {call[c].line}]
  /\ UNCHANGED <<status, block_mode, file, lockfile, memory, disputed>>

\* There is no file to open: the error drops the lock and ends the call.
ReadFails(c) ==
  /\ call[c].pc = "read"
  /\ file[call[c].list] = None
  /\ Release(call[c].list)
  /\ call' = [call EXCEPT ![c] = IdleCall]
  /\ UNCHANGED <<status, block_mode, file, memory, disputed>>

\* Opening, reading, writing or renaming fails: the error drops the lock and
\* ends the call, leaving a line without its newline where it stands.
FileError(c) ==
  /\ WriteErrors
  /\ call[c].pc \in {"append", "newline", "read", "rename"}
  /\ Release(call[c].list)
  /\ call' = [call EXCEPT ![c] = IdleCall]
  /\ UNCHANGED <<status, block_mode, file, memory, disputed>>

\* The removed key, if the filtered lines still have it in another spelling.
Respelled(c) ==
  {x \in {<<call[c].list, KeyOf[call[c].line]>>} :
     \E s \in call[c].filtered \cap Spellings : KeyOf[s] = x[2]}

\* Mutant: the lock is dropped only where lines are appended.
RenameKeepingLock(c) ==
  /\ call[c].pc = "rename"
  /\ file' = [file EXCEPT ![call[c].list] = [lines |-> call[c].filtered, tail |-> None]]
  /\ call' = [call EXCEPT ![c].pc = "memory", ![c].filtered = {}]
  /\ disputed' = disputed \cup Respelled(c)
  /\ UNCHANGED <<status, block_mode, lockfile, memory>>

\* The filtered lines, each with its newline, replace the file at once.
Rename(c) ==
  /\ call[c].pc = "rename"
  /\ file' = [file EXCEPT ![call[c].list] = [lines |-> call[c].filtered, tail |-> None]]
  /\ Release(call[c].list)
  /\ call' = [call EXCEPT ![c].pc = "memory", ![c].filtered = {}]
  /\ disputed' = disputed \cup Respelled(c)
  /\ UNCHANGED <<status, block_mode, memory>>

\* Only now, without the file's lock, does the set in memory follow.
UpdateMemory(c) ==
  /\ call[c].pc = "memory"
  /\ LET m == MemoryOf(call[c].list)
         k == {KeyOf[call[c].line]}
     IN  memory' = [memory EXCEPT ![m] = IF call[c].op = "add" THEN @ \cup k ELSE @ \ k]
  /\ call' = [call EXCEPT ![c] = IdleCall]
  /\ UNCHANGED <<status, block_mode, file, lockfile, disputed>>

(***************************************************************************)
(* clnrod-reload: first the list of the block mode, then the zeroconf list.*)
(***************************************************************************)

Reload(c) ==
  /\ status = "up" /\ ~Active(c)
  /\ call' = [call EXCEPT ![c] =
       [IdleCall EXCEPT !.pc = "load", !.op = "reload", !.list = block_mode]]
  /\ disputed' = disputed \cup HandledAlready({block_mode, "zeroconf"}, Keys)
  /\ UNCHANGED <<status, block_mode, file, lockfile, memory>>

\* Mutant: the file is opened for reading with truncate.
LoadFileTruncating(c) ==
  /\ call[c].pc = "load"
  /\ file[call[c].list] # None
  /\ file' = [file EXCEPT ![call[c].list] = EmptyFile]
  /\ call' = [call EXCEPT ![c].pc = "swap", ![c].keys = {}]
  /\ UNCHANGED <<status, block_mode, lockfile, memory, disputed>>

\* The file exists; it is read without its lock.  A line that does not parse
\* ends the reload with an error and keeps the old list.
LoadFile(c) ==
  /\ call[c].pc = "load"
  /\ LET l == call[c].list IN
       /\ file[l] # None
       /\ call' = IF Parses(file[l])
                  THEN [call EXCEPT ![c].pc = "swap", ![c].keys = KeysIn(file[l])]
                  ELSE [call EXCEPT ![c] = IdleCall]
  /\ UNCHANGED <<status, block_mode, file, lockfile, memory, disputed>>

\* There is no file yet ...
FileMissing(c) ==
  /\ call[c].pc = "load"
  /\ file[call[c].list] = None
  /\ call' = [call EXCEPT ![c].pc = "create"]
  /\ UNCHANGED <<status, block_mode, file, lockfile, memory, disputed>>

\* ... so it is created, by an open that truncates what is there by now.
CreateFile(c) ==
  /\ call[c].pc = "create"
  /\ file' = [file EXCEPT ![call[c].list] = EmptyFile]
  /\ call' = [call EXCEPT ![c].pc = "load"]
  /\ UNCHANGED <<status, block_mode, lockfile, memory, disputed>>

\* Mutant: on its way to the second list the reload loses what it is.
SwapListForgetful(c) ==
  /\ call[c].pc = "swap"
  /\ memory' = [memory EXCEPT ![MemoryOf(call[c].list)] = call[c].keys]
  /\ call' = IF call[c].list = "zeroconf" THEN [call EXCEPT ![c] = IdleCall]
             ELSE [call EXCEPT ![c] = [IdleCall EXCEPT !.pc = "load", !.list = "zeroconf"]]
  /\ UNCHANGED <<status, block_mode, file, lockfile, disputed>>

SwapList(c) ==
  /\ call[c].pc = "swap"
  /\ memory' = [memory EXCEPT ![MemoryOf(call[c].list)] = call[c].keys]
  /\ call' = IF call[c].list = "zeroconf" THEN [call EXCEPT ![c] = IdleCall]
             ELSE [call EXCEPT ![c].pc = "load", ![c].list = "zeroconf", ![c].keys = {}]
  /\ UNCHANGED <<status, block_mode, file, lockfile, disputed>>

(***************************************************************************)
(* The surroundings.                                                       *)
(***************************************************************************)

\* setconfig changes the mode; the list in memory stays what it is.
SetBlockMode(m) ==
  /\ status = "up"
  /\ m # block_mode
  /\ block_mode' = m
  /\ UNCHANGED <<status, file, lockfile, memory, call, disputed>>

\* Files and lock files survive.
Crash ==
  /\ Crashes
  /\ status = "up"
  /\ status' = "down"
  /\ lockfile' = [l \in Lists |-> IF lockfile[l] \in Calls THEN Stale ELSE lockfile[l]]
  /\ call' = [c \in Calls |-> IdleCall]
  /\ memory' = [m \in {"pubkey", "zeroconf"} |-> {}]
  /\ disputed' = {}
  /\ UNCHANGED <<block_mode, file>>

\* read_config; a line that does not parse disables the plugin.
Restart ==
  /\ status = "down"
  /\ file' = Touched
  /\ IF Parses(file[block_mode]) /\ Parses(file["zeroconf"])
     THEN status' = "up" /\ memory' = Loaded
     ELSE status' = "disabled" /\ memory' = memory
  /\ UNCHANGED <<block_mode, lockfile, call, disputed>>

Critical(c) ==
  \/ AppendLine(c) \/ AppendNewline(c) \/ ReadAndFilter(c) \/ ReadFails(c) \/ Rename(c)
  \/ FileError(c)

CallStep(c) ==
  \/ CheckMembership(c) \/ Acquire(c) \/ AcquireFails(c) \/ Critical(c) \/ UpdateMemory(c)
  \/ LoadFile(c) \/ FileMissing(c) \/ CreateFile(c) \/ SwapList(c)

Next ==
  \/ \E c \in Calls :
       \/ \E op \in Operations, l \in Managed, s \in Spellings : ManageLists(c, op, l, s)
       \/ Reload(c)
       \/ CallStep(c)
  \/ \E m \in Modes : SetBlockMode(m)
  \/ Crash \/ Restart

Spec == Init /\ [][Next]_vars
FairSpec == Spec /\ \A c \in Calls : WF_vars(Critical(c))

(***************************************************************************)
(* Properties.                                                             *)
(***************************************************************************)

CriticalPcs == {"append", "newline", "read", "rename"}

CallRecord ==
  [pc : {"idle", "check", "acquire", "memory", "load", "create", "swap"}
         \cup CriticalPcs,
   op : Operations \cup {"reload", None}, list : Lists \cup {None},
   line : Spellings \cup {None}, filtered : SUBSET Line, keys : SUBSET Keys]

\* Every variable stays in its domain, and a handler under way has its
\* arguments.
TypeOK ==
  /\ status \in {"up", "down", "disabled"}
  /\ block_mode \in Modes
  /\ file \in [Lists -> FileContent \cup {None}]
  /\ lockfile \in [Lists -> Calls \cup {None, Stale}]
  /\ memory \in [{"pubkey", "zeroconf"} -> SUBSET Keys]
  /\ disputed \subseteq Lists \X Keys
  /\ call \in [Calls -> CallRecord]
  /\ \A c \in Calls : Active(c) =>
       /\ call[c].list \in Lists
       /\ call[c].pc \in {"load", "create", "swap"} => call[c].op = "reload"
       /\ call[c].pc \notin {"load", "create", "swap"} =>
            call[c].op \in Operations /\ call[c].line \in Spellings

\* Of all calls on one list, at most one is between acquiring the lock file
\* and dropping it: concurrent adds and removals never interleave in a file.
LockIsExclusive ==
  \A c, d \in Calls :
    call[c].pc \in CriticalPcs /\ call[d].pc \in CriticalPcs
      /\ call[c].list = call[d].list => c = d

\* When a removal replaces the file, nothing was added to it or dropped from
\* it since it was read, so no other call's update is lost.  This needs the
\* block mode to stay what it is: see CreateFile.
RemovalLosesNothing ==
  \A c \in Calls : call[c].pc = "rename" =>
    /\ file[call[c].list] # None
    /\ call[c].filtered = Lines(file[call[c].list]) \ {call[c].line}

\* README: the lock files are there "to prevent contention".  However adds,
\* removals and reloads interleave, and wherever a crash cuts an add between
\* its two writes, the files still parse: neither a reload nor a start fails
\* on what managelists wrote.  This, too, needs the block mode to stay.
FilesParse == \A l \in Lists : Parses(file[l])

\* Where no two calls handled a key of a list at a time, and no removal left the
\* key in the file in another spelling, memory and file agree on the key once
\* its call is over, whatever other keys are handled meanwhile and after any
\* crash.
Agreement ==
  status = "up" =>
    \A l \in {block_mode, "zeroconf"}, k \in Keys :
      <<l, k>> \notin disputed /\ (\A c \in Calls : ~Handles(c, l, k)) =>
        (k \in memory[MemoryOf(l)] <=> k \in KeysIn(file[l]))

\* README: the lock files are there "to prevent contention".  When no call is
\* under way, memory and file agree on both lists in use.
QuiescentAgreement ==
  status = "up" /\ (\A c \in Calls : ~Active(c)) =>
    \A l \in {block_mode, "zeroconf"} : memory[MemoryOf(l)] = KeysIn(file[l])

\* The request a call stands for: it is committed when the file says so, and
\* memory follows later.
Phase(pc) ==
  IF pc \in {"check", "acquire", "append", "read", "rename"} THEN "requested"
  ELSE IF pc \in {"newline", "memory"} THEN "committed" ELSE "idle"
RequestOf(c) ==
  LET phase == Phase(call[c].pc)
  IN  IF phase = "idle" THEN [pc |-> "idle", op |-> None, list |-> None, line |-> None]
      ELSE [pc |-> phase, op |-> call[c].op, list |-> call[c].list, line |-> call[c].line]

Store == INSTANCE ListStore WITH
  Texts <- Spellings,
  stored <- [l \in Lists |-> Lines(file[l])],
  request <- [c \in Calls |-> RequestOf(c)]

\* README, clnrod-managelists: add a key to a list file or remove it.  However
\* calls, reloads and crashes interleave, the files are the durable lists of
\* ListStore: each call takes effect at one moment or not at all, no effect is
\* lost or undone, and a call that was refused had none.  This, too, needs the
\* block mode to stay, and writes that succeed.
FilesAreAStore == Store!Spec

\* Without a crash, a list's lock file is always dropped again.
LockIsReleased == \A l \in Lists : lockfile[l] # None ~> lockfile[l] = None
=============================================================================

------------------------------- MODULE Storage -------------------------------
(***************************************************************************)
(* The partitioned feature store as its writers leave it: write_partitioned*)
(* of cfb.storage (src/python/src/cfb/storage.py) and of cfb-storage       *)
(* (src/rust/crates/cfb-storage/src/writer.rs).                            *)
(*                                                                         *)
(* A write has one file for each symbol, date and hour of its rows.  It    *)
(* opens them one by one, which empties what was there, and a file has no  *)
(* footer, and cannot be read, until it is closed.  An error or a crash    *)
(* may come between any two of these steps.  One write runs at a time.     *)
(*                                                                         *)
(* A row is its key, symbol and time; symbols are numbered in the order of *)
(* their names.  A file is known by the write that filled it.              *)
(***************************************************************************)
EXTENDS Integers, Sequences, FiniteSets

CONSTANTS
  NsPerHour, NsPerDay,  \* _NS_PER_HOUR, _NS_PER_DAY
  Calls,                \* write_partitioned as it may be called: the language,
                        \* part_index and the rows
  MaxWrites             \* bound of the model: this many writes

ASSUME StorageAssumption ==
  /\ NsPerHour \in Nat \ {0} /\ NsPerDay \in Nat \ {0}
  /\ \A c \in Calls :
       /\ c.by \in {"python", "rust"}
       /\ c.part \in Nat
       /\ c.keys # {} /\ IsFiniteSet(c.keys)
       /\ \A k \in c.keys : k.symbol \in Nat /\ k.ts \in Nat
  /\ MaxWrites \in Nat

VARIABLES
  disk,   \* for each file the write that last opened it, and if it was closed
  log,    \* the writes: each call and how it ended
  todo,   \* files the running write has yet to open
  open    \* files it has opened and not closed

storageVars == <<disk, log, todo, open>>

Absent == [write |-> 0, closed |-> FALSE]

Writer == Len(log)      \* the latest write
Writing == log # <<>> /\ log[Writer].state = "running"

(* The partition of a row, and the file it goes to.                         *)
FileOf(k, part) ==
  [symbol |-> k.symbol,
   date   |-> k.ts \div NsPerDay,
   hour   |-> (k.ts % NsPerDay) \div NsPerHour,
   part   |-> part]

Targets(c) == {FileOf(k, c.part) : k \in c.keys}

Files == UNION {Targets(c) : c \in Calls}

FilesOf(w) == Targets(log[w].call)

Present == {f \in Files : disk[f].write # 0}
Torn(f) == disk[f].write # 0 /\ ~disk[f].closed

(* The rows a write puts in a file, each with that write; and those of a    *)
(* file, if it can be read.                                                 *)
Version(f, w) ==
  {[key |-> k, write |-> w] :
     k \in {j \in log[w].call.keys : FileOf(j, log[w].call.part) = f}}
Rows(f) == IF disk[f].closed THEN Version(f, disk[f].write) ELSE {}

(* The file a row was read from.                                            *)
RowFile(r) == FileOf(r.key, log[r.write].call.part)

AllRows(fs) == UNION {Rows(f) : f \in fs}

(* The version of each file that can be read, if any.                       *)
Held == [f \in Files |-> IF Torn(f) THEN {} ELSE {Rows(f)}]

(* Paths in the order of their names.                                       *)
Before(f, g) ==
  \/ f.symbol < g.symbol
  \/ f.symbol = g.symbol /\ f.date < g.date
  \/ f.symbol = g.symbol /\ f.date = g.date /\ f.hour < g.hour
  \/ f.symbol = g.symbol /\ f.date = g.date /\ f.hour = g.hour /\ f.part < g.part

First(f) == \A g \in Present \ {f} : Before(f, g)

StorageInit ==
  /\ disk = [f \in Files |-> Absent]
  /\ log = <<>>
  /\ todo = {}
  /\ open = {}

BeginWrite ==
  /\ ~Writing
  /\ Writer < MaxWrites
  /\ \E c \in Calls : log' = Append(log, [call |-> c, state |-> "running"])
                      /\ todo' = Targets(c)
  /\ open' = {}
  /\ UNCHANGED disk

(* Fault: the Rust writer creates all files before it writes the first.     *)
OpenAllFirst(f) ==
  /\ f \in todo
  /\ disk' = [disk EXCEPT ![f] = [write |-> Writer, closed |-> FALSE]]
  /\ todo' = todo \ {f}
  /\ open' = open \cup {f}
  /\ UNCHANGED log

(* Rust finishes a file before it creates the next, in the order of a hash  *)
(* map; pyarrow may have several open.                                      *)
OpenFile(f) ==
  /\ f \in todo
  /\ log[Writer].call.by = "rust" => open = {}
  /\ disk' = [disk EXCEPT ![f] = [write |-> Writer, closed |-> FALSE]]
  /\ todo' = todo \ {f}
  /\ open' = open \cup {f}
  /\ UNCHANGED log

CloseFile(f) ==
  /\ f \in open
  /\ disk' = [disk EXCEPT ![f].closed = TRUE]
  /\ open' = open \ {f}
  /\ UNCHANGED <<log, todo>>

(* Fault: the call returns when the last file was opened.                   *)
ReturnOnceOpened ==
  /\ Writing
  /\ todo = {}
  /\ log' = [log EXCEPT ![Writer].state = "returned"]
  /\ UNCHANGED <<disk, todo, open>>

Return ==
  /\ Writing
  /\ todo = {} /\ open = {}
  /\ log' = [log EXCEPT ![Writer].state = "returned"]
  /\ UNCHANGED <<disk, todo, open>>

(* The write fails or its process dies: nothing is undone.                  *)
Fail ==
  /\ Writing
  /\ log' = [log EXCEPT ![Writer].state = "failed"]
  /\ todo' = {}
  /\ open' = {}
  /\ UNCHANGED disk

WriterStep ==
  \/ BeginWrite
  \/ \E f \in todo : OpenFile(f)
  \/ \E f \in open : CloseFile(f)
  \/ Return
  \/ Fail

(* The last write has ended, and every file can be read.                   *)
Quiet ==
  /\ ~Writing /\ Writer = MaxWrites
  /\ Present # {} /\ ~\E f \in Files : Torn(f)

------------------------------------------------------------------------------
ReadRows == [key : UNION {c.keys : c \in Calls}, write : Nat]

StorageTypeOK ==
  /\ log \in Seq([call : Calls, state : {"running", "returned", "failed"}])
  /\ disk \in [Files -> [write : 0 .. Writer, closed : BOOLEAN]]
  /\ todo \subseteq Files
  /\ open \subseteq Files

(* Only the latest write runs; a file is of a write it belongs to.          *)
DiskOfLog ==
  /\ \A w \in DOMAIN log : log[w].state = "running" => w = Writer
  /\ \A f \in Present : f \in FilesOf(disk[f].write)
  /\ \A f \in Files \ Present : ~disk[f].closed

(* Of its files the running write has some to open, some open, and has      *)
(* closed the others.                                                       *)
Progress ==
  /\ ~Writing => todo = {} /\ open = {}
  /\ Writing =>
       /\ todo \cup open \subseteq FilesOf(Writer) /\ todo \cap open = {}
       /\ \A f \in todo : disk[f].write < Writer
       /\ \A f \in FilesOf(Writer) \ todo :
            disk[f] = [write |-> Writer, closed |-> f \notin open]
       /\ log[Writer].call.by = "rust" => \A f, g \in open : f = g

(* What a write that returned has written is on disk, readable, until a     *)
(* later write of the same part index opens the file: nothing else takes a  *)
(* row away, and a write repeated after a failure repairs what that one     *)
(* tore (storage.py:90-102, writer.rs:50-67).                               *)
ReturnedIsReadable ==
  \A w \in DOMAIN log : log[w].state = "returned" =>
    \A f \in FilesOf(w) :
      \/ disk[f] = [write |-> w, closed |-> TRUE]
      \/ /\ disk[f].write > w
         /\ f \in FilesOf(disk[f].write)

(* A Rust write that fails leaves at most one file torn, whatever it was    *)
(* about to write (writer.rs:50-67).                                        *)
RustTearsOne ==
  \A f, g \in Files :
    Torn(f) /\ Torn(g) /\ disk[f].write = disk[g].write
      /\ log[disk[f].write].call.by = "rust" => f = g

StorageInv ==
  /\ StorageTypeOK
  /\ DiskOfLog
  /\ Progress
  /\ ReturnedIsReadable
  /\ RustTearsOne
==============================================================================

------------------------------- MODULE Readers -------------------------------
(***************************************************************************)
(* A program that reads the store over and over while it is being written: *)
(*   pyarrow  read_partitioned of cfb.storage (storage.py:105-134)         *)
(*   polars   scan_partitioned (storage.py:137-147) and PolarsEngine       *)
(*   duckdb   DuckDBEngine (src/python/src/cfb/query.py)                   *)
(*   rust     read_partitioned of cfb-storage (reader.rs)                  *)
(*                                                                         *)
(* All but Rust list the files and then take the schema from the first of  *)
(* them, in the filter or not.  Rust reads what its walk of the directories*)
(* comes to, one file after the other, and passes over what the walk fails *)
(* on.                                                                     *)
(***************************************************************************)
EXTENDS FileReads

CONSTANT Reads  \* the calls: who reads, the symbol and the first and last date

NoFilter == -1  \* a parameter that is None

ASSUME ReadersAssumption ==
  \A c \in Reads :
    /\ c.by \in {"pyarrow", "polars", "duckdb", "rust"}
    /\ c.symbol \in Nat \cup {NoFilter}
    /\ c.from \in Nat \cup {NoFilter} /\ c.to \in Nat \cup {NoFilter}
    /\ c.by # "pyarrow" => c.from = NoFilter /\ c.to = NoFilter

VARIABLE reader  \* what it calls, where it is, the columns of DuckDB's view

readersVars == <<disk, log, todo, open, job, since, reader>>

ReadersInit ==
  /\ ReadsInit
  /\ reader \in [call : Reads, pc : {"idle"}, view : {"none"}]

(* Fault: the last date is not read.                                        *)
MatchesBefore(c, f) ==
  /\ c.symbol # NoFilter => f.symbol = c.symbol
  /\ c.from # NoFilter => f.date >= c.from
  /\ c.to # NoFilter => f.date < c.to

(* Partitions that the filter of a call rules out are not read.             *)
Matches(c, f) ==
  /\ c.symbol # NoFilter => f.symbol = c.symbol
  /\ c.from # NoFilter => f.date >= c.from
  /\ c.to # NoFilter => f.date <= c.to

AskedFiles == {f \in Files : Matches(reader.call, f)}

Rust == reader.call.by = "rust"
DuckDB == reader.call.by = "duckdb"

Layout(f) == log[disk[f].write].call.by

(* Of files of both layouts Polars may not make one table.                  *)
Misfit ==
  /\ reader.call.by = "polars"
  /\ \E f, g \in Present : Layout(f) # Layout(g)

Stop ==
  /\ reader' = [reader EXCEPT !.pc = "idle"]
  /\ job' = NoJob

(* A call, or the constructor of DuckDBEngine, lists the files.             *)
Begin ==
  /\ reader.pc \in {"idle", "done"}
  /\ List(AskedFiles)
  /\ since' = Held
  /\ reader' = [reader EXCEPT !.pc = IF Rust THEN "reading" ELSE "listed"]
  /\ UNCHANGED storageVars

(* The first file of the listing, torn or not; without one pyarrow goes on  *)
(* with an empty table, if it has no filter and the directory is there.     *)
NoSchema ==
  /\ reader.pc = "listed"
  /\ job.first = {} \/ \E f \in job.first : Torn(f)
  /\ Stop
  /\ UNCHANGED <<disk, log, todo, open, since>>

EmptyTable ==
  /\ reader.pc = "listed"
  /\ reader.call.by = "pyarrow" /\ job.files = {}
  /\ reader.call.symbol = NoFilter /\ reader.call.from = NoFilter /\ reader.call.to = NoFilter
  /\ reader' = [reader EXCEPT !.pc = "reading"]
  /\ UNCHANGED <<job, disk, log, todo, open, since>>

(* The constructor makes the view, of the columns of the first file.        *)
CreateView ==
  /\ reader.pc = "listed" /\ DuckDB /\ reader.view = "none"
  /\ \E f \in job.first :
       /\ ~Torn(f)
       /\ reader' = [reader EXCEPT !.pc = "idle", !.view = Layout(f)]
  /\ job' = NoJob
  /\ UNCHANGED <<disk, log, todo, open, since>>

(* Later DuckDB raises when they are other columns than those of the view.  *)
OtherColumns ==
  /\ reader.pc = "listed" /\ DuckDB /\ reader.view # "none"
  /\ \E f \in job.first : ~Torn(f) /\ Layout(f) # reader.view
  /\ Stop
  /\ UNCHANGED <<disk, log, todo, open, since>>

TakeSchema ==
  /\ reader.pc = "listed"
  /\ \E f \in job.first : ~Torn(f) /\ (DuckDB => Layout(f) = reader.view)
  /\ Schema
  /\ reader' = [reader EXCEPT !.pc = "reading"]
  /\ UNCHANGED <<disk, log, todo, open, since>>

(* Fault: the walk may come to a file again that was written meanwhile.     *)
WalkedAnew(f) == Rust /\ f \in Present \cap AskedFiles /\ Through(f)

(* The walk of Rust may come to a file that was created after it began.     *)
Walked(f) ==
  /\ Rust /\ f \in Present \cap AskedFiles
  /\ Through(f) /\ OfFile(job.rows, f) = {}

OpenNext(f) ==
  /\ reader.pc = "reading"
  /\ f \in job.files \/ Walked(f)
  /\ Rust => job.footers = {}
  /\ ReadFooter(f)
  /\ UNCHANGED <<reader, disk, log, todo, open, since>>

ReadNext(ft) ==
  /\ reader.pc = "reading"
  /\ ReadPages(ft)
  /\ UNCHANGED <<reader, disk, log, todo, open, since>>

(* An entry that the walk of Rust cannot list is dropped: .ok(), reader.rs:22. *)
Skip(f) ==
  /\ reader.pc = "reading"
  /\ Rust /\ job.footers = {}
  /\ job' = [job EXCEPT !.files = @ \ {f}, !.missed = @ \cup {f}]
  /\ UNCHANGED <<reader, disk, log, todo, open, since>>

(* Rust may also come to a file that was created, and torn, since it began. *)
Raise ==
  /\ reader.pc = "reading"
  /\ MayRaise \/ Misfit \/ \E f \in Files : Walked(f) /\ Torn(f)
  /\ Stop
  /\ UNCHANGED <<disk, log, todo, open, since>>

Finish ==
  /\ reader.pc = "reading"
  /\ AllRead
  /\ reader' = [reader EXCEPT !.pc = "done"]
  /\ UNCHANGED <<job, disk, log, todo, open, since>>

ReaderStep ==
  \/ Begin \/ NoSchema \/ EmptyTable \/ CreateView \/ OtherColumns \/ TakeSchema
  \/ \E f \in Files : OpenNext(f)
  \/ \E ft \in job.footers : ReadNext(ft)
  \/ \E f \in job.files : Skip(f)
  \/ Raise \/ Finish

WriteMeanwhile == Write /\ UNCHANGED <<reader, job>>

ReadersNext == WriteMeanwhile \/ ReaderStep

(* The program goes on reading.  Nothing is assumed of the writers.         *)
ReadersSpec == ReadersInit /\ [][ReadersNext]_readersVars /\ WF_readersVars(ReaderStep)

------------------------------------------------------------------------------
(* The rows that a call asks for, by their own symbol and time.             *)
Wanted(c, r) ==
  /\ c.symbol # NoFilter => r.key.symbol = c.symbol
  /\ c.from # NoFilter => r.key.ts >= c.from * NsPerDay
  /\ c.to # NoFilter => r.key.ts < (c.to + 1) * NsPerDay

Readers ==
  [call : Reads, pc : {"idle", "listed", "reading", "done"},
   view : {"none", "python", "rust"}]

(* A call that succeeds returns every row it asks for that could be read    *)
(* when it began and whose file no write has touched since, but, in Rust,   *)
(* those of a file its walk failed on; and no row it does not ask for       *)
(* (storage.py:113-134, reader.rs:17-43).                                   *)
ReadIsComplete ==
  /\ \A r \in job.rows : Wanted(reader.call, r)
  /\ reader.pc = "done" =>
       \A r \in Settled :
         Wanted(reader.call, r) => r \in job.rows \/ (Rust /\ RowFile(r) \in job.missed)

(* The invariant of the proofs: what a read has, of which version, and what *)
(* it still has to look at, while writers go on (storage.py:105-134,        *)
(* query.py:22-35, reader.rs:8-43).                                         *)
ReadersInv ==
  /\ StorageInv
  /\ JobInv
  /\ reader \in Readers
  /\ reader.pc = "idle" => job = NoJob
  /\ reader.pc # "idle" => job.asked = AskedFiles
  /\ reader.pc = "done" => AllRead
  /\ ~Rust => job.missed = {}

Result ==
  IF reader.pc = "done" THEN {ByFile(job.rows, job.blends, AskedFiles \ job.missed)} ELSE {}

CallRegisters ==
  INSTANCE FileRegisters WITH held <- Held, asked <- AskedFiles, strict <- ~Rust,
                              since <- since, answer <- Result

(* Whoever reads, what a call returns is of each file it asks for a whole   *)
(* version that could be read since the call began, and none is counted     *)
(* twice, or a blend, and this only of a file that was written meanwhile;   *)
(* no file is passed over but by the walk of Rust (storage.py:105-134,      *)
(* query.py:22-35, reader.rs:8-43).                                         *)
ReadersImplementRegisters == CallRegisters!Spec

(* What else DuckDB and Polars need: a view that fits the first file there *)
(* is, or that is yet to be made, and files of one layout.                  *)
Usable ==
  /\ DuckDB =>
       \/ reader.view = "none" /\ reader.pc = "idle"
       \/ \A f \in Present : First(f) => Layout(f) = reader.view
  /\ ~Misfit

(* Once the last write has ended and left no file torn, a reader comes to   *)
(* return just what the store holds, in Rust of the files its walk does not *)
(* fail on, whatever it read or failed to read before (storage.py:113-147,  *)
(* query.py:22-36, 104-108, reader.rs:17-43).                               *)
ReadersCatchUp ==
  Quiet /\ Usable ~>
    /\ reader.pc = "done" /\ job.blends = {}
    /\ job.rows = {r \in AllRows(Present \ job.missed) : Wanted(reader.call, r)}
==============================================================================

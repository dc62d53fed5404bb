------------------------------ MODULE FileReads ------------------------------
(***************************************************************************)
(* How the programs of the repository read the store while others write it.*)
(* None of them locks anything.  A read lists the files, takes the footer  *)
(* of each, and then its pages, from where the footer says they are.       *)
(*                                                                         *)
(* The writers empty and refill a file in place (Storage), so a write may  *)
(* come between footer and pages.  Then the read raises, if the bytes it   *)
(* finds make no sense, or returns a blend of two versions, of which       *)
(* nothing is said here.                                                   *)
(***************************************************************************)
EXTENDS Storage

CONSTANT MaxOpen   \* how many files a reader has open at a time

ASSUME FileReadsAssumption == MaxOpen \in Nat \ {0}

VARIABLES
  job,    \* one read: the files it is about, there or not, the first one
          \* there is, those yet to open, the footers taken, the files left
          \* out, the files it has a blend of, and the rows it has
  since   \* history: for each file its versions since the call began

NoJob == [asked |-> {}, first |-> {}, files |-> {}, footers |-> {},
          missed |-> {}, blends |-> {}, rows |-> {}]

ReadsInit ==
  /\ StorageInit
  /\ job = NoJob
  /\ since = Held

(* Fault: the listing of an earlier call is used again.                     *)
ListOnce(asked) ==
  job' = [NoJob EXCEPT !.asked = asked, !.first = {f \in Present : First(f)},
            !.files = IF job.rows = {} THEN Present \cap asked
                      ELSE {RowFile(r) : r \in job.rows}]

List(asked) ==
  job' = [NoJob EXCEPT !.asked = asked, !.first = {f \in Present : First(f)},
                       !.files = Present \cap asked]

FooterOf(f) == [file |-> f, write |-> disk[f].write]

(* The columns are those of the first file; its footer may be kept.         *)
Schema ==
  \E kept \in SUBSET {f \in job.first \cap job.files : ~Torn(f)} :
    job' = [job EXCEPT !.files = @ \ kept,
                       !.footers = @ \cup {FooterOf(f) : f \in kept}]

(* A file that is not closed has no footer.                                 *)
ReadFooter(f) ==
  /\ ~Torn(f)
  /\ Cardinality(job.footers) < MaxOpen
  /\ job' = [job EXCEPT !.files = @ \ {f}, !.footers = @ \cup {FooterOf(f)}]

Stale(ft) == disk[ft.file] # [write |-> ft.write, closed |-> TRUE]

(* Fault: a file that was emptied meanwhile has no rows.                    *)
PagesOfNow(ft) ==
  job' = [job EXCEPT !.footers = @ \ {ft}, !.rows = @ \cup Rows(ft.file)]

(* Fault: the rows of a file take the place of what was read before.        *)
PagesReplace(ft) ==
  job' = IF Stale(ft) THEN [job EXCEPT !.footers = @ \ {ft}, !.blends = @ \cup {ft.file}]
         ELSE [job EXCEPT !.footers = @ \ {ft}, !.rows = Rows(ft.file)]

(* The last page has been read: of the version of the footer, unless the    *)
(* file was written since.                                                  *)
ReadPages(ft) ==
  job' = IF Stale(ft) THEN [job EXCEPT !.footers = @ \ {ft}, !.blends = @ \cup {ft.file}]
         ELSE [job EXCEPT !.footers = @ \ {ft}, !.rows = @ \cup Rows(ft.file)]

(* What a read may stumble over.                                            *)
MayRaise == (\E f \in job.files : Torn(f)) \/ (\E ft \in job.footers : Stale(ft))

AllRead == job.files = {} /\ job.footers = {}

(* A step of a writer, in another process.                                  *)
Write ==
  /\ WriterStep
  /\ since' = [f \in Files |-> since[f] \cup Held'[f]]

------------------------------------------------------------------------------
(* The rows that could be read when the call began, and that no write has   *)
(* touched since.                                                           *)
Settled == UNION {Rows(f) : f \in {g \in Files : since[g] = Held[g]}}

OfFile(rows, f) == {r \in rows : RowFile(r) = f}

(* What was read of each file, as a set: {} for a blend.                    *)
ByFile(rows, blends, fs) ==
  [f \in fs \cup {RowFile(r) : r \in rows} |->
     IF f \in blends THEN {} ELSE {OfFile(rows, f)}]

Footers == [file : Files, write : Nat]

Jobs == [asked : SUBSET Files, first : SUBSET Files, files : SUBSET Files,
         footers : SUBSET Footers, missed : SUBSET Files, blends : SUBSET Files,
         rows : SUBSET ReadRows]

(* A file the read is through with, or that was not there.                  *)
Through(f) ==
  /\ f \notin job.files \cup job.missed \cup job.blends
  /\ \A ft \in job.footers : ft.file # f

(* The file had, since the call began, the version of this write.           *)
HadSince(f, w) == f \in FilesOf(w) /\ Version(f, w) \in since[f]

(* Where each file of a read stands: what is done with has one whole        *)
(* version, of a moment since the call began; what is blended was written   *)
(* since; what is listed is there (storage.py:131, serve.py:59,             *)
(* reader.rs:8-43, query.py:31-35).                                         *)
JobInv ==
  /\ job \in Jobs /\ since \in [Files -> SUBSET SUBSET ReadRows]
  /\ \A f \in Files : Held[f] \subseteq since[f]
  /\ job.first \subseteq Present
  /\ job.files \subseteq Present \cap job.asked
  /\ job.files \cap (job.missed \cup job.blends) = {}
  /\ \A ft \in job.footers :
       /\ ft.file \in job.asked \ (job.files \cup job.missed \cup job.blends)
       /\ ft.write \in DOMAIN log /\ HadSince(ft.file, ft.write)
       /\ disk[ft.file].write > ft.write \/ ~Stale(ft)
       /\ \A fu \in job.footers : fu.file = ft.file => fu = ft
  /\ \A f \in job.blends :
       f \in job.asked /\ \E w \in DOMAIN log : HadSince(f, w) /\ disk[f].write > w
  /\ \A r \in job.rows :
       /\ r.write \in DOMAIN log /\ r.key \in log[r.write].call.keys
       /\ RowFile(r) \in job.asked /\ Through(RowFile(r))
  /\ \A f \in job.asked : Through(f) => OfFile(job.rows, f) \in since[f]
==============================================================================

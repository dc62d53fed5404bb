-------------------------------- MODULE Serve --------------------------------
(***************************************************************************)
(* The feature server of cfb.serve (src/python/src/cfb/serve.py) on a      *)
(* store that is being written.  A request is answered from the cached     *)
(* table, which is loaded anew when it is older than its TTL, and else by  *)
(* a DuckDB scan of the files.                                             *)
(*                                                                         *)
(* The handlers never await, so one request is served at a time; but the   *)
(* writers are other processes, and they go on between any two reads of    *)
(* the server, of the table or of the scan.                                *)
(***************************************************************************)
EXTENDS FileReads

CONSTANT Requests   \* the rows that are asked for

ASSUME ServeAssumption == \A k \in Requests : k.symbol \in Nat /\ k.ts \in Nat

VARIABLES
  cache,    \* _cache: is there one, is it younger than its TTL, its rows, and
            \* the files it has a blend of
  handler,  \* where the handler is, what it serves, and the language of the
            \* file that DuckDB took its columns from
  answer    \* the latest answer: its status and, as a set, its row; {} for
            \* no row, or one made of a blend

serverVars == <<cache, handler, answer>>
vars == <<disk, log, todo, open, job, since, cache, handler, answer>>

Health == [health |-> TRUE]
Idle == [pc |-> "idle", request |-> Health, layout |-> "none"]

Init ==
  /\ ReadsInit
  /\ cache = [loaded |-> FALSE, fresh |-> FALSE, rows |-> {}, blends |-> {}]
  /\ handler = Idle
  /\ answer = [code |-> 0, row |-> {}]

(* Fault: a table that was loaded once is never loaded again.               *)
LoadOnce == ~cache.loaded

NeedsLoad == ~cache.loaded \/ ~cache.fresh

(* A request: the table is taken as it is, or the files are listed for a    *)
(* new one.                                                                 *)
Ask(request) ==
  /\ handler.pc = "idle"
  /\ since' = Held
  /\ answer' = [code |-> 0, row |-> {}]
  /\ \/ /\ ~NeedsLoad
        /\ handler' = [handler EXCEPT !.pc = "lookup", !.request = request]
        /\ UNCHANGED job
     \/ /\ NeedsLoad
        /\ handler' = [handler EXCEPT !.pc = "listed", !.request = request]
        /\ List(Files)
  /\ UNCHANGED <<cache, disk, log, todo, open>>

ToLookup == handler' = [handler EXCEPT !.pc = "lookup"] /\ job' = NoJob

NewTable == cache' = [loaded |-> TRUE, fresh |-> TRUE, rows |-> job.rows, blends |-> job.blends]

(* An exception in a load is swallowed, and leaves the table and its age.   *)
(* No file is one, or gives an empty table, as the directory exists or not. *)
NoTable ==
  /\ handler.pc = "listed"
  /\ job.files = {} \/ \E f \in job.first : Torn(f)
  /\ ToLookup
  /\ UNCHANGED <<cache, answer, disk, log, todo, open, since>>

NoRows ==
  /\ handler.pc = "listed"
  /\ job.files = {}
  /\ NewTable
  /\ ToLookup
  /\ UNCHANGED <<answer, disk, log, todo, open, since>>

StartLoad ==
  /\ handler.pc = "listed"
  /\ \E f \in job.first : ~Torn(f)
  /\ Schema
  /\ handler' = [handler EXCEPT !.pc = "load"]
  /\ UNCHANGED <<cache, answer, disk, log, todo, open, since>>

(* The table and the scan read files alike.                                 *)
ServerOpens(f) ==
  /\ handler.pc \in {"load", "scan"}
  /\ ReadFooter(f)
  /\ UNCHANGED <<serverVars, disk, log, todo, open, since>>

ServerReads(ft) ==
  /\ handler.pc \in {"load", "scan"}
  /\ ReadPages(ft)
  /\ UNCHANGED <<serverVars, disk, log, todo, open, since>>

LoadRaises ==
  /\ handler.pc = "load"
  /\ MayRaise
  /\ ToLookup
  /\ UNCHANGED <<cache, answer, disk, log, todo, open, since>>

FinishLoad ==
  /\ handler.pc = "load"
  /\ AllRead
  /\ NewTable
  /\ ToLookup
  /\ UNCHANGED <<answer, disk, log, todo, open, since>>

Reply(code, row) ==
  /\ handler' = Idle
  /\ answer' = [code |-> code, row |-> row]
  /\ job' = NoJob

Hits(rows) == {r \in rows : r.key = handler.request}

(* Fault: a cached row is the answer, however old.                          *)
ServeCached == \E r \in Hits(cache.rows) : Reply(200, {r})

(* A cached row ends in a TypeError: source is among the fields taken from  *)
(* the row, and is passed once more.                                        *)
AnswerCached == Reply(500, {})

(* What is not in the table is looked for on disk: DuckDB lists the files,  *)
(* and will not open those of other symbols.  Of a table with blends nothing*)
(* is known.                                                                *)
Lookup ==
  /\ handler.pc = "lookup"
  /\ \/ /\ handler.request = Health
        /\ Reply(200, {})
     \/ /\ handler.request # Health
        /\ Hits(cache.rows) # {} \/ cache.blends # {}
        /\ AnswerCached
     \/ /\ handler.request # Health
        /\ Hits(cache.rows) = {}
        /\ Present = {}
        /\ Reply(500, {})
     \/ /\ handler.request # Health
        /\ Hits(cache.rows) = {}
        /\ Present # {}
        /\ List({f \in Files : f.symbol = handler.request.symbol})
        /\ handler' = [handler EXCEPT !.pc = "bind"]
        /\ UNCHANGED answer
  /\ UNCHANGED <<cache, disk, log, todo, open, since>>

(* It takes its columns from the first of all files.                        *)
Bind ==
  /\ handler.pc = "bind"
  /\ \E f \in job.first :
       IF Torn(f) THEN Reply(500, {})
       ELSE /\ Schema
            /\ handler' = [handler EXCEPT !.pc = "scan",
                                          !.layout = log[disk[f].write].call.by]
            /\ UNCHANGED answer
  /\ UNCHANGED <<cache, disk, log, todo, open, since>>

(* LIMIT 1 takes any row, and may or may not come to the other files.       *)
(* pyarrow writes no symbol column, so that in its layout DuckDB puts       *)
(* symbol last and the columns are taken for one another: the response      *)
(* does not validate.                                                       *)
Found ==
  /\ handler.pc = "scan"
  /\ \E r \in Hits(job.rows) :
       IF handler.layout = "python" THEN Reply(500, {}) ELSE Reply(200, {r})
  /\ UNCHANGED <<cache, disk, log, todo, open, since>>

FoundInBlend ==
  /\ handler.pc = "scan"
  /\ job.blends # {}
  /\ \E code \in {200, 500} : Reply(code, {})
  /\ UNCHANGED <<cache, disk, log, todo, open, since>>

ScanRaises ==
  /\ handler.pc = "scan"
  /\ MayRaise
  /\ Reply(500, {})
  /\ UNCHANGED <<cache, disk, log, todo, open, since>>

(* Fault: no cold path, as in cfb-serve (main.rs:122-131).                  *)
NoColdPath ==
  /\ handler.pc = "scan"
  /\ Reply(404, {})
  /\ UNCHANGED <<cache, disk, log, todo, open, since>>

NotFound ==
  /\ handler.pc = "scan"
  /\ AllRead /\ Hits(job.rows) = {}
  /\ Reply(404, {})
  /\ UNCHANGED <<cache, disk, log, todo, open, since>>

(* The table outlives its TTL.                                              *)
Expire ==
  /\ cache.fresh
  /\ cache' = [cache EXCEPT !.fresh = FALSE]
  /\ UNCHANGED <<handler, answer, disk, log, todo, open, job, since>>

WriteBeside == Write /\ UNCHANGED <<cache, handler, answer, job>>

ServerStep ==
  \/ NoTable \/ NoRows \/ StartLoad
  \/ \E f \in job.files : ServerOpens(f)
  \/ \E ft \in job.footers : ServerReads(ft)
  \/ LoadRaises \/ FinishLoad
  \/ Lookup \/ Bind
  \/ Found \/ FoundInBlend \/ ScanRaises \/ NotFound

Next ==
  \/ WriteBeside
  \/ \E request \in Requests \cup {Health} : Ask(request)
  \/ ServerStep
  \/ Expire

(* The server runs on, time passes, and requests keep coming.  Nothing is   *)
(* assumed of the writers.                                                  *)
Fairness ==
  /\ WF_vars(ServerStep)
  /\ WF_vars(Expire)
  /\ WF_vars(\E request \in Requests \cup {Health} : Ask(request))

Spec == Init /\ [][Next]_vars /\ Fairness

------------------------------------------------------------------------------
Tables == [loaded : BOOLEAN, fresh : BOOLEAN, rows : SUBSET ReadRows, blends : SUBSET Files]

Handlers ==
  [pc : {"idle", "listed", "load", "lookup", "bind", "scan"},
   request : Requests \cup {Health}, layout : {"none", "python", "rust"}]

Answers == [code : {0, 200, 404, 500}, row : SUBSET ReadRows]

TypeOK == cache \in Tables /\ handler \in Handlers /\ answer \in Answers

Asked ==
  IF handler.pc \in {"listed", "load"} THEN Files
  ELSE IF handler.pc \in {"bind", "scan"} THEN {f \in Files : f.symbol = handler.request.symbol}
  ELSE {}

(* The invariant of the proofs: the state of every write that was begun,    *)
(* and of every read of the server beside it (storage.py:90-102,            *)
(* writer.rs:50-67, serve.py:56-105).                                       *)
Inv ==
  /\ StorageInv
  /\ TypeOK
  /\ JobInv
  /\ job.asked = Asked /\ job.missed = {}
  /\ handler.pc \in {"idle", "lookup"} => job = NoJob
  /\ handler.pc \in {"bind", "scan"} => handler.request # Health
  /\ handler.pc = "listed" => job.footers = {}
  /\ \A r \in cache.rows : r.write \in DOMAIN log

Replies == handler.pc # "idle" /\ handler'.pc = "idle" /\ handler.request # Health

(* A row that could be read when its request came, and in whose file no     *)
(* write has gone since, is never answered with "not found", in whatever    *)
(* order the store is written meanwhile (serve.py:82-105).                  *)
SettledIsFound ==
  [][Replies /\ answer'.code = 404 =>
       \A r \in Settled : r.key # handler.request]_vars

(* An answer is a row that could be read at some moment since the request   *)
(* came: that of the latest write there was, if none has gone into its file *)
(* since and no other part holds the row.  Only where a file of the symbol  *)
(* is written meanwhile may it be made of a blend (serve.py:95-109).        *)
AnswerIsCurrent ==
  [][Replies /\ answer'.code = 200 =>
       /\ \A r \in answer'.row :
            /\ r.key = handler.request
            /\ \E v \in since[RowFile(r)] : r \in v
            /\ \A q \in Settled : q.key = r.key /\ RowFile(q) = RowFile(r) => q = r
       /\ answer'.row = {} =>
            \E f \in Files : f.symbol = handler.request.symbol /\ since[f] # Held[f]]_vars

(* A load that succeeds has every row that was settled while it ran, though *)
(* it may have read some files before and some after a write                *)
(* (serve.py:56-70).                                                        *)
LoadIsComplete ==
  [][cache'.rows # cache.rows => Settled \subseteq cache'.rows]_vars

Table == IF cache.loaded THEN {ByFile(cache.rows, cache.blends, Files)} ELSE {}

TableRegisters ==
  INSTANCE FileRegisters WITH held <- Held, asked <- Files, strict <- TRUE,
                              since <- since, answer <- Table

(* The cached table is made of one whole version of each file, that could   *)
(* be read at some moment of the request that loaded it, but of those files *)
(* that were written between the reading of their footer and of their pages *)
(* (serve.py:56-71).                                                        *)
TableImplementsRegisters == TableRegisters!Spec

(* Once the last write has ended and left no file torn, the table becomes   *)
(* that of the disk; until then, a torn file may keep it as it was          *)
(* (serve.py:62-71).                                                        *)
CacheCatchesUp ==
  Quiet ~> (cache.rows = AllRows(Present) /\ cache.blends = {})

(* "source: str  # "cache" or "parquet"" (serve.py:53): a request for a row *)
(* of the cached table is answered with that row.                           *)
CachedRowIsServed ==
  [][Replies /\ Hits(cache.rows) # {} => answer'.code = 200]_vars
==============================================================================

----------------------------- MODULE ServeProofs -----------------------------
(***************************************************************************)
(* Theorems about the store, the server and the other programs that read   *)
(* it, for every set of calls, any number of writes and every set of       *)
(* requests and reads.                                                     *)
(***************************************************************************)
EXTENDS Serve, Readers, SequenceTheorems, TLAPS

------------------------------------------------------------------------------
(* The store.                                                               *)

LEMMA TargetsAreFiles ==
  ASSUME NEW c \in Calls
  PROVE  Targets(c) \subseteq Files
BY DEF Files

LEMMA WriterType ==
  ASSUME StorageTypeOK
  PROVE  /\ Writer \in Nat /\ DOMAIN log = 1 .. Writer
         /\ \A w \in DOMAIN log : /\ log[w].call \in Calls
                                  /\ FilesOf(w) \subseteq Files
         /\ Writing => Writer \in DOMAIN log
<1>1. Writer \in Nat /\ DOMAIN log = 1 .. Writer
  BY DEF StorageTypeOK, Writer
<1>2. ASSUME NEW w \in DOMAIN log
      PROVE  log[w].call \in Calls /\ FilesOf(w) \subseteq Files
  <2>1. log[w] \in [call : Calls, state : {"running", "returned", "failed"}]
    BY <1>1, <1>2, ElementOfSeq DEF StorageTypeOK, Writer
  <2> QED
    BY <2>1, TargetsAreFiles DEF FilesOf
<1>3. Writing => Writer \in DOMAIN log
  BY <1>1, EmptySeq DEF Writing, StorageTypeOK, Writer
<1> QED
  BY <1>1, <1>2, <1>3

LEMMA StorageInitInv == StorageInit => StorageInv
<1> SUFFICES ASSUME StorageInit PROVE StorageInv
  OBVIOUS
<1>1. Writer = 0 /\ ~Writing /\ DOMAIN log = {}
  BY DEF StorageInit, Writer, Writing
<1>2. \A f \in Files : disk[f] = [write |-> 0, closed |-> FALSE]
  BY DEF StorageInit, Absent
<1>3. StorageTypeOK
  BY <1>1, <1>2 DEF StorageInit, StorageTypeOK, Absent
<1>4. Present = {} /\ ~\E f \in Files : Torn(f)
  BY <1>2 DEF Present, Torn
<1>5. DiskOfLog /\ Progress
  BY <1>1, <1>2, <1>4 DEF DiskOfLog, Progress, StorageInit
<1>6. ReturnedIsReadable /\ RustTearsOne
  BY <1>1, <1>4 DEF ReturnedIsReadable, RustTearsOne
<1> QED
  BY <1>3, <1>5, <1>6 DEF StorageInv

LEMMA BeginWriteInv == StorageInv /\ BeginWrite => StorageInv'
<1> SUFFICES ASSUME StorageInv, BeginWrite PROVE StorageInv'
  OBVIOUS
<1>0. StorageTypeOK /\ DiskOfLog /\ Progress /\ ReturnedIsReadable /\ RustTearsOne
  BY DEF StorageInv
<1>1. PICK c \in Calls : /\ log' = Append(log, [call |-> c, state |-> "running"])
                         /\ todo' = Targets(c)
  BY DEF BeginWrite
<1>2. open' = {} /\ disk' = disk /\ ~Writing
  BY DEF BeginWrite
<1>3. /\ Writer \in Nat /\ DOMAIN log = 1 .. Writer
      /\ log \in Seq([call : Calls, state : {"running", "returned", "failed"}])
      /\ disk \in [Files -> [write : 0 .. Writer, closed : BOOLEAN]]
  BY <1>0, WriterType DEF StorageTypeOK
<1>4. /\ log' \in Seq([call : Calls, state : {"running", "returned", "failed"}])
      /\ Writer' = Writer + 1 /\ DOMAIN log' = 1 .. Writer + 1
      /\ \A w \in DOMAIN log : log'[w] = log[w]
      /\ log'[Writer + 1] = [call |-> c, state |-> "running"]
  BY <1>1, <1>3 DEF Writer
<1>6. FilesOf(Writer)' = Targets(c) /\ Writing'
  <2>1. FilesOf(Writer)' = Targets(log'[Writer + 1].call)
    BY <1>4 DEF FilesOf
  <2>2. log' # <<>>
    BY <1>3, <1>4
  <2> QED
    BY <1>4, <2>1, <2>2 DEF Writing
<1>7. StorageTypeOK'
  <2>1. disk' \in [Files -> [write : 0 .. Writer', closed : BOOLEAN]]
    <3>1. 0 .. Writer \subseteq 0 .. Writer'
      BY <1>3, <1>4
    <3> QED
      BY <1>2, <1>3, <3>1
  <2> QED
    BY <1>1, <1>2, <1>4, <2>1, TargetsAreFiles DEF StorageTypeOK
<1>8. Present' = Present /\ \A f \in Present : disk[f].write \in DOMAIN log
  BY <1>2, <1>3 DEF Present
<1>9. DiskOfLog'
  <2>1. ASSUME NEW w \in DOMAIN log', log'[w].state = "running"
        PROVE  w = Writer'
    <3>1. CASE w \in DOMAIN log
      <4>1. log[w].state = "running"
        BY <1>4, <2>1, <3>1
      <4>2. w = Writer /\ Writer # 0
        BY <1>0, <1>3, <3>1, <4>1 DEF DiskOfLog
      <4>3. log # <<>>
        BY <1>3, <4>2 DEF Writer
      <4> QED
        BY <1>2, <4>1, <4>2, <4>3 DEF Writing
    <3>2. CASE w \notin DOMAIN log
      BY <1>3, <1>4, <2>1, <3>2
    <3> QED
      BY <3>1, <3>2
  <2>2. \A f \in Present' : f \in Targets(log'[disk'[f].write].call)
    <3> SUFFICES ASSUME NEW f \in Present PROVE f \in Targets(log'[disk[f].write].call)
      BY <1>2, <1>8
    <3> QED
      BY <1>0, <1>4, <1>8 DEF DiskOfLog, FilesOf
  <2>3. \A f \in Files \ Present' : ~disk'[f].closed
    BY <1>0, <1>2, <1>8 DEF DiskOfLog
  <2> QED
    BY <2>1, <2>2, <2>3 DEF DiskOfLog, FilesOf
<1>10. Progress'
  <2>1. \A f \in todo' : disk'[f].write < Writer'
    <3> SUFFICES ASSUME NEW f \in Files PROVE disk[f].write < Writer + 1
      BY <1>1, <1>2, <1>4, TargetsAreFiles
    <3> QED
      BY <1>3
  <2> QED
    BY <1>1, <1>2, <1>6, <2>1 DEF Progress
<1>11. ReturnedIsReadable'
  <2> SUFFICES ASSUME NEW w \in DOMAIN log', log'[w].state = "returned",
                      NEW f \in Targets(log'[w].call)
               PROVE  \/ disk'[f] = [write |-> w, closed |-> TRUE]
                      \/ disk'[f].write > w /\ f \in Targets(log'[disk'[f].write].call)
    BY DEF ReturnedIsReadable, FilesOf
  <2>1. w \in DOMAIN log
    BY <1>3, <1>4
  <2>2. log[w].state = "returned" /\ f \in FilesOf(w)
    BY <1>4, <2>1 DEF FilesOf
  <2>3. \/ disk[f] = [write |-> w, closed |-> TRUE]
        \/ disk[f].write > w /\ f \in FilesOf(disk[f].write)
    BY <1>0, <2>1, <2>2 DEF ReturnedIsReadable
  <2>4. f \in Files
    BY <1>0, <2>1, <2>2, WriterType
  <2>5. disk[f].write > w => disk[f].write \in DOMAIN log
    BY <1>3, <2>1, <2>4
  <2> QED
    BY <1>2, <1>4, <2>3, <2>5 DEF FilesOf
<1>12. RustTearsOne'
  <2> SUFFICES ASSUME NEW f \in Files, NEW g \in Files, Torn(f)', Torn(g)',
                      disk'[f].write = disk'[g].write,
                      log'[disk'[f].write].call.by = "rust"
               PROVE  f = g
    BY DEF RustTearsOne
  <2>1. Torn(f) /\ Torn(g) /\ f \in Present
    BY <1>2 DEF Torn, Present
  <2>2. log'[disk[f].write] = log[disk[f].write]
    BY <1>4, <1>8, <2>1
  <2> QED
    BY <1>0, <1>2, <2>1, <2>2 DEF RustTearsOne
<1> QED
  BY <1>7, <1>9, <1>10, <1>11, <1>12 DEF StorageInv

LEMMA OpenFileInv ==
  ASSUME StorageInv, NEW f \in todo, OpenFile(f)
  PROVE  StorageInv'
<1>0. StorageTypeOK /\ DiskOfLog /\ Progress /\ ReturnedIsReadable /\ RustTearsOne
  BY DEF StorageInv
<1>1. /\ disk' = [disk EXCEPT ![f] = [write |-> Writer, closed |-> FALSE]]
      /\ todo' = todo \ {f} /\ open' = open \cup {f} /\ log' = log
      /\ log[Writer].call.by = "rust" => open = {}
  BY DEF OpenFile
<1>2. Writing /\ f \in Files /\ f \in FilesOf(Writer) /\ Writer \in DOMAIN log
  BY <1>0, WriterType DEF Progress, StorageTypeOK
<1>3. /\ Writer \in Nat \ {0} /\ DOMAIN log = 1 .. Writer
      /\ disk \in [Files -> [write : 0 .. Writer, closed : BOOLEAN]]
  BY <1>0, <1>2, WriterType DEF StorageTypeOK
<1>4. Writer' = Writer /\ Writing' /\ \A w : FilesOf(w)' = FilesOf(w)
  BY <1>1, <1>2 DEF Writer, Writing, FilesOf
<1>5. /\ disk'[f] = [write |-> Writer, closed |-> FALSE]
      /\ \A g \in Files \ {f} : disk'[g] = disk[g]
      /\ disk' \in [Files -> [write : 0 .. Writer, closed : BOOLEAN]]
  BY <1>1, <1>2, <1>3
<1>6. StorageTypeOK'
  BY <1>0, <1>1, <1>2, <1>4, <1>5 DEF StorageTypeOK
<1>7. Present' = Present \cup {f}
  BY <1>2, <1>3, <1>5 DEF Present
<1>8. DiskOfLog'
  <2>1. \A g \in Present' : g \in Targets(log[disk'[g].write].call)
    BY <1>0, <1>2, <1>5, <1>7 DEF DiskOfLog, FilesOf, Present
  <2>2. \A g \in Files \ Present' : ~disk'[g].closed
    BY <1>0, <1>5, <1>7 DEF DiskOfLog
  <2> QED
    BY <1>0, <1>1, <1>4, <2>1, <2>2 DEF DiskOfLog, FilesOf
<1>9. Progress'
  <2>1. todo' \cup open' \subseteq FilesOf(Writer) /\ todo' \cap open' = {}
    BY <1>0, <1>1, <1>2 DEF Progress
  <2>2. \A g \in todo' : disk'[g].write < Writer
    BY <1>0, <1>1, <1>2, <1>5 DEF Progress, StorageTypeOK
  <2>3. ASSUME NEW g \in FilesOf(Writer) \ todo'
        PROVE  disk'[g] = [write |-> Writer, closed |-> g \notin open']
    <3>1. CASE g = f
      BY <1>1, <1>5, <3>1
    <3>2. CASE g # f
      <4>1. g \in Files \ {f} /\ g \notin todo
        BY <1>0, <1>1, <1>2, <2>3, <3>2, WriterType
      <4>2. disk[g] = [write |-> Writer, closed |-> g \notin open]
        BY <1>0, <1>2, <2>3, <4>1 DEF Progress
      <4>3. (g \notin open) = (g \notin open')
        BY <1>1, <3>2
      <4> QED
        BY <1>5, <4>1, <4>2, <4>3
    <3> QED
      BY <3>1, <3>2
  <2>4. log[Writer].call.by = "rust" => \A g, h \in open' : g = h
    BY <1>1
  <2> QED
    BY <1>1, <1>4, <2>1, <2>2, <2>3, <2>4 DEF Progress
<1>10. ReturnedIsReadable'
  <2> SUFFICES ASSUME NEW w \in DOMAIN log, log[w].state = "returned",
                      NEW g \in FilesOf(w)
               PROVE  \/ disk'[g] = [write |-> w, closed |-> TRUE]
                      \/ disk'[g].write > w /\ g \in Targets(log[disk'[g].write].call)
    BY <1>1 DEF ReturnedIsReadable, FilesOf
  <2>1. CASE g = f
    BY <1>2, <1>3, <1>5, <2>1 DEF Writing, FilesOf
  <2>2. CASE g # f
    <3>1. g \in Files
      BY <1>0, WriterType
    <3> QED
      BY <1>0, <1>5, <2>2, <3>1 DEF ReturnedIsReadable, FilesOf
  <2> QED
    BY <2>1, <2>2
<1>11. RustTearsOne'
  <2>1. ASSUME NEW g \in Files \ {f}, Torn(g)', disk'[g].write = Writer,
               log[Writer].call.by = "rust"
        PROVE  FALSE
    <3>1. disk[g].write = Writer /\ ~disk[g].closed /\ open = {}
      BY <1>1, <1>5, <2>1 DEF Torn
    <3>2. g \in FilesOf(Writer)
      BY <1>0, <1>3, <3>1 DEF DiskOfLog, Present
    <3>3. g \notin todo
      BY <1>0, <1>2, <1>3, <3>1 DEF Progress
    <3>4. disk[g] = [write |-> Writer, closed |-> g \notin open]
      BY <1>0, <1>2, <3>2, <3>3 DEF Progress
    <3>5. disk[g].closed = (g \notin open)
      BY <3>4
    <3> QED
      BY <3>1, <3>5, Zenon
  <2> SUFFICES ASSUME NEW g \in Files, NEW h \in Files, Torn(g)', Torn(h)',
                      disk'[g].write = disk'[h].write,
                      log[disk'[g].write].call.by = "rust"
               PROVE  g = h
    BY <1>1 DEF RustTearsOne
  <2>2. CASE g = f \/ h = f
    BY <1>5, <2>1, <2>2
  <2>3. CASE g # f /\ h # f
    <3>1. Torn(g) /\ Torn(h)
      BY <1>5, <2>3 DEF Torn
    <3> QED
      BY <1>0, <1>5, <2>3, <3>1 DEF RustTearsOne
  <2> QED
    BY <2>2, <2>3
<1> QED
  BY <1>6, <1>8, <1>9, <1>10, <1>11 DEF StorageInv

LEMMA CloseFileInv ==
  ASSUME StorageInv, NEW f \in open, CloseFile(f)
  PROVE  StorageInv'
<1>0. StorageTypeOK /\ DiskOfLog /\ Progress /\ ReturnedIsReadable /\ RustTearsOne
  BY DEF StorageInv
<1>1. /\ disk' = [disk EXCEPT ![f].closed = TRUE]
      /\ todo' = todo /\ open' = open \ {f} /\ log' = log
  BY DEF CloseFile
<1>2. Writing /\ f \in Files /\ f \in FilesOf(Writer) /\ Writer \in DOMAIN log
  BY <1>0, WriterType DEF Progress, StorageTypeOK
<1>3. /\ Writer \in Nat \ {0} /\ DOMAIN log = 1 .. Writer
      /\ disk \in [Files -> [write : 0 .. Writer, closed : BOOLEAN]]
  BY <1>0, <1>2, WriterType DEF StorageTypeOK
<1>4. Writer' = Writer /\ Writing' /\ \A w : FilesOf(w)' = FilesOf(w)
  BY <1>1, <1>2 DEF Writer, Writing, FilesOf
<1>5. f \notin todo /\ disk[f].write = Writer
  <2>1. f \notin todo
    BY <1>0, <1>2 DEF Progress
  <2>2. disk[f] = [write |-> Writer, closed |-> f \notin open]
    BY <1>0, <1>2, <2>1 DEF Progress
  <2> QED
    BY <2>1, <2>2
<1>6. /\ disk'[f] = [write |-> Writer, closed |-> TRUE]
      /\ \A g \in Files \ {f} : disk'[g] = disk[g]
      /\ disk' \in [Files -> [write : 0 .. Writer, closed : BOOLEAN]]
  BY <1>1, <1>2, <1>3, <1>5
<1>7. StorageTypeOK'
  BY <1>0, <1>1, <1>4, <1>6 DEF StorageTypeOK
<1>8. Present' = Present /\ f \in Present
  <2>1. Writer # 0 /\ disk'[f].write = Writer
    BY <1>3, <1>6
  <2>2. \A g \in Files : disk'[g].write = disk[g].write
    BY <1>5, <1>6, <2>1
  <2> QED
    BY <1>2, <1>5, <2>1, <2>2 DEF Present
<1>9. DiskOfLog'
  <2>1. \A g \in Present' : g \in Targets(log[disk'[g].write].call)
    BY <1>0, <1>2, <1>6, <1>8 DEF DiskOfLog, FilesOf, Present
  <2>2. \A g \in Files \ Present' : ~disk'[g].closed
    BY <1>0, <1>6, <1>8 DEF DiskOfLog
  <2> QED
    BY <1>0, <1>1, <1>4, <2>1, <2>2 DEF DiskOfLog, FilesOf
<1>10. Progress'
  <2>1. todo' \cup open' \subseteq FilesOf(Writer) /\ todo' \cap open' = {}
    BY <1>0, <1>1, <1>2 DEF Progress
  <2>2. \A g \in todo' : disk'[g].write < Writer
    BY <1>0, <1>1, <1>2, <1>5, <1>6 DEF Progress, StorageTypeOK
  <2>3. ASSUME NEW g \in FilesOf(Writer) \ todo'
        PROVE  disk'[g] = [write |-> Writer, closed |-> g \notin open']
    <3>1. CASE g = f
      BY <1>1, <1>6, <3>1
    <3>2. CASE g # f
      <4>1. g \in Files \ {f} /\ g \notin todo
        BY <1>0, <1>1, <1>2, <2>3, <3>2, WriterType
      <4>2. disk[g] = [write |-> Writer, closed |-> g \notin open]
        BY <1>0, <1>2, <2>3, <4>1 DEF Progress
      <4>3. (g \notin open) = (g \notin open')
        BY <1>1, <3>2
      <4> QED
        BY <1>6, <4>1, <4>2, <4>3
    <3> QED
      BY <3>1, <3>2
  <2>4. log[Writer].call.by = "rust" => \A g, h \in open' : g = h
    BY <1>0, <1>1, <1>2 DEF Progress
  <2> QED
    BY <1>1, <1>4, <2>1, <2>2, <2>3, <2>4 DEF Progress
<1>11. ReturnedIsReadable'
  <2> SUFFICES ASSUME NEW w \in DOMAIN log, log[w].state = "returned",
                      NEW g \in FilesOf(w)
               PROVE  \/ disk'[g] = [write |-> w, closed |-> TRUE]
                      \/ disk'[g].write > w /\ g \in Targets(log[disk'[g].write].call)
    BY <1>1 DEF ReturnedIsReadable, FilesOf
  <2>1. CASE g = f
    BY <1>2, <1>3, <1>6, <2>1 DEF Writing, FilesOf
  <2>2. CASE g # f
    <3>1. g \in Files
      BY <1>0, WriterType
    <3> QED
      BY <1>0, <1>6, <2>2, <3>1 DEF ReturnedIsReadable, FilesOf
  <2> QED
    BY <2>1, <2>2
<1>12. RustTearsOne'
  <2> SUFFICES ASSUME NEW g \in Files, NEW h \in Files, Torn(g)', Torn(h)',
                      disk'[g].write = disk'[h].write,
                      log[disk'[g].write].call.by = "rust"
               PROVE  g = h
    BY <1>1 DEF RustTearsOne
  <2>1. g # f /\ h # f
    BY <1>6 DEF Torn
  <2>2. Torn(g) /\ Torn(h)
    BY <1>6, <2>1 DEF Torn
  <2> QED
    BY <1>0, <1>6, <2>1, <2>2 DEF RustTearsOne
<1> QED
  BY <1>7, <1>9, <1>10, <1>11, <1>12 DEF StorageInv

(* A write ends, and returns only with all of its files closed.             *)
LEMMA EndWriteInv ==
  ASSUME StorageInv, Return \/ Fail
  PROVE  StorageInv'
<1>0. StorageTypeOK /\ DiskOfLog /\ Progress /\ ReturnedIsReadable /\ RustTearsOne
  BY DEF StorageInv
<1>1. PICK s \in {"returned", "failed"} : log' = [log EXCEPT ![Writer].state = s]
  BY DEF Return, Fail
<1>2. /\ Writing /\ disk' = disk /\ todo' = {} /\ open' = {}
      /\ log' = [log EXCEPT ![Writer].state = "returned"] => todo = {} /\ open = {}
  <2>1. CASE Return
    BY <2>1 DEF Return
  <2>2. CASE Fail
    <3>1. Writing /\ log' = [log EXCEPT ![Writer].state = "failed"]
      BY <2>2 DEF Fail
    <3>2. Writer \in DOMAIN log
      BY <1>0, <3>1, WriterType
    <3>3. PICK c, t : log[Writer] = [call |-> c, state |-> t]
      <4>1. log[Writer] \in [call : Calls, state : {"running", "returned", "failed"}]
        BY <1>0, <3>2, WriterType, ElementOfSeq DEF StorageTypeOK, Writer
      <4> QED
        BY <4>1
    <3>4. log'[Writer].state = "failed"
      BY <3>1, <3>2, <3>3
    <3>5. log' # [log EXCEPT ![Writer].state = "returned"]
      BY <3>2, <3>3, <3>4
    <3> QED
      BY <2>2, <3>5 DEF Fail
  <2> QED
    BY <2>1, <2>2
<1>3. /\ Writer \in DOMAIN log /\ DOMAIN log = 1 .. Writer /\ Writer \in Nat
      /\ log \in Seq([call : Calls, state : {"running", "returned", "failed"}])
      /\ disk \in [Files -> [write : 0 .. Writer, closed : BOOLEAN]]
  BY <1>0, <1>2, WriterType DEF StorageTypeOK
<1>4. /\ log' \in Seq([call : Calls, state : {"running", "returned", "failed"}])
      /\ Len(log') = Len(log) /\ DOMAIN log' = DOMAIN log
      /\ \A w \in DOMAIN log : log'[w].call = log[w].call
      /\ \A w \in DOMAIN log \ {Writer} : log'[w] = log[w]
      /\ log'[Writer].state = s
  <2>1. \A w \in DOMAIN log :
          log[w] \in [call : Calls, state : {"running", "returned", "failed"}]
    BY <1>3, ElementOfSeq DEF Writer
  <2>2. log'[Writer] = [log[Writer] EXCEPT !.state = s]
    BY <1>1, <1>3
  <2>3. /\ log'[Writer] \in [call : Calls, state : {"running", "returned", "failed"}]
        /\ log'[Writer].call = log[Writer].call /\ log'[Writer].state = s
    BY <1>3, <2>1, <2>2
  <2>4. \A w \in DOMAIN log \ {Writer} : log'[w] = log[w]
    BY <1>1
  <2>5. Len(log') = Len(log) /\ DOMAIN log' = DOMAIN log
    BY <1>1, <1>3
  <2>6. log' \in Seq([call : Calls, state : {"running", "returned", "failed"}])
    BY <1>1, <1>3, <2>3
  <2> QED
    BY <2>3, <2>4, <2>5, <2>6
<1>5. Writer' = Writer /\ ~Writing' /\ Present' = Present
  BY <1>2, <1>4 DEF Writer, Writing, Present
<1>6. StorageTypeOK'
  BY <1>2, <1>3, <1>4, <1>5 DEF StorageTypeOK
<1>7. \A f \in Present : disk[f].write \in DOMAIN log
  BY <1>3 DEF Present
<1>8. DiskOfLog'
  <2>1. \A w \in DOMAIN log' : log'[w].state # "running"
    BY <1>0, <1>4 DEF DiskOfLog
  <2>2. \A f \in Present' : f \in Targets(log'[disk'[f].write].call)
    BY <1>0, <1>2, <1>4, <1>5, <1>7 DEF DiskOfLog, FilesOf
  <2>3. \A f \in Files \ Present' : ~disk'[f].closed
    BY <1>0, <1>2, <1>5 DEF DiskOfLog
  <2> QED
    BY <2>1, <2>2, <2>3 DEF DiskOfLog, FilesOf
<1>9. Progress'
  BY <1>2, <1>5 DEF Progress
<1>10. ReturnedIsReadable'
  <2> SUFFICES ASSUME NEW w \in DOMAIN log, log'[w].state = "returned",
                      NEW f \in FilesOf(w)
               PROVE  \/ disk[f] = [write |-> w, closed |-> TRUE]
                      \/ disk[f].write > w /\ f \in Targets(log'[disk[f].write].call)
    BY <1>2, <1>4 DEF ReturnedIsReadable, FilesOf
  <2>1. CASE w = Writer
    <3>1. todo = {} /\ open = {}
      BY <1>1, <1>2, <1>4, <2>1
    <3> QED
      BY <1>0, <1>2, <2>1, <3>1 DEF Progress
  <2>2. CASE w # Writer
    <3>1. \/ disk[f] = [write |-> w, closed |-> TRUE]
          \/ disk[f].write > w /\ f \in Targets(log[disk[f].write].call)
      BY <1>0, <1>4, <2>2 DEF ReturnedIsReadable, FilesOf
    <3>2. f \in Files
      BY <1>0, WriterType
    <3>3. disk[f].write > w => disk[f].write \in DOMAIN log
      BY <1>3, <3>2
    <3> QED
      BY <1>4, <3>1, <3>3
  <2> QED
    BY <2>1, <2>2
<1>11. RustTearsOne'
  <2> SUFFICES ASSUME NEW f \in Files, NEW g \in Files, Torn(f), Torn(g),
                      disk[f].write = disk[g].write,
                      log'[disk[f].write].call.by = "rust"
               PROVE  f = g
    BY <1>2 DEF RustTearsOne, Torn
  <2>1. log'[disk[f].write].call = log[disk[f].write].call
    BY <1>4, <1>7 DEF Torn, Present
  <2> QED
    BY <1>0, <2>1 DEF RustTearsOne
<1> QED
  BY <1>6, <1>8, <1>9, <1>10, <1>11 DEF StorageInv

LEMMA WriterStepInv == StorageInv /\ WriterStep => StorageInv'
BY BeginWriteInv, OpenFileInv, CloseFileInv, EndWriteInv DEF WriterStep

LEMMA StorageStutter == StorageInv /\ UNCHANGED storageVars => StorageInv'
BY DEF StorageInv, StorageTypeOK, DiskOfLog, Progress, ReturnedIsReadable, RustTearsOne,
       storageVars, Writer, Writing, FilesOf, Present, Torn

------------------------------------------------------------------------------
(* What a reader finds.                                                     *)

(* The file a row was read from is known by the row.                        *)
LEMMA RowOfFile ==
  ASSUME StorageInv, NEW f \in Files, NEW r \in Rows(f)
  PROVE  /\ f \in Present /\ r.write = disk[f].write /\ r.write \in DOMAIN log
         /\ f = FileOf(r.key, log[r.write].call.part)
         /\ r \in ReadRows
<1>1. StorageTypeOK /\ DiskOfLog
  BY DEF StorageInv
<1>2. disk[f].closed
  BY DEF Rows
<1>3. f \in Present
  BY <1>1, <1>2 DEF DiskOfLog
<1>4. disk[f].write \in DOMAIN log /\ disk[f].write \in Nat
  BY <1>1, <1>3, WriterType DEF StorageTypeOK, Present
<1>5. PICK k \in log[disk[f].write].call.keys :
        /\ FileOf(k, log[disk[f].write].call.part) = f
        /\ r = [key |-> k, write |-> disk[f].write]
  BY <1>2 DEF Rows, Version
<1>6. log[disk[f].write].call \in Calls
  BY <1>1, <1>4, WriterType
<1> QED
  BY <1>3, <1>4, <1>5, <1>6 DEF ReadRows

LEMMA CallsStay ==
  ASSUME StorageInv, WriterStep, NEW w \in DOMAIN log
  PROVE  log'[w].call = log[w].call
<1>1. StorageTypeOK
  BY DEF StorageInv
<1>2. log \in Seq([call : Calls, state : {"running", "returned", "failed"}])
  BY <1>1 DEF StorageTypeOK
<1>3. CASE BeginWrite
  BY <1>2, <1>3 DEF BeginWrite
<1>4. CASE UNCHANGED log
  BY <1>4
<1>5. CASE Return \/ Fail
  <2>1. PICK s : log' = [log EXCEPT ![Writer].state = s]
    BY <1>5 DEF Return, Fail
  <2>2. CASE w = Writer
    <3>1. log'[w] = [log[w] EXCEPT !.state = s]
      BY <2>1, <2>2
    <3>2. log[w] \in [call : Calls, state : {"running", "returned", "failed"}]
      BY <1>1, <1>2, WriterType, ElementOfSeq DEF Writer
    <3> QED
      BY <3>1, <3>2
  <2>3. CASE w # Writer
    BY <2>1, <2>3
  <2> QED
    BY <2>2, <2>3
<1> QED
  BY <1>3, <1>4, <1>5 DEF WriterStep, OpenFile, CloseFile

(* What a step of the writer leaves alone keeps its rows.                   *)
LEMMA UntouchedRows ==
  ASSUME StorageInv, WriterStep, NEW f \in Files, disk'[f] = disk[f]
  PROVE  Rows(f)' = Rows(f)
<1>1. CASE ~disk[f].closed
  BY <1>1 DEF Rows, Version
<1>2. CASE disk[f].closed
  <2>1. StorageTypeOK /\ DiskOfLog
    BY DEF StorageInv
  <2>2. f \in Present
    BY <1>2, <2>1 DEF DiskOfLog
  <2>3. disk[f].write \in DOMAIN log
    BY <2>1, <2>2, WriterType DEF StorageTypeOK, Present
  <2>4. log'[disk[f].write].call = log[disk[f].write].call
    BY <2>3, CallsStay
  <2> QED
    BY <1>2, <2>4 DEF Rows, Version
<1> QED
  BY <1>1, <1>2

LEMMA LogGrows == StorageTypeOK /\ WriterStep => DOMAIN log \subseteq DOMAIN log'
<1> SUFFICES ASSUME StorageTypeOK, WriterStep PROVE DOMAIN log \subseteq DOMAIN log'
  OBVIOUS
<1>1. log \in Seq([call : Calls, state : {"running", "returned", "failed"}])
  BY DEF StorageTypeOK
<1>2. CASE BeginWrite
  BY <1>1, <1>2 DEF BeginWrite
<1>3. CASE UNCHANGED log
  BY <1>3
<1>4. CASE Return \/ Fail
  BY <1>4 DEF Return, Fail
<1> QED
  BY <1>2, <1>3, <1>4 DEF WriterStep, OpenFile, CloseFile

(* No file is ever removed.                                                 *)
LEMMA PresentGrows ==
  ASSUME StorageInv, WriterStep, NEW f \in Present
  PROVE  f \in Present'
<1>0. StorageTypeOK /\ Progress /\ f \in Files /\ disk[f].write # 0
  BY DEF StorageInv, Present
<1>1. disk \in [Files -> [write : 0 .. Writer, closed : BOOLEAN]] /\ Writer \in Nat
  BY <1>0, WriterType DEF StorageTypeOK
<1>2. ASSUME NEW g \in todo, OpenFile(g)
      PROVE  disk'[f].write # 0
  <2>1. Writer # 0
    BY <1>0, <1>1
  <2>2. disk'[f] = disk[f] \/ disk'[f].write = Writer
    BY <1>0, <1>1, <1>2 DEF OpenFile
  <2> QED
    BY <1>0, <2>1, <2>2
<1>3. ASSUME NEW g \in open, CloseFile(g)
      PROVE  disk'[f].write # 0
  <2>1. disk'[f] = disk[f] \/ disk'[f] = [disk[f] EXCEPT !.closed = TRUE]
    BY <1>0, <1>1, <1>3 DEF CloseFile
  <2> QED
    BY <1>0, <1>1, <2>1
<1>4. UNCHANGED disk => disk'[f].write # 0
  BY <1>0
<1>5. disk'[f].write # 0
  BY <1>2, <1>3, <1>4 DEF WriterStep, BeginWrite, Return, Fail
<1> QED
  BY <1>0, <1>5 DEF Present

LEMMA HeldOf ==
  ASSUME NEW f \in Files
  PROVE  /\ ~Torn(f) => Held[f] = {Rows(f)}
         /\ \A v, w \in Held[f] : v = w
         /\ \A v, w \in Held'[f] : v = w
BY DEF Held

(* A step of the writer touches one file.                                   *)
LEMMA OneFileTouched ==
  ASSUME StorageInv, WriterStep
  PROVE  \/ disk' = disk
         \/ \E f \in Files : \A g \in Files \ {f} : disk'[g] = disk[g]
<1>1. todo \subseteq Files /\ open \subseteq Files
  BY DEF StorageInv, StorageTypeOK
<1>2. disk = [f \in Files |-> disk[f]]
  BY DEF StorageInv, StorageTypeOK
<1>3. ASSUME NEW f \in todo, OpenFile(f)
      PROVE  \A g \in Files \ {f} : disk'[g] = disk[g]
  BY <1>2, <1>3 DEF OpenFile
<1>4. ASSUME NEW f \in open, CloseFile(f)
      PROVE  \A g \in Files \ {f} : disk'[g] = disk[g]
  BY <1>2, <1>4 DEF CloseFile
<1> QED
  BY <1>1, <1>3, <1>4 DEF WriterStep, BeginWrite, Return, Fail

LEMMA HeldKept ==
  ASSUME StorageInv, WriterStep, NEW f \in Files, disk'[f] = disk[f]
  PROVE  Held'[f] = Held[f]
<1>1. Rows(f)' = Rows(f)
  BY UntouchedRows
<1>2. Torn(f)' <=> Torn(f)
  BY DEF Torn
<1> QED
  BY <1>1, <1>2 DEF Held

LEMMA HeldStep ==
  ASSUME StorageInv, WriterStep
  PROVE  \/ Held' = Held
         \/ \E f \in Files : \A g \in Files \ {f} : Held'[g] = Held[g]
<1>1. CASE disk' = disk
  <2>1. \A f \in Files : Held'[f] = Held[f]
    BY <1>1, HeldKept
  <2>2. Held = [f \in Files |-> Held[f]] /\ Held' = [f \in Files |-> Held'[f]]
    BY DEF Held
  <2> QED
    BY <2>1, <2>2
<1>2. CASE \E f \in Files : \A g \in Files \ {f} : disk'[g] = disk[g]
  BY <1>2, HeldKept
<1> QED
  BY <1>1, <1>2, OneFileTouched

LEMMA HeldStill == UNCHANGED storageVars => Held' = Held
BY DEF storageVars, Held, Torn, Rows, Version

(* No write moves a row that was read to another file.                      *)
LEMMA RowFileStays ==
  ASSUME StorageInv, WriterStep, NEW r, r.write \in DOMAIN log
  PROVE  RowFile(r)' = RowFile(r)
BY CallsStay DEF RowFile

LEMMA AbsentHolds ==
  ASSUME StorageInv, NEW f \in Files \ Present
  PROVE  {} \in Held[f]
<1>1. ~disk[f].closed /\ ~Torn(f)
  BY DEF StorageInv, DiskOfLog, Present, Torn
<1> QED
  BY <1>1 DEF Held, Rows, Version

(* What there was of a file in a version of its own: the rows of a write    *)
(* are no rows of another.                                                  *)
LEMMA VersionsDiffer ==
  ASSUME StorageInv, NEW f \in Files,
         NEW w \in DOMAIN log, f \in FilesOf(w), disk[f].write # w
  PROVE  Version(f, w) \notin Held[f]
<1>1. PICK k \in log[w].call.keys : f = FileOf(k, log[w].call.part)
  BY DEF FilesOf, Targets
<1>2. [key |-> k, write |-> w] \in Version(f, w)
  BY <1>1 DEF Version
<1>3. \A r \in Rows(f) : r.write = disk[f].write
  BY RowOfFile
<1>4. Version(f, w) # Rows(f)
  BY <1>2, <1>3
<1> QED
  BY <1>4 DEF Held

LEMMA RowsOfFile ==
  ASSUME StorageInv, NEW f \in Files
  PROVE  \A r \in Rows(f) : /\ r \in ReadRows /\ RowFile(r) = f
                            /\ r.write = disk[f].write /\ r.write \in DOMAIN log
                            /\ r.key \in log[r.write].call.keys
<1>1. \A r \in Rows(f) : r.key \in log[disk[f].write].call.keys
  BY DEF Rows, Version
<1> QED
  BY <1>1, RowOfFile DEF RowFile

LEMMA HeldTyped ==
  ASSUME StorageInv, NEW f \in Files
  PROVE  Held[f] \in SUBSET SUBSET ReadRows
BY RowOfFile DEF Held

LEMMA PresentWritten ==
  ASSUME StorageInv, NEW f \in Present
  PROVE  /\ f \in Files /\ disk[f].write \in DOMAIN log /\ f \in FilesOf(disk[f].write)
         /\ log[disk[f].write].call.by \in {"python", "rust"}
<1>1. StorageTypeOK /\ DiskOfLog
  BY DEF StorageInv
<1>2. f \in Files /\ disk[f].write # 0 /\ f \in FilesOf(disk[f].write)
  BY <1>1 DEF Present, DiskOfLog
<1>3. disk[f].write \in DOMAIN log
  BY <1>1, <1>2, WriterType DEF StorageTypeOK
<1> QED
  BY <1>1, <1>2, <1>3, WriterType, StorageAssumption

LEMMA FilledRows ==
  ASSUME StorageInv, NEW f \in Present, ~Torn(f)
  PROVE  /\ Rows(f) = Version(f, disk[f].write) /\ Held[f] = {Rows(f)}
         /\ disk[f] = [write |-> disk[f].write, closed |-> TRUE]
<1>1. f \in Files /\ disk[f].closed
  BY DEF Torn, Present
<1>2. disk[f] \in [write : 0 .. Writer, closed : BOOLEAN]
  BY <1>1 DEF StorageInv, StorageTypeOK
<1> QED
  BY <1>1, <1>2, HeldOf DEF Rows

------------------------------------------------------------------------------
(* A read of the store: JobInv, of any read j and any versions s.           *)

Covers(s) ==
  /\ s \in [Files -> SUBSET SUBSET ReadRows]
  /\ \A f \in Files : Held[f] \subseteq s[f]

ThroughOf(j, f) ==
  /\ f \notin j.files \cup j.missed \cup j.blends
  /\ \A ft \in j.footers : ft.file # f

HadOf(s, f, w) == f \in FilesOf(w) /\ Version(f, w) \in s[f]

FooterOk(j, s, ft) ==
  /\ ft.file \in j.asked \ (j.files \cup j.missed \cup j.blends)
  /\ ft.write \in DOMAIN log /\ HadOf(s, ft.file, ft.write)
  /\ disk[ft.file].write > ft.write \/ ~Stale(ft)
  /\ \A fu \in j.footers : fu.file = ft.file => fu = ft

BlendOk(j, s, f) ==
  f \in j.asked /\ \E w \in DOMAIN log : HadOf(s, f, w) /\ disk[f].write > w

RowOk(j, r) ==
  /\ r.write \in DOMAIN log /\ r.key \in log[r.write].call.keys
  /\ RowFile(r) \in j.asked /\ ThroughOf(j, RowFile(r))

Good(j, s) ==
  /\ j \in Jobs /\ Covers(s)
  /\ j.first \subseteq Present
  /\ j.files \subseteq Present \cap j.asked
  /\ j.files \cap (j.missed \cup j.blends) = {}
  /\ \A ft \in j.footers : FooterOk(j, s, ft)
  /\ \A f \in j.blends : BlendOk(j, s, f)
  /\ \A r \in j.rows : RowOk(j, r)
  /\ \A f \in j.asked : ThroughOf(j, f) => OfFile(j.rows, f) \in s[f]

LEMMA JobInvGood == JobInv <=> Good(job, since)
BY DEF JobInv, Good, Covers, FooterOk, BlendOk, RowOk, ThroughOf, Through, HadOf, HadSince

(* With the store untouched, it is enough to look at the read.              *)
LEMMA GoodStill ==
  ASSUME UNCHANGED storageVars, Good(job', since')
  PROVE  JobInv'
<1>1. disk' = disk /\ log' = log
  BY DEF storageVars
<1>2. Held' = Held /\ Present' = Present
  BY HeldStill DEF storageVars, Present
<1>3. \A ft : Stale(ft)' <=> Stale(ft)
  BY <1>1 DEF Stale
<1>4. \A f, w : HadSince(f, w)' <=> HadOf(since', f, w)
  BY <1>1 DEF HadSince, HadOf, FilesOf, Version
<1>5. \A r : RowFile(r)' = RowFile(r)
  BY <1>1 DEF RowFile
<1>6. \A f : Through(f)' <=> ThroughOf(job', f)
  BY DEF Through, ThroughOf
<1>7. \A f : OfFile(job.rows, f)' = OfFile(job'.rows, f)
  BY <1>5 DEF OfFile
<1>8. \A ft \in job'.footers :
        /\ ft.file \in job'.asked \ (job'.files \cup job'.missed \cup job'.blends)
        /\ ft.write \in DOMAIN log' /\ HadSince(ft.file, ft.write)'
        /\ disk'[ft.file].write > ft.write \/ ~Stale(ft)'
        /\ \A fu \in job'.footers : fu.file = ft.file => fu = ft
  BY <1>1, <1>3, <1>4 DEF Good, FooterOk
<1>9. \A f \in job'.blends :
        f \in job'.asked /\ \E w \in DOMAIN log' : HadSince(f, w)' /\ disk'[f].write > w
  BY <1>1, <1>4 DEF Good, BlendOk
<1>10. \A r \in job'.rows :
         /\ r.write \in DOMAIN log' /\ r.key \in log'[r.write].call.keys
         /\ RowFile(r)' \in job'.asked /\ Through(RowFile(r))'
  BY <1>1, <1>5, <1>6 DEF Good, RowOk
<1>11. \A f \in job'.asked : Through(f)' => OfFile(job.rows, f)' \in since'[f]
  BY <1>6, <1>7 DEF Good
<1>12. /\ job' \in Jobs' /\ since' \in [Files -> SUBSET SUBSET ReadRows]
       /\ \A f \in Files : Held'[f] \subseteq since'[f]
       /\ job'.first \subseteq Present'
       /\ job'.files \subseteq Present' \cap job'.asked
       /\ job'.files \cap (job'.missed \cup job'.blends) = {}
  BY <1>2 DEF Good, Covers, Jobs, Footers
<1> QED
  BY <1>8, <1>9, <1>10, <1>11, <1>12 DEF JobInv

LEMMA NoJobGood ==
  ASSUME NEW s, Covers(s)
  PROVE  Good(NoJob, s)
BY DEF Good, NoJob, Jobs

LEMMA HeldCovers ==
  ASSUME StorageInv
  PROVE  Covers(Held)
<1>1. Held = [f \in Files |-> Held[f]]
  BY DEF Held
<1> QED
  BY <1>1, HeldTyped DEF Covers

(* Every file of a listing is there; the others have no rows.               *)
LEMMA ListGood ==
  ASSUME StorageInv, NEW s, Covers(s), NEW asked \in SUBSET Files, List(asked)
  PROVE  Good(job', s) /\ job'.asked = asked /\ job'.missed = {} /\ job'.footers = {}
<1>1. /\ job'.asked = asked /\ job'.files = Present \cap asked
      /\ job'.footers = {} /\ job'.missed = {} /\ job'.blends = {} /\ job'.rows = {}
      /\ job'.first = {f \in Present : First(f)}
  BY DEF List, NoJob
<1>2. job' \in Jobs
  BY DEF List, NoJob, Jobs, Present
<1>3. \A f \in asked \ Present : {} \in s[f]
  BY AbsentHolds DEF Covers
<1>4. \A f \in asked : ThroughOf(job', f) => OfFile(job'.rows, f) \in s[f]
  BY <1>1, <1>3 DEF ThroughOf, OfFile
<1> QED
  BY <1>1, <1>2, <1>4 DEF Good

(* Footers are taken of files that are listed, or that the read is through  *)
(* with and has no rows of.                                                 *)
LEMMA FootersGood ==
  ASSUME StorageInv, NEW s, Good(job, s), NEW K \in SUBSET (Present \cap job.asked),
         \A f \in K : /\ ~Torn(f)
                      /\ f \in job.files \/ (ThroughOf(job, f) /\ OfFile(job.rows, f) = {}),
         job' = [job EXCEPT !.files = @ \ K, !.footers = @ \cup {FooterOf(f) : f \in K}]
  PROVE  Good(job', s) /\ job'.asked = job.asked /\ job'.missed = job.missed
<1>1. job \in Jobs
  BY DEF Good
<1>2. /\ job'.asked = job.asked /\ job'.files = job.files \ K /\ job'.missed = job.missed
      /\ job'.footers = job.footers \cup {FooterOf(f) : f \in K} /\ job'.blends = job.blends
      /\ job'.rows = job.rows /\ job'.first = job.first
  BY <1>1 DEF Jobs
<1>3. \A f \in K : /\ f \in Files /\ f \notin job.missed \cup job.blends
                   /\ \A ft \in job.footers : ft.file # f
                   /\ \A r \in job.rows : RowFile(r) # f
  BY DEF Good, ThroughOf, FooterOk, RowOk, OfFile, Present
<1>4. \A f \in K : FooterOf(f).file = f /\ FooterOf(f).write = disk[f].write
  BY DEF FooterOf
<1>5. \A f \in Files : ThroughOf(job', f) <=> ThroughOf(job, f) /\ f \notin K
  BY <1>2, <1>3, <1>4 DEF ThroughOf
<1>6. job' \in Jobs
  <2>1. \A f \in K : FooterOf(f) \in Footers
    <3> SUFFICES ASSUME NEW f \in K PROVE FooterOf(f) \in Footers
      OBVIOUS
    <3>1. disk[f].write \in Nat /\ f \in Files
      BY PresentWritten, WriterType DEF StorageInv
    <3> QED
      BY <3>1 DEF FooterOf, Footers
  <2> QED
    BY <1>1, <1>2, <2>1 DEF Jobs
<1>7. ASSUME NEW ft \in job'.footers
      PROVE  FooterOk(job', s, ft)
  <2>1. CASE ft \in job.footers
    <3>1. FooterOk(job, s, ft)
      BY <2>1 DEF Good
    <3>2. \A f \in K : f # ft.file
      BY <1>3, <2>1
    <3> QED
      BY <1>2, <1>4, <3>1, <3>2 DEF FooterOk
  <2>2. ASSUME NEW f \in K, ft = FooterOf(f)
        PROVE  FooterOk(job', s, ft)
    <3>1. /\ disk[f].write \in DOMAIN log /\ f \in FilesOf(disk[f].write)
          /\ Held[f] = {Version(f, disk[f].write)}
          /\ disk[f] = [write |-> disk[f].write, closed |-> TRUE]
      BY PresentWritten, FilledRows
    <3>2. ~Stale(ft)
      BY <2>2, <1>4, <3>1 DEF Stale
    <3>3. HadOf(s, f, disk[f].write)
      BY <1>3, <3>1 DEF HadOf, Good, Covers
    <3>4. \A fu \in job'.footers : fu.file = f => fu = ft
      BY <1>2, <1>3, <1>4, <2>2
    <3> QED
      BY <1>2, <1>3, <1>4, <2>2, <3>1, <3>2, <3>3, <3>4 DEF FooterOk
  <2> QED
    BY <1>2, <2>1, <2>2
<1>8. \A r \in job'.rows : RowOk(job', r)
  <2> SUFFICES ASSUME NEW r \in job.rows PROVE RowOk(job', r)
    BY <1>2
  <2>1. RowOk(job, r) /\ RowFile(r) \notin K
    BY <1>3 DEF Good
  <2>2. RowFile(r) \in Files
    BY <1>1, <2>1 DEF RowOk, Jobs
  <2> QED
    BY <1>2, <1>5, <2>1, <2>2 DEF RowOk
<1>9. \A f \in job'.blends : BlendOk(job', s, f)
  BY <1>2 DEF Good, BlendOk
<1>10. \A f \in job'.asked : ThroughOf(job', f) => OfFile(job'.rows, f) \in s[f]
  <2>1. \A f \in job.asked : f \in Files
    BY <1>1 DEF Jobs
  <2> QED
    BY <1>2, <1>5, <2>1 DEF Good
<1> QED
  BY <1>2, <1>6, <1>7, <1>8, <1>9, <1>10 DEF Good

LEMMA SchemaGood ==
  ASSUME StorageInv, NEW s, Good(job, s), Schema
  PROVE  Good(job', s) /\ job'.asked = job.asked /\ job'.missed = job.missed
<1>1. PICK K \in SUBSET {f \in job.first \cap job.files : ~Torn(f)} :
        job' = [job EXCEPT !.files = @ \ K,
                           !.footers = @ \cup {FooterOf(f) : f \in K}]
  BY DEF Schema
<1>2. K \in SUBSET (Present \cap job.asked) /\ \A f \in K : ~Torn(f) /\ f \in job.files
  BY DEF Good
<1> QED
  BY <1>1, <1>2, FootersGood

LEMMA ReadFooterGood ==
  ASSUME StorageInv, NEW s, Good(job, s), NEW f \in Present \cap job.asked,
         f \in job.files \/ (ThroughOf(job, f) /\ OfFile(job.rows, f) = {}), ReadFooter(f)
  PROVE  Good(job', s) /\ job'.asked = job.asked /\ job'.missed = job.missed
<1>1. PICK K : K = {f}
  OBVIOUS
<1>2. ~Torn(f) /\ job' = [job EXCEPT !.files = @ \ {f}, !.footers = @ \cup {FooterOf(f)}]
  BY DEF ReadFooter
<1>3. {FooterOf(g) : g \in K} = {FooterOf(f)}
  BY <1>1
<1>4. job' = [job EXCEPT !.files = @ \ K, !.footers = @ \cup {FooterOf(g) : g \in K}]
  BY <1>1, <1>2, <1>3
<1>5. K \in SUBSET (Present \cap job.asked)
  BY <1>1
<1>6. \A g \in K : /\ ~Torn(g)
                   /\ g \in job.files \/ (ThroughOf(job, g) /\ OfFile(job.rows, g) = {})
  BY <1>1, <1>2
<1> QED
  BY <1>4, <1>5, <1>6, FootersGood

(* The pages are those of the footer, or the file was written since.        *)
LEMMA ReadPagesGood ==
  ASSUME StorageInv, NEW s, Good(job, s), NEW ft \in job.footers, ReadPages(ft)
  PROVE  Good(job', s) /\ job'.asked = job.asked /\ job'.missed = job.missed
<1>1. job \in Jobs /\ FooterOk(job, s, ft)
  BY DEF Good
<1>2. PICK f : f = ft.file
  OBVIOUS
<1>3. /\ f \in job.asked /\ f \in Files /\ f \notin job.files /\ f \notin job.missed
      /\ f \notin job.blends
  BY <1>1, <1>2 DEF FooterOk, Jobs
<1>4. \A fu \in job.footers : fu.file = f => fu = ft
  BY <1>1, <1>2 DEF FooterOk
<1>5. \A r \in job.rows : RowFile(r) # f
  BY <1>2 DEF Good, RowOk, ThroughOf
<1>6. CASE Stale(ft)
  <2>1. /\ job'.asked = job.asked /\ job'.files = job.files /\ job'.missed = job.missed
        /\ job'.footers = job.footers \ {ft} /\ job'.blends = job.blends \cup {f}
        /\ job'.rows = job.rows /\ job'.first = job.first
    BY <1>1, <1>2, <1>6 DEF ReadPages, Jobs
  <2>2. job' \in Jobs
    BY <1>1, <1>2, <1>3, <1>6 DEF ReadPages, Jobs
  <2>3. \A g : ThroughOf(job', g) <=> ThroughOf(job, g) /\ g # f
    BY <1>2, <1>4, <2>1 DEF ThroughOf
  <2>4. \A fu \in job'.footers : FooterOk(job', s, fu)
    <3> SUFFICES ASSUME NEW fu \in job'.footers PROVE FooterOk(job', s, fu)
      OBVIOUS
    <3>1. fu \in job.footers /\ FooterOk(job, s, fu) /\ fu.file # f
      BY <1>4, <2>1 DEF Good
    <3> QED
      BY <2>1, <3>1 DEF FooterOk
  <2>5. \A g \in job'.blends : BlendOk(job', s, g)
    <3>1. BlendOk(job', s, f)
      BY <1>1, <1>2, <1>6, <2>1 DEF FooterOk, BlendOk
    <3> QED
      BY <2>1, <3>1 DEF Good, BlendOk
  <2>6. \A r \in job'.rows : RowOk(job', r)
    BY <1>5, <2>1, <2>3 DEF Good, RowOk
  <2>7. \A g \in job'.asked : ThroughOf(job', g) => OfFile(job'.rows, g) \in s[g]
    BY <2>1, <2>3 DEF Good
  <2> QED
    BY <1>3, <2>1, <2>2, <2>4, <2>5, <2>6, <2>7 DEF Good
<1>7. CASE ~Stale(ft)
  <2>1. /\ job'.asked = job.asked /\ job'.files = job.files /\ job'.missed = job.missed
        /\ job'.footers = job.footers \ {ft} /\ job'.blends = job.blends
        /\ job'.rows = job.rows \cup Rows(f) /\ job'.first = job.first
    BY <1>1, <1>2, <1>7 DEF ReadPages, Jobs
  <2>2. \A r \in Rows(f) : /\ r \in ReadRows /\ RowFile(r) = f /\ r.write \in DOMAIN log
                           /\ r.key \in log[r.write].call.keys
    BY <1>3, RowsOfFile
  <2>3. job' \in Jobs
    BY <1>1, <1>2, <1>7, <2>2 DEF ReadPages, Jobs
  <2>4. \A g : ThroughOf(job', g) <=> ThroughOf(job, g) \/ g = f
    BY <1>2, <1>3, <1>4, <2>1 DEF ThroughOf
  <2>5. \A fu \in job'.footers : FooterOk(job', s, fu)
    BY <2>1 DEF Good, FooterOk
  <2>6. \A g \in job'.blends : BlendOk(job', s, g)
    BY <2>1 DEF Good, BlendOk
  <2>7. \A r \in job'.rows : RowOk(job', r)
    BY <1>3, <2>1, <2>2, <2>4 DEF Good, RowOk
  <2>8. ASSUME NEW g \in job'.asked, ThroughOf(job', g)
        PROVE  OfFile(job'.rows, g) \in s[g]
    <3>1. CASE g = f
      <4>1. disk[f].closed /\ disk[f].write = ft.write
        BY <1>2, <1>7 DEF Stale
      <4>2. Rows(f) = Version(f, ft.write)
        BY <4>1 DEF Rows
      <4>3. OfFile(job'.rows, f) = Rows(f)
        BY <1>5, <2>1, <2>2 DEF OfFile
      <4> QED
        BY <1>1, <1>2, <3>1, <4>2, <4>3 DEF FooterOk, HadOf
    <3>2. CASE g # f
      <4>1. OfFile(job'.rows, g) = OfFile(job.rows, g)
        BY <2>1, <2>2, <3>2 DEF OfFile
      <4> QED
        BY <2>1, <2>4, <2>8, <3>2, <4>1 DEF Good
    <3> QED
      BY <3>1, <3>2
  <2> QED
    BY <2>1, <2>3, <2>5, <2>6, <2>7, <2>8 DEF Good
<1> QED
  BY <1>6, <1>7

(* A file that the walk fails on is left out.                               *)
LEMMA SkipGood ==
  ASSUME StorageInv, NEW s, Good(job, s), NEW f \in job.files,
         job' = [job EXCEPT !.files = @ \ {f}, !.missed = @ \cup {f}]
  PROVE  Good(job', s) /\ job'.asked = job.asked
<1>1. job \in Jobs /\ f \in Files
  BY DEF Good, Jobs
<1>2. /\ job'.asked = job.asked /\ job'.files = job.files \ {f}
      /\ job'.missed = job.missed \cup {f} /\ job'.footers = job.footers
      /\ job'.blends = job.blends /\ job'.rows = job.rows /\ job'.first = job.first
  BY <1>1 DEF Jobs
<1>3. job' \in Jobs
  BY <1>1 DEF Jobs
<1>4. \A g : ThroughOf(job', g) <=> ThroughOf(job, g)
  BY <1>2 DEF ThroughOf
<1>5. \A ft \in job'.footers : FooterOk(job', s, ft)
  BY <1>2 DEF Good, FooterOk
<1>6. \A g \in job'.blends : BlendOk(job', s, g)
  BY <1>2 DEF Good, BlendOk
<1>7. \A r \in job'.rows : RowOk(job', r)
  BY <1>2, <1>4 DEF Good, RowOk
<1>8. \A g \in job'.asked : ThroughOf(job', g) => OfFile(job'.rows, g) \in s[g]
  BY <1>2, <1>4 DEF Good
<1>9. job'.files \cap (job'.missed \cup job'.blends) = {}
  BY <1>2 DEF Good
<1> QED
  BY <1>2, <1>3, <1>5, <1>6, <1>7, <1>8, <1>9 DEF Good

(* A step of a writer opens a file, which then is of the running write and  *)
(* of no earlier one, or closes one it has opened.                          *)
LEMMA WriteTouches ==
  ASSUME StorageInv, WriterStep, NEW f \in Files
  PROVE  \/ disk'[f] = disk[f]
         \/ disk'[f].write > disk[f].write
         \/ disk'[f].write = disk[f].write /\ ~disk[f].closed
<1>0. StorageTypeOK /\ Progress
  BY DEF StorageInv
<1>1. disk \in [Files -> [write : 0 .. Writer, closed : BOOLEAN]]
  BY <1>0 DEF StorageTypeOK
<1>2. ASSUME NEW g \in todo, OpenFile(g)
      PROVE  disk'[f] = disk[f] \/ disk'[f].write > disk[f].write
  <2>1. disk[g].write < Writer
    BY <1>0 DEF Progress
  <2>2. CASE f = g
    BY <1>1, <1>2, <2>1, <2>2 DEF OpenFile
  <2>3. CASE f # g
    BY <1>1, <1>2, <2>3 DEF OpenFile
  <2> QED
    BY <2>2, <2>3
<1>3. ASSUME NEW g \in open, CloseFile(g)
      PROVE  disk'[f] = disk[f] \/ (disk'[f].write = disk[f].write /\ ~disk[f].closed)
  <2>1. ~disk[g].closed
    <3>1. Writing /\ g \in FilesOf(Writer) \ todo
      BY <1>0 DEF Progress
    <3>2. disk[g] = [write |-> Writer, closed |-> g \notin open]
      BY <1>0, <3>1 DEF Progress
    <3>3. (g \notin open) = FALSE
      OBVIOUS
    <3>4. disk[g] = [write |-> Writer, closed |-> FALSE]
      BY <3>2, <3>3
    <3> QED
      BY <3>4
  <2>2. CASE f = g
    BY <1>1, <1>3, <2>1, <2>2 DEF CloseFile
  <2>3. CASE f # g
    BY <1>1, <1>3, <2>3 DEF CloseFile
  <2> QED
    BY <2>2, <2>3
<1> QED
  BY <1>2, <1>3 DEF WriterStep, BeginWrite, Return, Fail

HeldOk == \A f \in Files : Held[f] \in SUBSET SUBSET ReadRows

LEMMA HeldOkNow == StorageInv => HeldOk
BY HeldTyped DEF HeldOk

LEMMA HeldOkNext == StorageInv' => HeldOk'
BY HeldOkNow, PTL

(* A write beside a read.                                                   *)
LEMMA WriteGood ==
  ASSUME StorageInv, JobInv, Write, job' = job
  PROVE  StorageInv' /\ JobInv'
<1>0. Good(job, since) /\ WriterStep
  BY JobInvGood DEF Write
<1>1. StorageInv'
  BY <1>0, WriterStepInv
<1>2. since' = [f \in Files |-> since[f] \cup Held'[f]]
  BY DEF Write
<1>3. DOMAIN log \subseteq DOMAIN log' /\ \A w \in DOMAIN log : log'[w].call = log[w].call
  BY <1>0, LogGrows, CallsStay DEF StorageInv
<1>4. Present \subseteq Present'
  BY <1>0, PresentGrows
<1>5. \A f, w : w \in DOMAIN log => Version(f, w)' = Version(f, w) /\ FilesOf(w)' = FilesOf(w)
  BY <1>3 DEF Version, FilesOf
<1>6. \A f \in Files : since[f] \subseteq since'[f] /\ Held'[f] \subseteq since'[f]
  BY <1>2
<1>7. since' \in [Files -> SUBSET SUBSET ReadRows]
  <2>1. \A f \in Files : Held'[f] \in SUBSET SUBSET ReadRows
    BY <1>1, HeldOkNext DEF HeldOk, ReadRows
  <2> QED
    BY <1>0, <1>2, <2>1 DEF Good, Covers
<1>8. \A f, w : f \in Files /\ w \in DOMAIN log /\ HadSince(f, w) => HadSince(f, w)'
  BY <1>5, <1>6 DEF HadSince
<1>9. \A f : Through(f)' <=> Through(f)
  BY DEF Through
<1>10. \A r \in job.rows : RowFile(r)' = RowFile(r)
  BY <1>3 DEF JobInv, RowFile
<1>11. \A f : OfFile(job.rows, f)' = OfFile(job.rows, f)
  BY <1>10 DEF OfFile
<1>12. \A f \in Files, w \in DOMAIN log : disk[f].write > w => disk'[f].write > w
  <2> SUFFICES ASSUME NEW f \in Files, NEW w \in DOMAIN log, disk[f].write > w
               PROVE  disk'[f].write > w
    OBVIOUS
  <2>1. disk[f].write \in Nat /\ disk'[f].write \in Nat /\ w \in Nat
    BY <1>1, WriterType DEF StorageInv, StorageTypeOK
  <2> QED
    BY <1>0, <2>1, WriteTouches
<1>13. ASSUME NEW ft \in job.footers
       PROVE  /\ ft.file \in job.asked \ (job.files \cup job.missed \cup job.blends)
              /\ ft.write \in DOMAIN log' /\ HadSince(ft.file, ft.write)'
              /\ disk'[ft.file].write > ft.write \/ ~Stale(ft)'
              /\ \A fu \in job.footers : fu.file = ft.file => fu = ft
  <2>1. /\ ft.file \in job.asked \ (job.files \cup job.missed \cup job.blends)
        /\ ft.write \in DOMAIN log /\ HadSince(ft.file, ft.write)
        /\ disk[ft.file].write > ft.write \/ ~Stale(ft)
        /\ \A fu \in job.footers : fu.file = ft.file => fu = ft
    BY DEF JobInv
  <2>2. ft.file \in Files
    BY <2>1 DEF JobInv, Jobs
  <2>3. CASE ~Stale(ft)
    <3>1. disk[ft.file].write = ft.write /\ disk[ft.file].closed
      BY <2>3 DEF Stale
    <3>2. disk'[ft.file] = disk[ft.file] \/ disk'[ft.file].write > ft.write
      BY <1>0, <2>2, <3>1, WriteTouches
    <3> QED
      BY <1>3, <1>8, <2>1, <2>2, <2>3, <3>2 DEF Stale
  <2> QED
    BY <1>3, <1>8, <1>12, <2>1, <2>2, <2>3
<1>14. \A f \in job.blends :
         f \in job.asked /\ \E w \in DOMAIN log' : HadSince(f, w)' /\ disk'[f].write > w
  <2> SUFFICES ASSUME NEW f \in job.blends
               PROVE  f \in job.asked /\ \E w \in DOMAIN log' : HadSince(f, w)' /\ disk'[f].write > w
    OBVIOUS
  <2>1. PICK w \in DOMAIN log : HadSince(f, w) /\ disk[f].write > w
    BY DEF JobInv
  <2>2. f \in job.asked /\ f \in Files
    BY DEF JobInv, Jobs
  <2> QED
    BY <1>3, <1>8, <1>12, <2>1, <2>2
<1>15. \A r \in job.rows :
         /\ r.write \in DOMAIN log' /\ r.key \in log'[r.write].call.keys
         /\ RowFile(r)' \in job.asked /\ Through(RowFile(r))'
  <2> SUFFICES ASSUME NEW r \in job.rows
               PROVE  /\ r.write \in DOMAIN log' /\ r.key \in log'[r.write].call.keys
                      /\ RowFile(r)' \in job.asked /\ Through(RowFile(r))'
    OBVIOUS
  <2>1. /\ r.write \in DOMAIN log /\ r.key \in log[r.write].call.keys
        /\ RowFile(r) \in job.asked /\ Through(RowFile(r))
    BY DEF JobInv
  <2>2. RowFile(r)' = RowFile(r)
    BY <1>10
  <2>3. Through(RowFile(r))' <=> Through(RowFile(r))
    BY <2>2 DEF Through
  <2> QED
    BY <1>3, <2>1, <2>2, <2>3
<1>16. \A f \in job.asked : Through(f)' => OfFile(job.rows, f)' \in since'[f]
  <2>1. \A f \in job.asked : f \in Files /\ (Through(f) => OfFile(job.rows, f) \in since[f])
    BY DEF JobInv, Jobs
  <2> QED
    BY <1>6, <1>9, <1>11, <2>1
<1>17. /\ job' \in Jobs' /\ job'.first \subseteq Present'
       /\ job'.files \subseteq Present' \cap job'.asked
       /\ job'.files \cap (job'.missed \cup job'.blends) = {}
  BY <1>0, <1>4 DEF Good, Jobs, Footers
<1>18. JobInv'
  BY <1>6, <1>7, <1>13, <1>14, <1>15, <1>16, <1>17 DEF JobInv
<1> QED
  BY <1>1, <1>18

(* A step that leaves the store alone, and the read or takes a good one.    *)
LEMMA StepGood ==
  ASSUME StorageInv, UNCHANGED storageVars, Good(job', since')
  PROVE  StorageInv' /\ JobInv'
BY StorageStutter, GoodStill

LEMMA JobInvFacts ==
  ASSUME StorageInv, JobInv
  PROVE  /\ Good(job, since) /\ Covers(since) /\ Good(NoJob, since)
         /\ Covers(Held) /\ Good(NoJob, Held)
<1>1. Good(job, since)
  BY JobInvGood
<1>2. Covers(since) /\ Covers(Held)
  BY <1>1, HeldCovers DEF Good
<1> QED
  BY <1>1, <1>2, NoJobGood

------------------------------------------------------------------------------
(* What a read has when nothing is left of it.                              *)

(* A blend is of a file that was written since the call began.              *)
LEMMA BlendsWritten ==
  ASSUME StorageInv, JobInv, NEW f \in job.blends
  PROVE  f \in Files /\ f \in job.asked /\ since[f] # Held[f]
<1>1. PICK w \in DOMAIN log : HadSince(f, w) /\ disk[f].write > w
  BY DEF JobInv
<1>2. f \in Files /\ f \in job.asked
  BY DEF JobInv, Jobs
<1>3. disk[f].write # w
  <2>1. w \in Nat
    BY WriterType DEF StorageInv
  <2> QED
    BY <1>1, <2>1
<1>4. Version(f, w) \in since[f] /\ f \in FilesOf(w)
  BY <1>1 DEF HadSince
<1>5. Version(f, w) \notin Held[f]
  BY <1>2, <1>3, <1>4, VersionsDiffer
<1> QED
  BY <1>2, <1>4, <1>5

(* Of a file that was not touched a read has just what there is.            *)
LEMMA SettledRead ==
  ASSUME StorageInv, JobInv, NEW f \in job.asked, since[f] = Held[f], Through(f)
  PROVE  ~Torn(f) /\ OfFile(job.rows, f) = Rows(f)
<1>1. f \in Files /\ OfFile(job.rows, f) \in Held[f]
  BY DEF JobInv, Jobs
<1> QED
  BY <1>1 DEF Held

LEMMA SettledOf ==
  ASSUME StorageInv, NEW r \in Settled
  PROVE  /\ RowFile(r) \in Files /\ since[RowFile(r)] = Held[RowFile(r)]
         /\ r \in Rows(RowFile(r))
         /\ r.write \in DOMAIN log /\ r.key \in log[r.write].call.keys
<1>1. PICK f \in Files : since[f] = Held[f] /\ r \in Rows(f)
  BY DEF Settled
<1> QED
  BY <1>1, RowsOfFile

LEMMA SettledIsRead ==
  ASSUME StorageInv, JobInv, AllRead, NEW r \in Settled, RowFile(r) \in job.asked
  PROVE  r \in job.rows \/ RowFile(r) \in job.missed
<1>1. PICK f : f = RowFile(r)
  OBVIOUS
<1>2. f \in job.asked /\ since[f] = Held[f] /\ r \in Rows(f)
  BY <1>1, SettledOf
<1>3. CASE f \notin job.missed
  <2>1. f \notin job.blends
    BY <1>2, BlendsWritten
  <2>2. Through(f)
    BY <1>3, <2>1 DEF Through, AllRead
  <2>3. OfFile(job.rows, f) = Rows(f)
    BY <1>2, <2>2, SettledRead
  <2> QED
    BY <1>2, <2>3 DEF OfFile
<1> QED
  BY <1>1, <1>3

(* A row that was read could be read at some moment since the call began,   *)
(* and is the settled row of its file, if there is one.                     *)
LEMMA RowsSince ==
  ASSUME StorageInv, JobInv, NEW r \in job.rows
  PROVE  /\ \E v \in since[RowFile(r)] : r \in v
         /\ \A q \in Settled : q.key = r.key /\ RowFile(q) = RowFile(r) => q = r
<1>1. PICK f : f = RowFile(r)
  OBVIOUS
<1>2. f \in job.asked /\ Through(f) /\ f \in Files
  BY <1>1 DEF JobInv, Jobs
<1>3. OfFile(job.rows, f) \in since[f] /\ r \in OfFile(job.rows, f)
  BY <1>1, <1>2 DEF JobInv, OfFile
<1>4. ASSUME NEW q \in Settled, q.key = r.key, RowFile(q) = f
      PROVE  q = r
  <2>1. since[f] = Held[f] /\ q \in Rows(f)
    BY <1>4, SettledOf
  <2>2. r \in Rows(f)
    BY <1>2, <1>3, <2>1, SettledRead
  <2>3. /\ q \in ReadRows /\ r \in ReadRows
        /\ q.write = disk[f].write /\ r.write = disk[f].write
    BY <1>2, <2>1, <2>2, RowOfFile
  <2> QED
    BY <1>4, <2>3 DEF ReadRows
<1> QED
  BY <1>1, <1>3, <1>4

------------------------------------------------------------------------------
(* The inductive invariant of the server.                                   *)

LEMMA JobInvInit == ReadsInit => StorageInv /\ JobInv
<1> SUFFICES ASSUME ReadsInit PROVE StorageInv /\ JobInv
  OBVIOUS
<1>1. StorageInv
  BY StorageInitInv DEF ReadsInit
<1>2. job = NoJob /\ since = Held
  BY DEF ReadsInit
<1>3. Good(job, since)
  BY <1>1, <1>2, HeldCovers, NoJobGood
<1> QED
  BY <1>1, <1>3, JobInvGood

LEMMA InvInit == Init => Inv
<1> SUFFICES ASSUME Init PROVE Inv
  OBVIOUS
<1>1. StorageInv /\ JobInv /\ job = NoJob
  BY JobInvInit DEF Init, ReadsInit
<1>2. TypeOK
  BY DEF Init, Idle, TypeOK, Tables, Handlers, Answers
<1>3. Asked = {} /\ handler.pc = "idle" /\ cache.rows = {}
  BY DEF Init, Idle, Asked
<1> QED
  BY <1>1, <1>2, <1>3 DEF Inv, NoJob

(* What the server does on its own leaves the store alone.                  *)
LEMMA ServerLeavesStore ==
  ASSUME Inv, UNCHANGED storageVars, TypeOK', Good(job', since'),
         job'.asked = Asked', job'.missed = {},
         handler'.pc \in {"idle", "lookup"} => job' = NoJob,
         handler'.pc \in {"bind", "scan"} => handler'.request # Health,
         handler'.pc = "listed" => job'.footers = {},
         cache'.rows \subseteq cache.rows \cup job.rows
  PROVE  Inv'
<1>1. StorageInv' /\ JobInv'
  BY StepGood DEF Inv
<1>2. \A r \in cache'.rows : r.write \in DOMAIN log
  BY DEF Inv, JobInv
<1>3. log' = log
  BY DEF storageVars
<1> QED
  BY <1>1, <1>2, <1>3 DEF Inv

LEMMA AskInv ==
  ASSUME Inv, NEW request \in Requests \cup {Health}, Ask(request)
  PROVE  Inv'
<1>1. /\ StorageInv /\ TypeOK /\ JobInv /\ job = NoJob
      /\ handler.pc = "idle" /\ since' = Held /\ UNCHANGED storageVars
      /\ cache' = cache /\ answer' = [code |-> 0, row |-> {}]
  BY DEF Inv, Ask, storageVars
<1>2. answer' \in Answers /\ handler \in Handlers
  BY <1>1 DEF TypeOK, Answers
<1>3. CASE /\ handler' = [handler EXCEPT !.pc = "lookup", !.request = request]
           /\ job' = job
  <2>1. handler' \in Handlers /\ handler'.pc = "lookup"
    BY <1>2, <1>3 DEF Handlers
  <2>2. Asked' = {} /\ job' = NoJob /\ NoJob.asked = {} /\ NoJob.missed = {}
    BY <1>1, <1>3, <2>1 DEF Asked, NoJob
  <2>3. Good(job', since')
    BY <1>1, <2>2, JobInvFacts
  <2>4. TypeOK'
    BY <1>1, <1>2, <2>1 DEF TypeOK
  <2> QED
    BY <1>1, <2>1, <2>2, <2>3, <2>4, ServerLeavesStore
<1>4. CASE /\ handler' = [handler EXCEPT !.pc = "listed", !.request = request]
           /\ List(Files)
  <2>1. handler' \in Handlers /\ handler'.pc = "listed"
    BY <1>2, <1>4 DEF Handlers
  <2>2. Good(job', Held) /\ job'.asked = Files /\ job'.missed = {} /\ job'.footers = {}
    BY <1>1, <1>4, HeldCovers, ListGood
  <2>3. Asked' = Files
    BY <2>1 DEF Asked
  <2>4. TypeOK'
    BY <1>1, <1>2, <2>1 DEF TypeOK
  <2>5. Good(job', since')
    BY <1>1, <2>2
  <2> QED
    BY <1>1, <2>1, <2>2, <2>3, <2>4, <2>5, ServerLeavesStore
<1> QED
  BY <1>3, <1>4 DEF Ask

(* The end of a load, with a table or without one.                          *)
LEMMA ToLookupInv ==
  ASSUME Inv, ToLookup, UNCHANGED storageVars, UNCHANGED <<answer, since>>,
         UNCHANGED cache \/ NewTable
  PROVE  Inv'
<1>1. StorageInv /\ JobInv /\ handler \in Handlers /\ cache \in Tables /\ answer \in Answers
  BY DEF Inv, TypeOK
<1>2. job' = NoJob /\ handler' = [handler EXCEPT !.pc = "lookup"]
  BY DEF ToLookup
<1>3. handler' \in Handlers /\ handler'.pc = "lookup"
  BY <1>1, <1>2 DEF Handlers
<1>4. Asked' = {} /\ NoJob.asked = {} /\ NoJob.missed = {}
  BY <1>3 DEF Asked, NoJob
<1>5. cache' \in Tables /\ cache'.rows \subseteq cache.rows \cup job.rows
  <2>1. CASE UNCHANGED cache
    BY <1>1, <2>1
  <2>2. CASE NewTable
    <3>1. job.rows \in SUBSET ReadRows /\ job.blends \in SUBSET Files
      BY <1>1 DEF JobInv, Jobs
    <3>2. cache' = [loaded |-> TRUE, fresh |-> TRUE, rows |-> job.rows, blends |-> job.blends]
      BY <2>2 DEF NewTable
    <3> QED
      BY <3>1, <3>2 DEF Tables
  <2> QED
    BY <2>1, <2>2
<1>6. TypeOK'
  BY <1>1, <1>3, <1>5 DEF TypeOK
<1>7. Good(job', since')
  BY <1>1, <1>2, JobInvFacts
<1> QED
  BY <1>2, <1>3, <1>4, <1>5, <1>6, <1>7, ServerLeavesStore

LEMMA ReplyInv ==
  ASSUME Inv, UNCHANGED storageVars, UNCHANGED <<cache, since>>,
         NEW c \in {200, 404, 500}, NEW row \in SUBSET ReadRows, Reply(c, row)
  PROVE  Inv'
<1>1. StorageInv /\ JobInv /\ cache \in Tables
  BY DEF Inv, TypeOK
<1>2. handler' = Idle /\ answer' = [code |-> c, row |-> row] /\ job' = NoJob
  BY DEF Reply
<1>3. handler' \in Handlers /\ handler'.pc = "idle" /\ answer' \in Answers
  BY <1>2 DEF Idle, Handlers, Answers
<1>4. Asked' = {} /\ NoJob.asked = {} /\ NoJob.missed = {}
  BY <1>3 DEF Asked, NoJob
<1>5. TypeOK'
  BY <1>1, <1>3 DEF TypeOK
<1>6. Good(job', since')
  BY <1>1, <1>2, JobInvFacts
<1> QED
  BY <1>2, <1>3, <1>4, <1>5, <1>6, ServerLeavesStore

(* A step of the read itself, of the table or of the scan.                  *)
LEMMA ReadStepInv ==
  ASSUME Inv, UNCHANGED storageVars, UNCHANGED <<serverVars, since>>,
         handler.pc \in {"load", "scan"}, Good(job', since),
         job'.asked = job.asked, job'.missed = job.missed
  PROVE  Inv'
<1>1. cache' = cache /\ handler' = handler /\ answer' = answer /\ since' = since
  BY DEF serverVars
<1>2. TypeOK' /\ Asked' = Asked
  BY <1>1 DEF Inv, TypeOK, Asked
<1>3. handler'.pc \notin {"idle", "lookup", "listed"}
  BY <1>1
<1>4. job.asked = Asked /\ job.missed = {}
      /\ (handler.pc \in {"bind", "scan"} => handler.request # Health)
  BY DEF Inv
<1>5. Good(job', since')
  BY <1>1
<1> QED
  BY <1>1, <1>2, <1>3, <1>4, <1>5, ServerLeavesStore

LEMMA StartLoadInv == Inv /\ StartLoad => Inv'
<1> SUFFICES ASSUME Inv, StartLoad PROVE Inv'
  OBVIOUS
<1>1. /\ StorageInv /\ JobInv /\ handler \in Handlers /\ job.asked = Asked /\ job.missed = {}
      /\ handler.pc = "listed" /\ Schema /\ handler' = [handler EXCEPT !.pc = "load"]
      /\ cache' = cache /\ answer' = answer /\ since' = since /\ UNCHANGED storageVars
  BY DEF Inv, TypeOK, StartLoad, storageVars
<1>2. handler' \in Handlers /\ handler'.pc = "load"
  BY <1>1 DEF Handlers
<1>3. Asked' = Asked
  BY <1>1, <1>2 DEF Asked
<1>4. Good(job, since)
  BY <1>1, JobInvFacts
<1>5. Good(job', since) /\ job'.asked = job.asked /\ job'.missed = job.missed
  BY <1>1, <1>4, SchemaGood
<1>6. TypeOK' /\ Good(job', since')
  BY <1>1, <1>2, <1>5 DEF Inv, TypeOK
<1> QED
  BY <1>1, <1>2, <1>3, <1>5, <1>6, ServerLeavesStore

LEMMA ServerOpensInv ==
  ASSUME Inv, NEW f \in job.files, ServerOpens(f)
  PROVE  Inv'
<1>1. /\ StorageInv /\ JobInv /\ handler.pc \in {"load", "scan"} /\ ReadFooter(f)
      /\ UNCHANGED <<serverVars, since>> /\ UNCHANGED storageVars
  BY DEF Inv, ServerOpens, storageVars
<1>2. Good(job, since) /\ f \in Present \cap job.asked
  BY <1>1, JobInvFacts DEF JobInv
<1>3. Good(job', since) /\ job'.asked = job.asked /\ job'.missed = job.missed
  BY <1>1, <1>2, ReadFooterGood
<1> QED
  BY <1>1, <1>3, ReadStepInv

LEMMA ServerReadsInv ==
  ASSUME Inv, NEW ft \in job.footers, ServerReads(ft)
  PROVE  Inv'
<1>1. /\ StorageInv /\ JobInv /\ handler.pc \in {"load", "scan"} /\ ReadPages(ft)
      /\ UNCHANGED <<serverVars, since>> /\ UNCHANGED storageVars
  BY DEF Inv, ServerReads, storageVars
<1>2. Good(job, since)
  BY <1>1, JobInvFacts
<1>3. Good(job', since) /\ job'.asked = job.asked /\ job'.missed = job.missed
  BY <1>1, <1>2, ReadPagesGood
<1> QED
  BY <1>1, <1>3, ReadStepInv

LEMMA LookupInv == Inv /\ Lookup => Inv'
<1> SUFFICES ASSUME Inv, Lookup PROVE Inv'
  OBVIOUS
<1>1. UNCHANGED storageVars /\ UNCHANGED <<cache, since>>
  BY DEF Lookup, storageVars
<1>2. CASE Reply(200, {}) \/ Reply(500, {})
  BY <1>1, <1>2, ReplyInv
<1>3. CASE /\ handler.request # Health
           /\ List({f \in Files : f.symbol = handler.request.symbol})
           /\ handler' = [handler EXCEPT !.pc = "bind"]
           /\ UNCHANGED answer
  <2>1. StorageInv /\ JobInv /\ TypeOK /\ handler \in Handlers
    BY DEF Inv, TypeOK
  <2>2. handler' \in Handlers /\ handler'.pc = "bind" /\ handler'.request = handler.request
    BY <1>3, <2>1 DEF Handlers
  <2>3. Asked' = {f \in Files : f.symbol = handler.request.symbol}
    BY <2>2 DEF Asked
  <2>4. Covers(since) /\ {f \in Files : f.symbol = handler.request.symbol} \in SUBSET Files
    BY <2>1, JobInvFacts
  <2>5. /\ Good(job', since) /\ job'.missed = {}
        /\ job'.asked = {f \in Files : f.symbol = handler.request.symbol}
    BY <1>3, <2>1, <2>4, ListGood
  <2>6. TypeOK' /\ Good(job', since')
    BY <1>1, <1>3, <2>1, <2>2, <2>5 DEF TypeOK
  <2> QED
    BY <1>1, <1>3, <2>2, <2>3, <2>5, <2>6, ServerLeavesStore
<1> QED
  BY <1>2, <1>3 DEF Lookup, AnswerCached

LEMMA BindInv == Inv /\ Bind => Inv'
<1> SUFFICES ASSUME Inv, Bind PROVE Inv'
  OBVIOUS
<1>1. /\ UNCHANGED storageVars /\ UNCHANGED <<cache, since>> /\ handler.pc = "bind"
      /\ StorageInv /\ JobInv /\ TypeOK /\ handler \in Handlers
      /\ job.asked = Asked /\ job.missed = {} /\ handler.request # Health
  BY DEF Bind, Inv, TypeOK, storageVars
<1>2. PICK f \in job.first :
        IF Torn(f) THEN Reply(500, {})
        ELSE /\ Schema
             /\ handler' = [handler EXCEPT !.pc = "scan",
                                           !.layout = log[disk[f].write].call.by]
             /\ UNCHANGED answer
  BY DEF Bind
<1>3. CASE Torn(f)
  BY <1>1, <1>2, <1>3, ReplyInv
<1>4. CASE ~Torn(f)
  <2>1. /\ Schema /\ answer' = answer
        /\ handler' = [handler EXCEPT !.pc = "scan", !.layout = log[disk[f].write].call.by]
    BY <1>2, <1>4
  <2>2. log[disk[f].write].call.by \in {"python", "rust"}
    BY <1>1, PresentWritten DEF JobInv
  <2>3. handler' \in Handlers /\ handler'.pc = "scan" /\ handler'.request = handler.request
    BY <1>1, <2>1, <2>2 DEF Handlers
  <2>4. Asked' = Asked
    BY <1>1, <2>3 DEF Asked
  <2>5. Good(job, since)
    BY <1>1, JobInvFacts
  <2>6. Good(job', since) /\ job'.asked = job.asked /\ job'.missed = job.missed
    BY <1>1, <2>1, <2>5, SchemaGood
  <2>7. TypeOK' /\ Good(job', since')
    BY <1>1, <2>1, <2>3, <2>6 DEF TypeOK
  <2> QED
    BY <1>1, <2>3, <2>4, <2>6, <2>7, ServerLeavesStore
<1> QED
  BY <1>3, <1>4

(* How a scan ends.                                                         *)
LEMMA ScanReplies ==
  ASSUME Inv, Found \/ FoundInBlend \/ ScanRaises \/ NotFound
  PROVE  /\ handler.pc = "scan" /\ UNCHANGED storageVars /\ UNCHANGED <<cache, since>>
         /\ \/ Reply(500, {})
            \/ \E r \in Hits(job.rows) : Reply(200, {r})
            \/ job.blends # {} /\ Reply(200, {})
            \/ AllRead /\ Hits(job.rows) = {} /\ Reply(404, {})
BY DEF Found, FoundInBlend, ScanRaises, NotFound, storageVars

LEMMA ScanInv ==
  ASSUME Inv, Found \/ FoundInBlend \/ ScanRaises \/ NotFound
  PROVE  Inv'
<1>1. \A r \in Hits(job.rows) : {r} \in SUBSET ReadRows
  BY DEF Hits, Inv, JobInv, Jobs
<1>2. UNCHANGED storageVars /\ UNCHANGED <<cache, since>>
  BY ScanReplies
<1>3. CASE Reply(500, {}) \/ Reply(200, {}) \/ Reply(404, {})
  BY <1>2, <1>3, ReplyInv
<1>4. CASE \E r \in Hits(job.rows) : Reply(200, {r})
  BY <1>1, <1>2, <1>4, ReplyInv
<1> QED
  BY <1>3, <1>4, ScanReplies

LEMMA ExpireInv == Inv /\ Expire => Inv'
<1> SUFFICES ASSUME Inv, Expire PROVE Inv'
  OBVIOUS
<1>1. /\ UNCHANGED storageVars /\ handler' = handler /\ answer' = answer
      /\ job' = job /\ since' = since /\ cache' = [cache EXCEPT !.fresh = FALSE]
      /\ StorageInv /\ JobInv
  BY DEF Expire, Inv, storageVars
<1>2. cache' \in Tables /\ cache'.rows = cache.rows
  BY <1>1 DEF Inv, TypeOK, Tables
<1>3. TypeOK' /\ Asked' = Asked
  BY <1>1, <1>2 DEF Inv, TypeOK, Asked
<1>4. Good(job', since')
  BY <1>1, JobInvFacts
<1> QED
  BY <1>1, <1>2, <1>3, <1>4, ServerLeavesStore DEF Inv

LEMMA WriteBesideInv == Inv /\ WriteBeside => Inv'
<1> SUFFICES ASSUME Inv, WriteBeside PROVE Inv'
  OBVIOUS
<1>1. /\ StorageInv /\ JobInv /\ Write
      /\ cache' = cache /\ handler' = handler /\ answer' = answer /\ job' = job
  BY DEF Inv, WriteBeside
<1>2. StorageInv' /\ JobInv'
  BY <1>1, WriteGood
<1>3. DOMAIN log \subseteq DOMAIN log'
  BY <1>1, LogGrows DEF Write, StorageInv
<1>4. TypeOK' /\ Asked' = Asked
  BY <1>1 DEF Inv, TypeOK, Asked
<1>5. NoJob' = NoJob
  BY DEF NoJob
<1> QED
  BY <1>1, <1>2, <1>3, <1>4, <1>5 DEF Inv

LEMMA StutterInv == Inv /\ UNCHANGED vars => Inv'
<1> SUFFICES ASSUME Inv, UNCHANGED vars PROVE Inv'
  OBVIOUS
<1>1. /\ UNCHANGED storageVars /\ handler' = handler /\ answer' = answer
      /\ job' = job /\ since' = since /\ cache' = cache /\ StorageInv /\ JobInv
  BY DEF vars, Inv, storageVars
<1>2. TypeOK' /\ Asked' = Asked
  BY <1>1 DEF Inv, TypeOK, Asked
<1>3. Good(job', since')
  BY <1>1, JobInvFacts
<1> QED
  BY <1>1, <1>2, <1>3, ServerLeavesStore DEF Inv

LEMMA ServerStepInv == Inv /\ ServerStep => Inv'
<1>1. Inv /\ (NoTable \/ LoadRaises) => Inv'
  BY ToLookupInv DEF NoTable, LoadRaises, storageVars
<1>2. Inv /\ (NoRows \/ FinishLoad) => Inv'
  BY ToLookupInv DEF NoRows, FinishLoad, storageVars
<1> QED
  BY <1>1, <1>2, StartLoadInv, ServerOpensInv, ServerReadsInv, LookupInv, BindInv, ScanInv
  DEF ServerStep

LEMMA InvNext == Inv /\ [Next]_vars => Inv'
BY AskInv, ServerStepInv, ExpireInv, WriteBesideInv, StutterInv DEF Next

------------------------------------------------------------------------------
(* What the server does.                                                    *)

(* Every write is where its steps have brought it, and every read of the    *)
(* server knows what it has, whatever is written meanwhile.                 *)
THEOREM Invariance == Spec => []Inv
<1> QED
  BY InvInit, InvNext, PTL DEF Spec

(* A write that returned stays on disk, readable, until a later write of    *)
(* the same partition and part opens the file.                              *)
THEOREM ReadableCorrect == Spec => []ReturnedIsReadable
<1>1. Inv => ReturnedIsReadable
  BY DEF Inv, StorageInv
<1> QED
  BY <1>1, Invariance, PTL

(* No Rust write leaves more than one file torn.                            *)
THEOREM TearsOneCorrect == Spec => []RustTearsOne
<1>1. Inv => RustTearsOne
  BY DEF Inv, StorageInv
<1> QED
  BY <1>1, Invariance, PTL

(* The table is what a load has read when nothing of it is left.            *)
LEMMA TableSteps ==
  ASSUME Inv, ServerStep \/ Expire
  PROVE  \/ NewTable /\ AllRead /\ job.asked = Files
         \/ /\ cache'.loaded = cache.loaded
            /\ cache'.rows = cache.rows /\ cache'.blends = cache.blends
<1>1. CASE NoRows
  BY <1>1 DEF NoRows, AllRead, Inv, Asked
<1>2. CASE FinishLoad
  BY <1>2 DEF FinishLoad, Inv, Asked
<1>3. CASE Expire
  <2>1. cache \in Tables /\ cache' = [cache EXCEPT !.fresh = FALSE]
    BY <1>3 DEF Expire, Inv, TypeOK
  <2> QED
    BY <2>1 DEF Tables
<1>4. CASE UNCHANGED cache
  BY <1>4
<1> QED
  BY <1>1, <1>2, <1>3, <1>4
  DEF ServerStep, NoTable, StartLoad, ServerOpens, ServerReads, LoadRaises, Lookup, Bind,
      Found, FoundInBlend, ScanRaises, NotFound, serverVars

LEMMA CacheStep ==
  ASSUME Inv, Next, cache'.rows # cache.rows
  PROVE  Settled \subseteq cache'.rows
<1>1. CASE ServerStep \/ Expire
  <2>1. NewTable /\ AllRead /\ job.asked = Files
    BY <1>1, TableSteps
  <2>2. \A r \in Settled : r \in job.rows \/ RowFile(r) \in job.missed
    BY <2>1, SettledOf, SettledIsRead DEF Inv
  <2>3. job.missed = {} /\ cache'.rows = job.rows
    BY <2>1 DEF Inv, NewTable
  <2> QED
    BY <2>2, <2>3
<1>2. CASE UNCHANGED cache
  BY <1>2
<1> QED
  BY <1>1, <1>2 DEF Next, WriteBeside, Ask

(* A load that succeeds has every row that was settled while it ran.        *)
THEOREM LoadIsCompleteCorrect == Spec => LoadIsComplete
<1>1. Inv /\ [Next]_vars =>
        [cache'.rows # cache.rows => Settled \subseteq cache'.rows]_vars
  BY CacheStep
<1> QED
  BY <1>1, Invariance, PTL DEF Spec, LoadIsComplete

(* A request for a row ends with 500 or in a scan.                          *)
LEMMA RepliesStep ==
  ASSUME Inv, Next, Replies
  PROVE  \/ Reply(500, {})
         \/ Found \/ FoundInBlend \/ ScanRaises \/ NotFound
<1>1. handler \in Handlers
  BY DEF Inv, TypeOK
<1>2. CASE Lookup
  <2>1. handler' = [handler EXCEPT !.pc = "bind"] => handler'.pc = "bind"
    BY <1>1 DEF Handlers
  <2> QED
    BY <1>2, <2>1 DEF Lookup, AnswerCached, Replies
<1>3. CASE Bind
  <2>1. PICK f \in job.first :
          IF Torn(f) THEN Reply(500, {})
          ELSE handler' = [handler EXCEPT !.pc = "scan",
                                          !.layout = log[disk[f].write].call.by]
    BY <1>3 DEF Bind
  <2>2. handler' = [handler EXCEPT !.pc = "scan", !.layout = log[disk[f].write].call.by]
          => handler'.pc = "scan"
    BY <1>1 DEF Handlers
  <2> QED
    BY <2>1, <2>2 DEF Replies
<1>4. CASE \E request \in Requests \cup {Health} : Ask(request)
  BY <1>4 DEF Ask, Replies
<1>5. CASE ToLookup \/ handler' = [handler EXCEPT !.pc = "load"]
  <2>1. handler'.pc \in {"lookup", "load"}
    BY <1>1, <1>5 DEF ToLookup, Handlers
  <2> QED
    BY <2>1 DEF Replies
<1>6. CASE UNCHANGED handler
  BY <1>6 DEF Replies
<1> QED
  BY <1>2, <1>3, <1>4, <1>5, <1>6
  DEF Next, ServerStep, WriteBeside, Expire, NoTable, NoRows, StartLoad, ServerOpens,
      ServerReads, LoadRaises, FinishLoad, serverVars

(* A settled row is never answered with "not found".                        *)
THEOREM SettledIsFoundCorrect == Spec => SettledIsFound
<1>1. ASSUME Inv, Next, Replies, answer'.code = 404
      PROVE  \A r \in Settled : r.key # handler.request
  <2>1. StorageInv /\ JobInv /\ job.missed = {} /\ job.asked = Asked
    BY <1>1 DEF Inv
  <2>2. Found \/ FoundInBlend \/ ScanRaises \/ NotFound
    BY <1>1, RepliesStep DEF Reply
  <2>3. handler.pc = "scan" /\ AllRead /\ Hits(job.rows) = {}
    BY <1>1, <2>2, ScanReplies DEF Reply
  <2>4. SUFFICES ASSUME NEW r \in Settled, r.key = handler.request PROVE FALSE
    OBVIOUS
  <2>5. RowFile(r) \in Files /\ RowFile(r).symbol = r.key.symbol
    BY <2>1, SettledOf DEF RowFile, FileOf
  <2>6. RowFile(r) \in job.asked
    BY <2>1, <2>3, <2>4, <2>5 DEF Asked
  <2>7. r \in job.rows
    BY <2>1, <2>3, <2>6, SettledIsRead
  <2> QED
    BY <2>3, <2>4, <2>7 DEF Hits
<1>2. Inv /\ [Next]_vars =>
        [Replies /\ answer'.code = 404 => \A r \in Settled : r.key # handler.request]_vars
  BY <1>1
<1> QED
  BY <1>2, Invariance, PTL DEF Spec, SettledIsFound

(* An answer is a row that could be read since the request came, and the    *)
(* one that was settled in its file; or it is made of a blend, of a file    *)
(* that was written since.                                                  *)
THEOREM AnswerIsCurrentCorrect == Spec => AnswerIsCurrent
<1> DEFINE Current ==
      /\ \A r \in answer'.row :
           /\ r.key = handler.request
           /\ \E v \in since[RowFile(r)] : r \in v
           /\ \A q \in Settled : q.key = r.key /\ RowFile(q) = RowFile(r) => q = r
      /\ answer'.row = {} =>
           \E f \in Files : f.symbol = handler.request.symbol /\ since[f] # Held[f]
<1>1. ASSUME Inv, Next, Replies, answer'.code = 200
      PROVE  Current
  <2>1. StorageInv /\ JobInv /\ job.asked = Asked
    BY <1>1 DEF Inv
  <2>2. Found \/ FoundInBlend \/ ScanRaises \/ NotFound
    BY <1>1, RepliesStep DEF Reply
  <2>3. handler.pc = "scan"
    BY <1>1, <2>2, ScanReplies
  <2>4. \/ \E r \in Hits(job.rows) : Reply(200, {r})
        \/ job.blends # {} /\ Reply(200, {})
    BY <1>1, <2>2, ScanReplies DEF Reply
  <2>5. ASSUME NEW r \in Hits(job.rows), Reply(200, {r})
        PROVE  Current
    <3>1. r \in job.rows /\ r.key = handler.request /\ answer'.row = {r}
      BY <2>5 DEF Hits, Reply
    <3>2. /\ \E v \in since[RowFile(r)] : r \in v
          /\ \A q \in Settled : q.key = r.key /\ RowFile(q) = RowFile(r) => q = r
      BY <2>1, <3>1, RowsSince
    <3> QED
      BY <3>1, <3>2
  <2>6. ASSUME job.blends # {}, Reply(200, {})
        PROVE  Current
    <3>1. PICK f \in job.blends : TRUE
      BY <2>6
    <3>2. f \in Files /\ f \in job.asked /\ since[f] # Held[f]
      BY <2>1, BlendsWritten
    <3>3. f.symbol = handler.request.symbol
      BY <2>1, <2>3, <3>2 DEF Asked
    <3>4. answer'.row = {}
      BY <2>6 DEF Reply
    <3> QED
      BY <3>2, <3>3, <3>4
  <2> HIDE DEF Current
  <2> QED
    BY <2>4, <2>5, <2>6
<1>2. Inv /\ [Next]_vars => [Replies /\ answer'.code = 200 => Current]_vars
  <2> HIDE DEF Current
  <2> QED
    BY <1>1
<1> QED
  BY <1>2, Invariance, PTL DEF Spec, AnswerIsCurrent

------------------------------------------------------------------------------
(* The registers.                                                           *)

(* What the versions so far become when one file changes.                   *)
LEMMA CoversOne ==
  ASSUME NEW s, Covers(s),
         NEW f \in Files, \A g \in Files \ {f} : Held'[g] = Held[g]
  PROVE  /\ Held' = [Held EXCEPT ![f] = Held'[f]]
         /\ [g \in Files |-> s[g] \cup Held'[g]] = [s EXCEPT ![f] = @ \cup Held'[f]]
<1>1. Held = [g \in Files |-> Held[g]] /\ Held' = [g \in Files |-> Held'[g]]
  BY DEF Held
<1>2. \A g \in Files \ {f} : s[g] \cup Held'[g] = s[g]
  BY DEF Covers
<1>3. s = [g \in Files |-> s[g]]
  BY DEF Covers
<1>4. Held' = [Held EXCEPT ![f] = Held'[f]]
  BY <1>1
<1>5. [g \in Files |-> s[g] \cup Held'[g]] = [s EXCEPT ![f] = @ \cup Held'[f]]
  BY <1>2, <1>3
<1> QED
  BY <1>4, <1>5

(* A step of a writer changes what is held of one file, or of none.         *)
LEMMA WriteReplacesOne ==
  ASSUME StorageInv, JobInv, Write
  PROVE  \/ Held' = Held /\ since' = since
         \/ \E f \in Files :
              /\ Held' = [Held EXCEPT ![f] = Held'[f]]
              /\ \A v, w \in Held'[f] : v = w
              /\ since' = [since EXCEPT ![f] = @ \cup Held'[f]]
<1>1. /\ WriterStep /\ since' = [f \in Files |-> since[f] \cup Held'[f]]
      /\ Covers(since)
  BY JobInvFacts DEF Write
<1>2. CASE Held' = Held
  <2>1. \A f \in Files : since[f] \cup Held'[f] = since[f]
    BY <1>1, <1>2 DEF Covers
  <2>2. since = [f \in Files |-> since[f]]
    BY <1>1 DEF Covers
  <2>3. since' = since
    BY <1>1, <2>1, <2>2
  <2> QED
    BY <1>2, <2>3
<1>3. CASE \E f \in Files : \A g \in Files \ {f} : Held'[g] = Held[g]
  <2>1. PICK f \in Files : \A g \in Files \ {f} : Held'[g] = Held[g]
    BY <1>3
  <2>2. \A v, w \in Held'[f] : v = w
    BY HeldOf
  <2>3. /\ Held' = [Held EXCEPT ![f] = Held'[f]]
        /\ since' = [since EXCEPT ![f] = @ \cup Held'[f]]
    BY <1>1, <2>1, CoversOne
  <2> QED
    BY <2>2, <2>3
<1> QED
  BY <1>1, <1>2, <1>3, HeldStep

(* What a read that has come to its end has of the files it was to read,    *)
(* but those it left out.                                                   *)
LEMMA ReadReturns ==
  ASSUME StorageInv, JobInv, AllRead, NEW a,
         a = ByFile(job.rows, job.blends, job.asked \ job.missed)
  PROVE  /\ DOMAIN a = job.asked \ job.missed
         /\ \A f \in DOMAIN a : \/ \E v \in since[f] : a[f] = {v}
                                \/ a[f] = {} /\ since[f] # Held[f]
<1>1. \A r \in job.rows : RowFile(r) \in job.asked \ job.missed
  BY DEF JobInv, Through
<1>2. PICK fs : fs = job.asked \ job.missed
  OBVIOUS
<1>3. fs \cup {RowFile(r) : r \in job.rows} = fs
  BY <1>1, <1>2
<1>4. a = [f \in fs |-> IF f \in job.blends THEN {} ELSE {OfFile(job.rows, f)}]
  BY <1>2, <1>3 DEF ByFile
<1>5. ASSUME NEW f \in fs
      PROVE  \/ \E v \in since[f] : a[f] = {v}
             \/ a[f] = {} /\ since[f] # Held[f]
  <2>1. CASE f \in job.blends
    BY <1>4, <1>5, <2>1, BlendsWritten
  <2>2. CASE f \notin job.blends
    <3>1. f \in job.asked /\ Through(f)
      BY <1>2, <1>5, <2>2 DEF Through, AllRead
    <3>2. OfFile(job.rows, f) \in since[f]
      BY <3>1 DEF JobInv
    <3> QED
      BY <1>4, <1>5, <2>2, <3>2
  <2> QED
    BY <2>1, <2>2
<1> QED
  BY <1>2, <1>4, <1>5

LEMMA NoVersions == StorageInit => Held = [f \in Files |-> {{}}]
BY DEF StorageInit, Absent, Held, Torn, Rows

------------------------------------------------------------------------------
(* The table of the server.                                                 *)

(* What the steps that leave store and table alone mean to the registers.   *)
LEMMA TableStill ==
  ASSUME UNCHANGED storageVars, cache'.loaded = cache.loaded,
         cache'.rows = cache.rows, cache'.blends = cache.blends
  PROVE  Held' = Held /\ Table' = Table
<1>1. ByFile(cache.rows, cache.blends, Files)' = ByFile(cache.rows, cache.blends, Files)
  BY DEF ByFile, OfFile, RowFile, storageVars
<1> QED
  BY <1>1, HeldStill DEF Table

LEMMA WriteReplacesTable ==
  ASSUME Inv, WriteBeside
  PROVE  [TableRegisters!Next]_(TableRegisters!vars)
<1>1. StorageInv /\ JobInv /\ Write /\ WriterStep /\ cache' = cache
  BY DEF Inv, WriteBeside, Write
<1>2. Table' = Table
  <2>1. \A r \in cache.rows : RowFile(r)' = RowFile(r)
    BY <1>1, RowFileStays DEF Inv
  <2>2. /\ {RowFile(r) : r \in cache.rows}' = {RowFile(r) : r \in cache.rows}
        /\ \A f : {r \in cache.rows : RowFile(r) = f}' = {r \in cache.rows : RowFile(r) = f}
    BY <1>1, <2>1
  <2>3. ByFile(cache.rows, cache.blends, Files)' = ByFile(cache.rows, cache.blends, Files)
    BY <1>1, <2>2 DEF ByFile, OfFile
  <2> QED
    BY <1>1, <2>3 DEF Table
<1> QED
  BY <1>1, <1>2, WriteReplacesOne
  DEF TableRegisters!Next, TableRegisters!Replace, TableRegisters!vars

LEMMA AskCalls ==
  ASSUME Inv, NEW request \in Requests \cup {Health}, Ask(request)
  PROVE  TableRegisters!Call
<1>1. UNCHANGED storageVars /\ since' = Held /\ cache' = cache
  BY DEF Ask, storageVars
<1>2. Held' = Held /\ Table' = Table
  BY <1>1, TableStill
<1> QED
  BY <1>1, <1>2 DEF TableRegisters!Call

(* A new table has of every file what the load returned of it.              *)
LEMMA TableReturns ==
  ASSUME Inv, UNCHANGED storageVars, UNCHANGED since, NewTable, AllRead, job.asked = Files
  PROVE  TableRegisters!Return
<1>1. StorageInv /\ JobInv /\ job.missed = {}
  BY DEF Inv
<1>2. PICK a : a = ByFile(job.rows, job.blends, job.asked \ job.missed)
  OBVIOUS
<1>3. a = ByFile(job.rows, job.blends, Files)
  BY <1>1, <1>2
<1>4. cache'.loaded /\ cache'.rows = job.rows /\ cache'.blends = job.blends
  BY DEF NewTable
<1>5. Table' = {a}
  BY <1>3, <1>4 DEF Table, ByFile, OfFile, RowFile, storageVars
<1>6. /\ DOMAIN a = Files
      /\ \A f \in DOMAIN a : \/ \E v \in since[f] : a[f] = {v}
                             \/ a[f] = {} /\ since[f] # Held[f]
  BY <1>1, <1>2, ReadReturns
<1> QED
  BY <1>5, <1>6, HeldStill DEF TableRegisters!Return

LEMMA ServerRefines ==
  ASSUME Inv, ServerStep \/ Expire
  PROVE  [TableRegisters!Next]_(TableRegisters!vars)
<1>1. UNCHANGED storageVars /\ UNCHANGED since
  BY DEF ServerStep, Expire, NoTable, NoRows, StartLoad, ServerOpens, ServerReads,
         LoadRaises, FinishLoad, Lookup, Bind, Found, FoundInBlend, ScanRaises, NotFound,
         storageVars
<1>2. CASE NewTable /\ AllRead /\ job.asked = Files
  BY <1>1, <1>2, TableReturns DEF TableRegisters!Next
<1>3. CASE /\ cache'.loaded = cache.loaded
           /\ cache'.rows = cache.rows /\ cache'.blends = cache.blends
  <2>1. Held' = Held /\ Table' = Table
    BY <1>1, <1>3, TableStill
  <2> QED
    BY <1>1, <2>1 DEF TableRegisters!vars
<1> QED
  BY <1>2, <1>3, TableSteps

LEMMA TableStutters ==
  ASSUME UNCHANGED vars
  PROVE  UNCHANGED TableRegisters!vars
<1>1. UNCHANGED storageVars /\ cache' = cache /\ since' = since
  BY DEF vars, storageVars
<1>2. Held' = Held /\ Table' = Table
  BY <1>1, TableStill
<1> QED
  BY <1>1, <1>2 DEF TableRegisters!vars

LEMMA TableInit == Init => TableRegisters!Init
<1> SUFFICES ASSUME Init PROVE TableRegisters!Init
  OBVIOUS
<1>1. StorageInit /\ ~cache.loaded /\ since = Held
  BY DEF Init, ReadsInit
<1> QED
  BY <1>1, NoVersions DEF TableRegisters!Init, Table

LEMMA TableNext == Inv /\ [Next]_vars => [TableRegisters!Next]_(TableRegisters!vars)
<1>1. Inv /\ (\E request \in Requests \cup {Health} : Ask(request)) => TableRegisters!Next
  BY AskCalls DEF TableRegisters!Next
<1> QED
  BY <1>1, WriteReplacesTable, ServerRefines, TableStutters DEF Next

(* The cached table is what one read of a register for each file returned,  *)
(* whatever was written while it was loaded: of a file that no write went   *)
(* into the whole of it, and of none a mixture of two versions but where it *)
(* was written between its footer and its pages.                            *)
THEOREM TableRefines == Spec => TableImplementsRegisters
<1> QED
  BY TableInit, TableNext, Invariance, PTL
  DEF Spec, TableImplementsRegisters, TableRegisters!Spec

------------------------------------------------------------------------------
(* The other readers.                                                       *)

LEMMA ReadersInvInit == ReadersInit => ReadersInv
<1> SUFFICES ASSUME ReadersInit PROVE ReadersInv
  OBVIOUS
<1>1. StorageInv /\ JobInv /\ job = NoJob /\ job.missed = {}
  BY JobInvInit DEF ReadersInit, ReadsInit, NoJob
<1>2. reader \in Readers /\ reader.pc = "idle"
  BY DEF ReadersInit, Readers
<1> QED
  BY <1>1, <1>2 DEF ReadersInv

(* What the reader does leaves the store alone.                             *)
LEMMA ReaderLeavesStore ==
  ASSUME ReadersInv, UNCHANGED storageVars, reader' \in Readers, reader'.call = reader.call,
         Good(job', since'),
         reader'.pc = "idle" => job' = NoJob,
         reader'.pc # "idle" => job'.asked = AskedFiles,
         reader'.pc = "done" => AllRead',
         ~Rust => job'.missed = {}
  PROVE  ReadersInv'
<1>1. StorageInv' /\ JobInv'
  BY StepGood DEF ReadersInv
<1>2. AskedFiles' = AskedFiles /\ Rust' = Rust
  BY DEF AskedFiles, Matches, Rust
<1> QED
  BY <1>1, <1>2 DEF ReadersInv

LEMMA BeginInv == ReadersInv /\ Begin => ReadersInv'
<1> SUFFICES ASSUME ReadersInv, Begin PROVE ReadersInv'
  OBVIOUS
<1>1. /\ StorageInv /\ reader \in Readers /\ UNCHANGED storageVars
      /\ List(AskedFiles) /\ since' = Held
      /\ reader' = [reader EXCEPT !.pc = IF Rust THEN "reading" ELSE "listed"]
  BY DEF ReadersInv, Begin
<1>2. reader' \in Readers /\ reader'.call = reader.call /\ reader'.pc \in {"reading", "listed"}
  BY <1>1 DEF Readers
<1>3. AskedFiles \in SUBSET Files
  BY DEF AskedFiles
<1>4. Good(job', Held) /\ job'.asked = AskedFiles /\ job'.missed = {}
  BY <1>1, <1>3, HeldCovers, ListGood
<1>5. Good(job', since')
  BY <1>1, <1>4
<1> QED
  BY <1>1, <1>2, <1>4, <1>5, ReaderLeavesStore

(* A call that raises, or a constructor that has made its view.             *)
LEMMA StopInv ==
  ASSUME ReadersInv, UNCHANGED storageVars, UNCHANGED since, job' = NoJob,
         reader' \in Readers, reader'.call = reader.call, reader'.pc = "idle"
  PROVE  ReadersInv'
<1>1. Good(job', since')
  BY JobInvFacts DEF ReadersInv
<1>2. job'.missed = {}
  BY DEF NoJob
<1> QED
  BY <1>1, <1>2, ReaderLeavesStore

LEMMA ReaderStops ==
  ASSUME ReadersInv, NoSchema \/ OtherColumns \/ Raise
  PROVE  ReadersInv'
<1>1. UNCHANGED storageVars /\ since' = since /\ Stop /\ reader \in Readers
  BY DEF NoSchema, OtherColumns, Raise, storageVars, ReadersInv
<1>2. job' = NoJob /\ reader' = [reader EXCEPT !.pc = "idle"]
  BY <1>1 DEF Stop
<1>3. reader' \in Readers /\ reader'.call = reader.call /\ reader'.pc = "idle"
  BY <1>1, <1>2 DEF Readers
<1> QED
  BY <1>1, <1>2, <1>3, StopInv

LEMMA CreateViewInv == ReadersInv /\ CreateView => ReadersInv'
<1> SUFFICES ASSUME ReadersInv, CreateView PROVE ReadersInv'
  OBVIOUS
<1>1. /\ UNCHANGED storageVars /\ since' = since /\ job' = NoJob
      /\ StorageInv /\ JobInv /\ reader \in Readers
  BY DEF CreateView, storageVars, ReadersInv
<1>2. PICK f \in job.first : reader' = [reader EXCEPT !.pc = "idle", !.view = Layout(f)]
  BY DEF CreateView
<1>3. Layout(f) \in {"python", "rust"}
  BY <1>1, PresentWritten DEF JobInv, Layout
<1>4. reader' \in Readers /\ reader'.call = reader.call /\ reader'.pc = "idle"
  BY <1>1, <1>2, <1>3 DEF Readers
<1> QED
  BY <1>1, <1>4, StopInv

(* A step that goes on with the read.                                       *)
LEMMA ReadOnInv ==
  ASSUME ReadersInv, UNCHANGED storageVars, UNCHANGED since,
         reader.pc \in {"listed", "reading"},
         reader' = reader \/ reader' = [reader EXCEPT !.pc = "reading"],
         Good(job', since), job'.asked = job.asked,
         job'.missed = job.missed \/ Rust
  PROVE  ReadersInv'
<1>1. reader \in Readers /\ job.asked = AskedFiles /\ (~Rust => job.missed = {})
  BY DEF ReadersInv
<1>2. reader' \in Readers /\ reader'.call = reader.call /\ reader'.pc \in {"listed", "reading"}
  BY <1>1 DEF Readers
<1>3. Good(job', since')
  OBVIOUS
<1>4. ~Rust => job'.missed = {}
  BY <1>1
<1> QED
  BY <1>1, <1>2, <1>3, <1>4, ReaderLeavesStore

LEMMA StartReadInv == ReadersInv /\ (EmptyTable \/ TakeSchema) => ReadersInv'
<1> SUFFICES ASSUME ReadersInv, EmptyTable \/ TakeSchema PROVE ReadersInv'
  OBVIOUS
<1>1. /\ UNCHANGED storageVars /\ since' = since /\ reader.pc = "listed"
      /\ reader' = [reader EXCEPT !.pc = "reading"]
      /\ job' = job \/ Schema
  BY DEF EmptyTable, TakeSchema, storageVars
<1>2. StorageInv /\ Good(job, since)
  BY JobInvFacts DEF ReadersInv
<1>3. CASE job' = job
  BY <1>1, <1>2, <1>3, ReadOnInv
<1>4. CASE Schema
  <2>1. Good(job', since) /\ job'.asked = job.asked /\ job'.missed = job.missed
    BY <1>2, <1>4, SchemaGood
  <2> QED
    BY <1>1, <2>1, ReadOnInv
<1> QED
  BY <1>1, <1>3, <1>4

LEMMA OpenNextInv ==
  ASSUME ReadersInv, NEW f \in Files, OpenNext(f)
  PROVE  ReadersInv'
<1>1. /\ UNCHANGED storageVars /\ since' = since /\ reader' = reader
      /\ reader.pc = "reading" /\ ReadFooter(f)
      /\ f \in job.files \/ Walked(f)
  BY DEF OpenNext, storageVars
<1>2. StorageInv /\ JobInv /\ Good(job, since) /\ job.asked = AskedFiles
  BY <1>1, JobInvFacts DEF ReadersInv
<1>3. /\ f \in Present \cap job.asked
      /\ f \in job.files \/ (ThroughOf(job, f) /\ OfFile(job.rows, f) = {})
  BY <1>1, <1>2 DEF JobInv, Walked, ThroughOf, Through
<1>4. Good(job', since) /\ job'.asked = job.asked /\ job'.missed = job.missed
  BY <1>1, <1>2, <1>3, ReadFooterGood
<1> QED
  BY <1>1, <1>4, ReadOnInv

LEMMA ReadNextInv ==
  ASSUME ReadersInv, NEW ft \in job.footers, ReadNext(ft)
  PROVE  ReadersInv'
<1>1. /\ UNCHANGED storageVars /\ since' = since /\ reader' = reader
      /\ reader.pc = "reading" /\ ReadPages(ft)
  BY DEF ReadNext, storageVars
<1>2. StorageInv /\ Good(job, since)
  BY JobInvFacts DEF ReadersInv
<1>3. Good(job', since) /\ job'.asked = job.asked /\ job'.missed = job.missed
  BY <1>1, <1>2, ReadPagesGood
<1> QED
  BY <1>1, <1>3, ReadOnInv

LEMMA SkipInv ==
  ASSUME ReadersInv, NEW f \in job.files, Skip(f)
  PROVE  ReadersInv'
<1>1. /\ UNCHANGED storageVars /\ since' = since /\ reader' = reader /\ Rust
      /\ reader.pc = "reading"
      /\ job' = [job EXCEPT !.files = @ \ {f}, !.missed = @ \cup {f}]
  BY DEF Skip, storageVars
<1>2. StorageInv /\ Good(job, since)
  BY JobInvFacts DEF ReadersInv
<1>3. Good(job', since) /\ job'.asked = job.asked
  BY <1>1, <1>2, SkipGood
<1> QED
  BY <1>1, <1>3, ReadOnInv

LEMMA FinishInv == ReadersInv /\ Finish => ReadersInv'
<1> SUFFICES ASSUME ReadersInv, Finish PROVE ReadersInv'
  OBVIOUS
<1>1. /\ UNCHANGED storageVars /\ since' = since /\ job' = job /\ AllRead
      /\ reader.pc = "reading" /\ reader' = [reader EXCEPT !.pc = "done"]
  BY DEF Finish, storageVars
<1>2. /\ reader \in Readers /\ Good(job, since) /\ job.asked = AskedFiles
      /\ ~Rust => job.missed = {}
  BY <1>1, JobInvFacts DEF ReadersInv
<1>3. reader' \in Readers /\ reader'.call = reader.call /\ reader'.pc = "done"
  BY <1>1, <1>2 DEF Readers
<1>4. AllRead' /\ Good(job', since')
  BY <1>1, <1>2 DEF AllRead
<1> QED
  BY <1>1, <1>2, <1>3, <1>4, ReaderLeavesStore

LEMMA WriteMeanwhileInv == ReadersInv /\ WriteMeanwhile => ReadersInv'
<1> SUFFICES ASSUME ReadersInv, WriteMeanwhile PROVE ReadersInv'
  OBVIOUS
<1>1. StorageInv /\ JobInv /\ Write /\ job' = job /\ reader' = reader
  BY DEF ReadersInv, WriteMeanwhile
<1>2. StorageInv' /\ JobInv'
  BY <1>1, WriteGood
<1>3. AskedFiles' = AskedFiles /\ Rust' = Rust /\ AllRead' = AllRead
  BY <1>1 DEF AskedFiles, Matches, Rust, AllRead
<1> QED
  BY <1>1, <1>2, <1>3 DEF ReadersInv

LEMMA ReadersStutter == ReadersInv /\ UNCHANGED readersVars => ReadersInv'
<1> SUFFICES ASSUME ReadersInv, UNCHANGED readersVars PROVE ReadersInv'
  OBVIOUS
<1>1. UNCHANGED storageVars /\ job' = job /\ since' = since /\ reader' = reader
  BY DEF readersVars, storageVars
<1>2. StorageInv' /\ JobInv'
  BY <1>1, StepGood, JobInvFacts DEF ReadersInv
<1>3. AskedFiles' = AskedFiles /\ Rust' = Rust /\ AllRead' = AllRead
  BY <1>1 DEF AskedFiles, Matches, Rust, AllRead
<1> QED
  BY <1>1, <1>2, <1>3 DEF ReadersInv

LEMMA ReadersInvNext == ReadersInv /\ [ReadersNext]_readersVars => ReadersInv'
BY BeginInv, ReaderStops, CreateViewInv, StartReadInv, OpenNextInv, ReadNextInv, SkipInv,
   FinishInv, WriteMeanwhileInv, ReadersStutter
DEF ReadersNext, ReaderStep

(* What a read has and owes while writers go on.                            *)
THEOREM ReadersInvariance == ReadersSpec => []ReadersInv
<1> QED
  BY ReadersInvInit, ReadersInvNext, PTL DEF ReadersSpec


(* Division by a positive number keeps the order.                           *)
LEMMA DivBounds ==
  ASSUME NEW d \in Nat \ {0}, NEW t \in Nat, NEW n \in Nat
  PROVE  /\ t \div d >= n <=> t >= n * d
         /\ t \div d <= n <=> t < (n + 1) * d
<1>1. /\ t = d * (t \div d) + (t % d)
      /\ t % d \in 0 .. (d - 1) /\ t \div d \in Nat
  OBVIOUS
<1>2. ASSUME NEW a \in Nat, NEW b \in Nat, a >= b
      PROVE  d * a >= d * b
  BY <1>2
<1>3. CASE t \div d >= n
  <2>1. d * (t \div d) >= d * n
    BY <1>1, <1>2, <1>3
  <2> QED
    BY <1>1, <1>3, <2>1
<1>4. CASE t \div d < n
  <2>1. d * n >= d * ((t \div d) + 1)
    BY <1>1, <1>2, <1>4
  <2> QED
    BY <1>1, <1>4, <2>1
<1> QED
  BY <1>1, <1>3, <1>4

(* The filter on the partitions is the filter on the rows.                  *)
LEMMA FilterOfRow ==
  ASSUME StorageInv, NEW c \in Reads,
         NEW r, r.write \in DOMAIN log, r.key \in log[r.write].call.keys
  PROVE  Matches(c, RowFile(r)) <=> Wanted(c, r)
<1>1. PICK f : f = RowFile(r)
  OBVIOUS
<1>2. log[r.write].call \in Calls
  BY WriterType DEF StorageInv
<1>3. r.key.ts \in Nat
  BY <1>2, StorageAssumption
<1>4. f.symbol = r.key.symbol /\ f.date = r.key.ts \div NsPerDay
  BY <1>1 DEF FileOf, RowFile
<1>5. c.from \in Nat => (f.date >= c.from <=> r.key.ts >= c.from * NsPerDay)
  BY <1>3, <1>4, DivBounds, StorageAssumption
<1>6. c.to \in Nat => (f.date <= c.to <=> r.key.ts < (c.to + 1) * NsPerDay)
  BY <1>3, <1>4, DivBounds, StorageAssumption
<1>7. /\ c.from \in Nat \/ c.from = NoFilter
      /\ c.to \in Nat \/ c.to = NoFilter
  BY ReadersAssumption
<1>8. Matches(c, f) <=> Wanted(c, r)
  BY <1>4, <1>5, <1>6, <1>7 DEF Matches, Wanted
<1> QED
  BY <1>1, <1>8

(* A call that succeeds is complete but for what no write left alone, and   *)
(* what the walk of Rust failed on; and it has no row it does not ask for.  *)
THEOREM ReadIsCompleteCorrect == ReadersSpec => []ReadIsComplete
<1>1. ASSUME ReadersInv, NEW r \in job.rows
      PROVE  Wanted(reader.call, r)
  <2>1. /\ StorageInv /\ reader.call \in Reads
        /\ r.write \in DOMAIN log /\ r.key \in log[r.write].call.keys
        /\ RowFile(r) \in job.asked
    BY <1>1 DEF ReadersInv, Readers, JobInv
  <2>2. reader.pc # "idle"
    BY <1>1 DEF ReadersInv, NoJob
  <2>3. Matches(reader.call, RowFile(r))
    BY <1>1, <2>1, <2>2 DEF ReadersInv, AskedFiles
  <2> QED
    BY <2>1, <2>3, FilterOfRow
<1>2. ASSUME ReadersInv, reader.pc = "done", NEW r \in Settled, Wanted(reader.call, r)
      PROVE  r \in job.rows \/ (Rust /\ RowFile(r) \in job.missed)
  <2>1. /\ StorageInv /\ JobInv /\ AllRead /\ reader.call \in Reads
        /\ job.asked = AskedFiles /\ (~Rust => job.missed = {})
    BY <1>2 DEF ReadersInv, Readers
  <2>2. /\ RowFile(r) \in Files
        /\ r.write \in DOMAIN log /\ r.key \in log[r.write].call.keys
    BY <2>1, SettledOf
  <2>3. RowFile(r) \in job.asked
    BY <1>2, <2>1, <2>2, FilterOfRow DEF AskedFiles
  <2>4. r \in job.rows \/ RowFile(r) \in job.missed
    BY <2>1, <2>3, SettledIsRead
  <2> QED
    BY <2>1, <2>4
<1>3. ReadersInv => ReadIsComplete
  BY <1>1, <1>2 DEF ReadIsComplete
<1> QED
  BY <1>3, ReadersInvariance, PTL

------------------------------------------------------------------------------
(* What a call returns.                                                     *)

(* A write replaces one file and leaves the call and its result alone.      *)
LEMMA WriteReplaces ==
  ASSUME ReadersInv, WriteMeanwhile
  PROVE  [CallRegisters!Next]_(CallRegisters!vars)
<1>1. StorageInv /\ JobInv /\ Write /\ WriterStep /\ job' = job /\ reader' = reader
  BY DEF ReadersInv, WriteMeanwhile, Write
<1>2. AskedFiles' = AskedFiles /\ Rust' = Rust
  BY <1>1 DEF AskedFiles, Matches, Rust
<1>3. Result' = Result
  <2>1. \A r \in job.rows : RowFile(r)' = RowFile(r)
    BY <1>1, RowFileStays DEF JobInv
  <2>2. /\ {RowFile(r) : r \in job.rows}' = {RowFile(r) : r \in job.rows}
        /\ \A f : {r \in job.rows : RowFile(r) = f}' = {r \in job.rows : RowFile(r) = f}
    BY <1>1, <2>1
  <2>3. ByFile(job.rows, job.blends, AskedFiles \ job.missed)'
          = ByFile(job.rows, job.blends, AskedFiles \ job.missed)
    BY <1>1, <1>2, <2>2 DEF ByFile, OfFile
  <2> QED
    BY <1>1, <2>3 DEF Result
<1> QED
  BY <1>1, <1>2, <1>3, WriteReplacesOne
  DEF CallRegisters!Next, CallRegisters!Replace, CallRegisters!vars

LEMMA BeginCalls ==
  ASSUME ReadersInv, Begin
  PROVE  CallRegisters!Call
<1>1. since' = Held /\ UNCHANGED storageVars /\ reader \in Readers
      /\ reader' = [reader EXCEPT !.pc = IF Rust THEN "reading" ELSE "listed"]
  BY DEF ReadersInv, Begin
<1>2. reader'.call = reader.call /\ reader'.pc # "done"
  BY <1>1 DEF Readers
<1>3. Held' = Held /\ AskedFiles' = AskedFiles /\ Rust' = Rust
  BY <1>1, <1>2, HeldStill DEF AskedFiles, Matches, Rust
<1>4. Result' = {}
  BY <1>2 DEF Result
<1> QED
  BY <1>1, <1>3, <1>4 DEF CallRegisters!Call

LEMMA FinishReturns ==
  ASSUME ReadersInv, Finish
  PROVE  CallRegisters!Return
<1>1. /\ StorageInv /\ JobInv /\ AllRead /\ UNCHANGED storageVars
      /\ reader \in Readers /\ reader.pc = "reading"
      /\ job.asked = AskedFiles /\ (~Rust => job.missed = {})
      /\ reader' = [reader EXCEPT !.pc = "done"] /\ job' = job /\ since' = since
  BY DEF ReadersInv, Finish, storageVars
<1>2. reader'.call = reader.call /\ reader'.pc = "done"
  BY <1>1 DEF Readers
<1>3. Held' = Held /\ AskedFiles' = AskedFiles /\ Rust' = Rust
  BY <1>1, <1>2, HeldStill DEF AskedFiles, Matches, Rust
<1>4. PICK a : a = ByFile(job.rows, job.blends, job.asked \ job.missed)
  OBVIOUS
<1>5. a = ByFile(job.rows, job.blends, AskedFiles \ job.missed)
  BY <1>1, <1>4
<1>6. Result' = {a}
  <2>1. ByFile(job.rows, job.blends, AskedFiles \ job.missed)' = a
    BY <1>1, <1>3, <1>5 DEF ByFile, OfFile, RowFile, storageVars
  <2> QED
    BY <1>2, <2>1 DEF Result
<1>7. /\ DOMAIN a = job.asked \ job.missed
      /\ \A f \in DOMAIN a : \/ \E v \in since[f] : a[f] = {v}
                             \/ a[f] = {} /\ since[f] # Held[f]
  BY <1>1, <1>4, ReadReturns
<1>8. DOMAIN a \subseteq AskedFiles /\ (~Rust => DOMAIN a = AskedFiles)
  BY <1>1, <1>7
<1> QED
  BY <1>1, <1>3, <1>6, <1>7, <1>8 DEF CallRegisters!Return

(* Before it returns a call has no result.                                  *)
LEMMA ReaderStutters ==
  ASSUME ReadersInv,
         \/ NoSchema \/ EmptyTable \/ CreateView \/ OtherColumns \/ TakeSchema \/ Raise
         \/ \E f \in Files : OpenNext(f)
         \/ \E ft \in job.footers : ReadNext(ft)
         \/ \E f \in job.files : Skip(f)
  PROVE  UNCHANGED CallRegisters!vars
<1>1. UNCHANGED storageVars /\ since' = since /\ reader \in Readers
      /\ reader.pc \in {"listed", "reading"}
  BY DEF ReadersInv, NoSchema, EmptyTable, CreateView, OtherColumns, TakeSchema, Raise,
         OpenNext, ReadNext, Skip, storageVars
<1>2. \/ reader' = reader
      \/ reader' = [reader EXCEPT !.pc = "idle"]
      \/ reader' = [reader EXCEPT !.pc = "reading"]
      \/ \E f \in job.first : reader' = [reader EXCEPT !.pc = "idle", !.view = Layout(f)]
  BY DEF NoSchema, EmptyTable, CreateView, OtherColumns, TakeSchema, Raise, Stop,
         OpenNext, ReadNext, Skip
<1>3. reader'.call = reader.call /\ reader'.pc # "done"
  BY <1>1, <1>2 DEF Readers
<1>4. Held' = Held /\ AskedFiles' = AskedFiles /\ Rust' = Rust
  BY <1>1, <1>3, HeldStill DEF AskedFiles, Matches, Rust
<1>5. Result' = {} /\ Result = {}
  BY <1>1, <1>3 DEF Result
<1> QED
  BY <1>1, <1>4, <1>5 DEF CallRegisters!vars

LEMMA CallStutters ==
  ASSUME UNCHANGED readersVars
  PROVE  UNCHANGED CallRegisters!vars
<1>1. UNCHANGED storageVars /\ reader' = reader /\ job' = job /\ since' = since
  BY DEF readersVars, storageVars
<1>2. Held' = Held /\ AskedFiles' = AskedFiles /\ Rust' = Rust
  BY <1>1, HeldStill DEF AskedFiles, Matches, Rust
<1>3. Result' = Result
  <2>1. ByFile(job.rows, job.blends, AskedFiles \ job.missed)'
          = ByFile(job.rows, job.blends, AskedFiles \ job.missed)
    BY <1>1, <1>2 DEF ByFile, OfFile, RowFile, storageVars
  <2> QED
    BY <1>1, <2>1 DEF Result
<1> QED
  BY <1>1, <1>2, <1>3 DEF CallRegisters!vars

(* In the beginning every file is absent and nothing was returned.          *)
LEMMA CallInit == ReadersInit => CallRegisters!Init
<1> SUFFICES ASSUME ReadersInit PROVE CallRegisters!Init
  OBVIOUS
<1>1. StorageInit /\ reader.pc = "idle" /\ since = Held
  BY DEF ReadersInit, ReadsInit
<1> QED
  BY <1>1, NoVersions DEF CallRegisters!Init, Result, AskedFiles

LEMMA CallNext == ReadersInv /\ [ReadersNext]_readersVars => [CallRegisters!Next]_(CallRegisters!vars)
<1>1. ReadersInv /\ Begin => CallRegisters!Next
  BY BeginCalls DEF CallRegisters!Next
<1>2. ReadersInv /\ Finish => CallRegisters!Next
  BY FinishReturns DEF CallRegisters!Next
<1> QED
  BY <1>1, <1>2, ReaderStutters, WriteReplaces, CallStutters DEF ReadersNext, ReaderStep

(* A read of the store is one of a register for each of its files, whoever  *)
(* reads and whatever is written meanwhile: whole versions, but of a file   *)
(* that was written between its footer and its pages; and no file passed    *)
(* over but by the walk of Rust.                                            *)
THEOREM ReadersRefine == ReadersSpec => ReadersImplementRegisters
<1> QED
  BY CallInit, CallNext, ReadersInvariance, PTL
  DEF ReadersSpec, ReadersImplementRegisters, CallRegisters!Spec
==============================================================================

------------------------- MODULE RandomAccessProofs -------------------------
(***************************************************************************)
(* Proofs about the accessor, for any archive the encoder can write, any     *)
(* number of tasks and caches, and any interleaving of opening, inserting,  *)
(* evicting and abandoned calls.  The first part is about the cache of       *)
(* goodbye tables that accessors share, the second about hardlinks, which a *)
(* caller can follow from an entry opened long before.                      *)
(***************************************************************************)
EXTENDS RandomAccess, EncoderExtentsProofs

(* The rows of the GOODBYE item at an offset of the archive.                *)
IsTableAt(key, table) ==
  \E g \in CellsOf(input, "GOODBYE") : g.at = key /\ g.item.rows = table

(***************************************************************************)
(* What is an object, a waiting call and a task.  A directory has its table *)
(* from the moment a task holds, lists or searches it; while its table is    *)
(* still to be read it only knows where it is.                              *)
(***************************************************************************)
Located(d) ==
  /\ d = [is |-> "directory", entry_ofs |-> d.entry_ofs,
          goodbye_ofs |-> d.goodbye_ofs, size |-> d.size, table |-> d.table,
          path |-> d.path, cache |-> d.cache]
  /\ d.cache \subseteq Caches

Loaded(d) == Located(d) /\ IsTableAt(d.goodbye_ofs, d.table)

IsReader(r) ==
  /\ r = [is |-> "read_dir", dir |-> r.dir, at |-> r.at,
          skipped |-> r.skipped, listed |-> r.listed]
  /\ Loaded(r.dir)

ObjectHolds(x) ==
  /\ x.is = "directory" => Loaded(x)
  /\ x.is = "read_dir" => IsReader(x)
  /\ x.is = "dir_entry" => IsReader(x.reader)
  /\ x.is = "entry" => x.cache \subseteq Caches

IsProbe(j) ==
  /\ j = [is |-> "probe", dir |-> j.dir, rest |-> j.rest, first |-> j.first,
          dup |-> j.dup]
  /\ Loaded(j.dir)

JobHolds(j) ==
  /\ j.is = "tail" => j.cache \subseteq Caches
  /\ j.is = "table" => Located(j.dir)
  /\ j.is = "probe" => IsProbe(j)

TaskHolds(task) ==
  /\ task = [object |-> task.object, job |-> task.job, asked |-> task.asked,
             answer |-> task.answer]
  /\ ObjectHolds(task.object)
  /\ JobHolds(task.job)

TasksHold ==
  /\ tasks = [t \in Tasks |-> tasks[t]]
  /\ \A t \in Tasks : TaskHolds(tasks[t])

CachesHold ==
  /\ stored = [c \in Caches |-> stored[c]]
  /\ \A c \in Caches : \A e \in stored[c] : IsTableAt(e.key, e.table)

AccessorHolds ==
  /\ accessor = [open |-> accessor.open, size |-> accessor.size,
                 cache |-> accessor.cache]
  /\ accessor.cache \subseteq Caches

(* Nobody reads before there is an archive.                                 *)
NobodyReads ==
  input = EmptyStream =>
    /\ stored = [c \in Caches |-> {}]
    /\ tasks = [t \in Tasks |-> IdleTask]

AccessInv == TasksHold /\ CachesHold /\ AccessorHolds /\ NobodyReads

-----------------------------------------------------------------------------
(***************************************************************************)
(* What becomes of a task.                                                 *)
(***************************************************************************)
(* A task with some of its fields replaced.                                 *)
LEMMA TaskIs ==
  ASSUME NEW task, TaskHolds(task), NEW x
  PROVE  /\ Returns(task, x) = [object |-> x, job |-> NoJob,
                                asked |-> task.asked, answer |-> "ok"]
         /\ ReturnsNone(task) =
              [object |-> task.object, job |-> NoJob, asked |-> task.asked,
               answer |-> "not_found"]
         /\ ReturnsError(task) =
              [object |-> task.object, job |-> NoJob, asked |-> task.asked,
               answer |-> "error"]
         /\ Awaits(task, x) = [object |-> task.object, job |-> x,
                               asked |-> task.asked, answer |-> task.answer]
         /\ [task EXCEPT !.asked = x, !.answer = "none"] =
              [object |-> task.object, job |-> task.job, asked |-> x,
               answer |-> "none"]
<1> DEFINE o == task.object
           k == task.job
           a == task.asked
           w == task.answer
<1>0. task = [object |-> o, job |-> k, asked |-> a, answer |-> w]
  BY Zenon DEF TaskHolds
<1> HIDE DEF o, k, a, w
<1> DEFINE r == [object |-> o, job |-> k, asked |-> a, answer |-> w]
           without == [object |-> o, job |-> NoJob, asked |-> a, answer |-> w]
           changed == [object |-> x, job |-> k, asked |-> a, answer |-> w]
           returned == [object |-> x, job |-> NoJob, asked |-> a, answer |-> w]
           asking == [object |-> o, job |-> k, asked |-> x, answer |-> w]
<1>1. [r EXCEPT !.job = NoJob] = without
  OBVIOUS
<1>2. [r EXCEPT !.object = x] = changed
  OBVIOUS
<1>3. [changed EXCEPT !.job = NoJob] = returned
  OBVIOUS
<1>4. [r EXCEPT !.asked = x] = asking
  OBVIOUS
<1>5. Returns(r, x) = [object |-> x, job |-> NoJob, asked |-> a,
                       answer |-> "ok"]
  <2>1. Returns(r, x) = [[[r EXCEPT !.object = x] EXCEPT !.job = NoJob]
                         EXCEPT !.answer = "ok"]
    BY DEF Returns
  <2>2. [returned EXCEPT !.answer = "ok"] =
          [object |-> x, job |-> NoJob, asked |-> a, answer |-> "ok"]
    OBVIOUS
  <2> QED  BY <1>2, <1>3, <2>1, <2>2
<1>6. ReturnsNone(r) = [object |-> o, job |-> NoJob, asked |-> a,
                        answer |-> "not_found"]
  <2>1. ReturnsNone(r) = [[r EXCEPT !.job = NoJob]
                          EXCEPT !.answer = "not_found"]
    BY DEF ReturnsNone
  <2>2. [without EXCEPT !.answer = "not_found"] =
          [object |-> o, job |-> NoJob, asked |-> a, answer |-> "not_found"]
    OBVIOUS
  <2> QED  BY <1>1, <2>1, <2>2
<1>7. ReturnsError(r) = [object |-> o, job |-> NoJob, asked |-> a,
                         answer |-> "error"]
  <2>1. ReturnsError(r) = [[r EXCEPT !.job = NoJob] EXCEPT !.answer = "error"]
    BY DEF ReturnsError
  <2>2. [without EXCEPT !.answer = "error"] =
          [object |-> o, job |-> NoJob, asked |-> a, answer |-> "error"]
    OBVIOUS
  <2> QED  BY <1>1, <2>1, <2>2
<1>8. Awaits(r, x) = [object |-> o, job |-> x, asked |-> a, answer |-> w]
  BY DEF Awaits
<1>9. [r EXCEPT !.asked = x, !.answer = "none"] =
        [object |-> o, job |-> k, asked |-> x, answer |-> "none"]
  <2>1. [r EXCEPT !.asked = x, !.answer = "none"] =
          [[r EXCEPT !.asked = x] EXCEPT !.answer = "none"]
    OBVIOUS
  <2>2. [asking EXCEPT !.answer = "none"] =
          [object |-> o, job |-> k, asked |-> x, answer |-> "none"]
    OBVIOUS
  <2> QED  BY <1>4, <2>1, <2>2
<1>10. task = r
  BY <1>0, Zenon
<1> HIDE DEF r
<1> QED  BY <1>5, <1>6, <1>7, <1>8, <1>9, <1>10, Zenon DEF o, k, a, w

LEMMA ReturnsHolds ==
  ASSUME NEW task, NEW x, TaskHolds(task), ObjectHolds(x)
  PROVE  TaskHolds(Returns(task, x))
<1>1. Returns(task, x) = [object |-> x, job |-> NoJob, asked |-> task.asked,
                          answer |-> "ok"]
  BY TaskIs
<1>2. JobHolds(NoJob)
  BY DEF JobHolds, NoJob
<1> QED  BY <1>1, <1>2 DEF TaskHolds

LEMMA EndsHold ==
  ASSUME NEW task, TaskHolds(task)
  PROVE  TaskHolds(ReturnsNone(task)) /\ TaskHolds(ReturnsError(task))
<1>1. /\ ReturnsNone(task) = [object |-> task.object, job |-> NoJob,
                              asked |-> task.asked, answer |-> "not_found"]
      /\ ReturnsError(task) = [object |-> task.object, job |-> NoJob,
                               asked |-> task.asked, answer |-> "error"]
  BY TaskIs
<1>2. JobHolds(NoJob) /\ ObjectHolds(task.object)
  BY DEF JobHolds, NoJob, TaskHolds
<1> QED  BY <1>1, <1>2 DEF TaskHolds

LEMMA AwaitsHolds ==
  ASSUME NEW task, NEW job, TaskHolds(task), JobHolds(job)
  PROVE  TaskHolds(Awaits(task, job))
<1>1. Awaits(task, job) = [object |-> task.object, job |-> job,
                           asked |-> task.asked, answer |-> task.answer]
  BY TaskIs
<1>2. ObjectHolds(task.object)
  BY DEF TaskHolds
<1> QED  BY <1>1, <1>2 DEF TaskHolds

LEMMA AwaitsTailHolds ==
  ASSUME NEW task, TaskHolds(task), NEW end, NEW path, NEW cache, NEW rest,
         cache \subseteq Caches
  PROVE  TaskHolds(AwaitsTail(task, end, path, cache, rest))
<1> DEFINE job == [is |-> "tail", end |-> end, path |-> path,
                   cache |-> cache, rest |-> rest]
<1>1. JobHolds(job)
  BY DEF JobHolds
<1> QED  BY <1>1, AwaitsHolds DEF AwaitsTail

LEMMA EntersHolds ==
  ASSUME NEW task, TaskHolds(task), NEW entry, NEW rest,
         entry.cache \subseteq Caches
  PROVE  TaskHolds(Enters(task, entry, rest))
BY AwaitsTailHolds, EndsHold, Zenon DEF Enters

LEMMA SearchesHolds ==
  ASSUME NEW task, TaskHolds(task), NEW dir, Loaded(dir), NEW rest
  PROVE  TaskHolds(Searches(task, dir, rest))
<1> DEFINE first == HashPosition(dir, HashOf[rest[1]], 0, 0)
           job == [is |-> "probe", dir |-> dir, rest |-> rest,
                   first |-> first, dup |-> 0]
<1>1. JobHolds(job)
  <2> HIDE DEF first
  <2> QED  BY DEF JobHolds, IsProbe
<1>2. TaskHolds(Awaits(task, job)) /\ TaskHolds(ReturnsNone(task))
  BY <1>1, AwaitsHolds, EndsHold, Zenon
<1> QED  BY <1>2, Zenon DEF Searches

LEMMA FindsHolds ==
  ASSUME NEW task, TaskHolds(task), NEW entry, ObjectHolds(entry),
         entry.is = "entry", NEW rest
  PROVE  TaskHolds(Finds(task, entry, rest))
<1>1. entry.cache \subseteq Caches
  BY DEF ObjectHolds
<1>2. /\ TaskHolds(Returns(task, entry))
      /\ TaskHolds(ReturnsError(task))
      /\ TaskHolds(Enters(task, entry, rest))
  BY <1>1, ReturnsHolds, EndsHold, EntersHolds, Zenon
<1> QED  BY <1>2, Zenon DEF Finds

LEMMA OpensHolds ==
  ASSUME NEW task, TaskHolds(task), NEW dir, Loaded(dir), NEW rest
  PROVE  TaskHolds(Opens(task, dir, rest))
<1>1. ObjectHolds(dir)
  BY DEF ObjectHolds, Loaded, Located
<1>2. TaskHolds(Returns(task, dir)) /\ TaskHolds(Searches(task, dir, rest))
  BY <1>1, ReturnsHolds, SearchesHolds, Zenon
<1> QED  BY <1>2, Zenon DEF Opens

(* What decoding yields is a file entry that hands the cache on.             *)
LEMMA FileEntryHolds ==
  ASSUME NEW o, NEW fho, NEW start, NEW end, NEW cache,
         cache \subseteq Caches
  PROVE  /\ FileEntry(o, fho, start, end, cache).is = "entry"
         /\ ObjectHolds(FileEntry(o, fho, start, end, cache))
<1> DEFINE e == FileEntry(o, fho, start, end, cache)
<1>1. e.is = "entry" /\ e.cache = cache
  BY DEF FileEntry
<1> QED  BY <1>1 DEF ObjectHolds

LEMMA FileEntriesHold ==
  ASSUME NEW fho, NEW start, NEW end, NEW path, NEW cache,
         cache \subseteq Caches,
         NEW e \in FileEntries(fho, start, end, path, cache)
  PROVE  e.is = "entry" /\ ObjectHolds(e)
<1>1. PICK o \in DecodeOneEntry(start, end, path) :
        e = FileEntry(o, fho, start, end, cache)
  BY Zenon DEF FileEntries
<1> QED  BY <1>1, FileEntryHolds, Zenon

-----------------------------------------------------------------------------
(***************************************************************************)
(* A step of one task, over the same archive.                               *)
(***************************************************************************)
LEMMA PutHolds ==
  ASSUME TasksHold, input' = input, NEW t \in Tasks, NEW task,
         TaskHolds(task), Put(t, task)
  PROVE  TasksHold'
<1>1. \A k, r : IsTableAt(k, r)' <=> IsTableAt(k, r)
  BY DEF IsTableAt, CellsOf
<1>2. \A x : TaskHolds(x) =>
        /\ x = [object |-> x.object, job |-> x.job, asked |-> x.asked,
                answer |-> x.answer]
        /\ ObjectHolds(x.object)'
        /\ JobHolds(x.job)'
  BY <1>1 DEF TaskHolds, ObjectHolds, JobHolds, IsReader, IsProbe, Loaded,
              Located
<1>3. tasks' = [tasks EXCEPT ![t] = task]
  BY DEF Put
<1>4. \A u \in Tasks : TaskHolds(tasks'[u])
  BY <1>3 DEF TasksHold
<1> QED  BY <1>2, <1>3, <1>4 DEF TasksHold, TaskHolds

(* The task that asks: it holds what it held.                               *)
LEMMA AskingHolds ==
  ASSUME TasksHold, NEW t \in Tasks, NEW call, NEW path
  PROVE  /\ TaskHolds(tasks[t])
         /\ TaskHolds(Asking(t, call, path))
         /\ ObjectHolds(Held(t))
<1>1. TaskHolds(tasks[t])
  BY DEF TasksHold
<1> DEFINE x == [call |-> call, receiver |-> tasks[t].object, path |-> path]
<1>2. Asking(t, call, path) =
        [object |-> tasks[t].object, job |-> tasks[t].job, asked |-> x,
         answer |-> "none"]
  <2> HIDE DEF x
  <2> QED  BY <1>1, TaskIs DEF Asking, x
<1>3. ObjectHolds(tasks[t].object) /\ JobHolds(tasks[t].job)
  BY <1>1, Zenon DEF TaskHolds
<1> HIDE DEF x
<1> QED  BY <1>1, <1>2, <1>3 DEF TaskHolds, Held

(* One of several outcomes, or an error.                                     *)
LEMMA PutOneOfKeeps ==
  ASSUME TasksHold, input' = input, NEW t \in Tasks, NEW task,
         TaskHolds(task), NEW outcomes,
         \A x \in outcomes : TaskHolds(x), PutOneOf(t, outcomes, task)
  PROVE  TasksHold'
BY PutHolds, EndsHold, Zenon DEF PutOneOf

LEMMA ReturnOneOfKeeps ==
  ASSUME TasksHold, input' = input, NEW t \in Tasks, NEW task,
         TaskHolds(task), NEW objects,
         \A x \in objects : ObjectHolds(x), ReturnOneOf(t, objects, task)
  PROVE  TasksHold'
<1>1. \A x \in {Returns(task, y) : y \in objects} : TaskHolds(x)
  BY ReturnsHolds, Zenon
<1> QED  BY <1>1, PutOneOfKeeps, Zenon DEF ReturnOneOf

-----------------------------------------------------------------------------
(***************************************************************************)
(* Iterators.                                                              *)
(***************************************************************************)
LEMMA ReaderHolds ==
  ASSUME NEW x, ObjectHolds(x), x.is \in {"read_dir", "dir_entry"}
  PROVE  IsReader(Reader(x))
BY Zenon DEF ObjectHolds, Reader

LEMMA SkippingHolds ==
  ASSUME NEW r, IsReader(r), NEW n
  PROVE  ObjectHolds(Skipping(r, n)) /\ Skipping(r, n).is = "read_dir"
<1> DEFINE d == r.dir
           i == r.at
           k == r.skipped
           l == r.listed
           q == [is |-> "read_dir", dir |-> d, at |-> i, skipped |-> k,
                 listed |-> l]
<1>1. r = q
  BY Zenon DEF IsReader
<1>2. Loaded(d)
  BY Zenon DEF IsReader
<1> HIDE DEF d, i, k, l
<1>3. \A v, w : [[q EXCEPT !.at = v] EXCEPT !.skipped = w]
                  = [is |-> "read_dir", dir |-> d, at |-> v, skipped |-> w,
                     listed |-> l]
  <2> TAKE v, w
  <2> DEFINE moved == [is |-> "read_dir", dir |-> d, at |-> v, skipped |-> k,
                       listed |-> l]
  <2>1. [q EXCEPT !.at = v] = moved
    OBVIOUS
  <2>2. [moved EXCEPT !.skipped = w] =
          [is |-> "read_dir", dir |-> d, at |-> v, skipped |-> w,
           listed |-> l]
    OBVIOUS
  <2> QED  BY <2>1, <2>2
<1>4. \E v, w : Skipping(q, n) = [[q EXCEPT !.at = v] EXCEPT !.skipped = w]
  BY DEF Skipping
<1>5. \E v, w : Skipping(q, n) =
                  [is |-> "read_dir", dir |-> d, at |-> v, skipped |-> w,
                   listed |-> l]
  BY <1>3, <1>4, Zenon
<1>6. ObjectHolds(Skipping(q, n)) /\ Skipping(q, n).is = "read_dir"
  BY <1>2, <1>5 DEF ObjectHolds, IsReader
<1> HIDE DEF q
<1> QED  BY <1>1, <1>6, Zenon

LEMMA DirEntryHolds ==
  ASSUME NEW r, IsReader(r), NEW cursor
  PROVE  ObjectHolds(DirEntry(r, cursor))
<1> DEFINE d == r.dir
           i == r.at
           k == r.skipped
           l == r.listed
           q == [is |-> "read_dir", dir |-> d, at |-> i, skipped |-> k,
                 listed |-> l]
           i1 == i + 1
           l1 == l \cup {cursor.filename_header_offset}
           moved == [is |-> "read_dir", dir |-> d, at |-> i1, skipped |-> k,
                     listed |-> l]
           next == [is |-> "read_dir", dir |-> d, at |-> i1, skipped |-> k,
                    listed |-> l1]
<1>1. r = q
  BY Zenon DEF IsReader
<1>2. Loaded(d)
  BY Zenon DEF IsReader
<1> HIDE DEF d, i, k, l
<1>3. [q EXCEPT !.at = @ + 1,
                !.listed = @ \cup {cursor.filename_header_offset}]
        = [[q EXCEPT !.at = i1] EXCEPT !.listed = l1]
  OBVIOUS
<1> HIDE DEF i1, l1
<1>4. [q EXCEPT !.at = i1] = moved
  OBVIOUS
<1>5. [moved EXCEPT !.listed = l1] = next
  OBVIOUS
<1>6. DirEntry(q, cursor) = [is |-> "dir_entry", cursor |-> cursor,
                             reader |-> next]
  BY <1>3, <1>4, <1>5 DEF DirEntry
<1>7. ObjectHolds(DirEntry(q, cursor))
  BY <1>2, <1>6 DEF ObjectHolds, IsReader
<1> HIDE DEF q
<1> QED  BY <1>1, <1>7, Zenon

-----------------------------------------------------------------------------
(***************************************************************************)
(* Calls.                                                                  *)
(***************************************************************************)
LEMMA OpeningCallsKeep ==
  ASSUME TasksHold, AccessorHolds, NEW t \in Tasks,
         OpenRoot(t) \/ OpenDirAtEnd(t) \/ EnterDirectory(t)
  PROVE  TasksHold'
<1>1. accessor.cache \subseteq Caches
  BY DEF AccessorHolds
<1>2. CASE OpenRoot(t)
  <2>1. TaskHolds(AwaitsTail(Asking(t, "open_root", <<>>), accessor.size,
                             <<>>, accessor.cache, <<>>))
    BY <1>1, AskingHolds, AwaitsTailHolds, Zenon
  <2> QED  BY <1>2, <2>1, PutHolds, Zenon DEF OpenRoot, OnlyTasks
<1>3. CASE OpenDirAtEnd(t)
  <2>1. TaskHolds(AwaitsTail(Asking(t, "open_dir_at_end", <<>>), Held(t).end,
                             <<>>, accessor.cache, <<>>))
    BY <1>1, AskingHolds, AwaitsTailHolds, Zenon
  <2> QED  BY <1>3, <2>1, PutHolds, Zenon DEF OpenDirAtEnd, OnlyTasks
<1>4. CASE EnterDirectory(t)
  <2>1. Held(t).cache \subseteq Caches
    BY <1>4, AskingHolds DEF EnterDirectory, Holds, ObjectHolds, Held
  <2>2. TaskHolds(Enters(Asking(t, "enter_directory", <<>>), Held(t), <<>>))
    BY <2>1, AskingHolds, EntersHolds, Zenon
  <2> QED  BY <1>4, <2>2, PutHolds, Zenon DEF EnterDirectory, OnlyTasks
<1> QED  BY <1>2, <1>3, <1>4

LEMMA ItselfHolds ==
  ASSUME NEW dir, Loaded(dir), NEW e \in Itself(dir)
  PROVE  e.is = "entry" /\ ObjectHolds(e)
<1>1. dir.cache \subseteq Caches
  BY DEF Loaded, Located
<1> QED  BY <1>1, FileEntriesHold, Zenon DEF Itself

LEMMA DecodedHolds ==
  ASSUME NEW dir, Loaded(dir), NEW cursor, NEW e \in Decoded(dir, cursor)
  PROVE  e.is = "entry" /\ ObjectHolds(e)
<1>1. dir.cache \subseteq Caches
  BY DEF Loaded, Located
<1> QED  BY <1>1, FileEntriesHold, Zenon DEF Decoded

LEMMA LookupKeeps ==
  ASSUME TasksHold, NEW t \in Tasks, NEW path, Lookup(t, path)
  PROVE  TasksHold'
<1> DEFINE task == Asking(t, "lookup", path)
<1>1. Loaded(Held(t)) /\ TaskHolds(task)
  BY AskingHolds DEF Lookup, Holds, ObjectHolds, Held
<1>2. \A x \in {Finds(task, e, Tail(path)) : e \in Itself(Held(t))} :
        TaskHolds(x)
  BY <1>1, ItselfHolds, FindsHolds, Zenon
<1>3. /\ TaskHolds(ReturnsNone(task))
      /\ TaskHolds(ReturnsError(task))
      /\ TaskHolds(Searches(task, Held(t), path))
  BY <1>1, EndsHold, SearchesHolds, Zenon
<1>4. input' = input
  BY DEF Lookup, OnlyTasks
<1>5. \/ Put(t, ReturnsNone(task))
      \/ PutOneOf(t, {Finds(task, e, Tail(path)) : e \in Itself(Held(t))},
                  task)
      \/ Put(t, ReturnsError(task))
      \/ Put(t, Searches(task, Held(t), path))
  BY Zenon DEF Lookup
<1> HIDE DEF task
<1> QED  BY <1>1, <1>2, <1>3, <1>4, <1>5, PutHolds, PutOneOfKeeps, Zenon

LEMMA LookupSelfKeeps ==
  ASSUME TasksHold, NEW t \in Tasks, LookupSelf(t)
  PROVE  TasksHold'
<1>1. Loaded(Held(t))
  BY AskingHolds DEF LookupSelf, Holds, ObjectHolds, Held
<1>2. \A x \in Itself(Held(t)) : ObjectHolds(x)
  BY <1>1, ItselfHolds, Zenon
<1>3. TaskHolds(Asking(t, "lookup_self", <<>>))
  BY AskingHolds, Zenon
<1> QED  BY <1>2, <1>3, ReturnOneOfKeeps, Zenon DEF LookupSelf, OnlyTasks

LEMMA ListingKeeps ==
  ASSUME TasksHold, NEW t \in Tasks, NEW n,
         ReadDir(t) \/ SkipEntries(t, n) \/ NextEntry(t)
  PROVE  TasksHold'
<1>1. CASE ReadDir(t)
  <2> DEFINE task == Asking(t, "read_dir", <<>>)
             reader == [is |-> "read_dir", dir |-> Held(t), at |-> 0,
                        skipped |-> 0, listed |-> {}]
  <2>1. Loaded(Held(t)) /\ TaskHolds(task)
    BY <1>1, AskingHolds DEF ReadDir, Holds, ObjectHolds, Held
  <2>2. ObjectHolds(reader)
    BY <2>1 DEF ObjectHolds, IsReader
  <2>3. TaskHolds(Returns(task, reader))
    BY <2>1, <2>2, ReturnsHolds, Zenon
  <2> QED  BY <1>1, <2>3, PutHolds, Zenon DEF ReadDir, OnlyTasks
<1>2. CASE SkipEntries(t, n)
  <2> DEFINE task == Asking(t, "skip", <<>>)
  <2>1. IsReader(Reader(Held(t))) /\ TaskHolds(task)
    BY <1>2, AskingHolds, ReaderHolds, Zenon DEF SkipEntries, Holds, Held
  <2>2. TaskHolds(Returns(task, Skipping(Reader(Held(t)), n)))
    BY <2>1, SkippingHolds, ReturnsHolds, Zenon
  <2> QED  BY <1>2, <2>2, PutHolds, Zenon DEF SkipEntries, OnlyTasks
<1>3. CASE NextEntry(t)
  <2> DEFINE task == Asking(t, "next", <<>>)
             reader == Reader(Held(t))
             entries == {DirEntry(reader, cursor) :
                           cursor \in Cursors(reader.dir, reader.at)}
  <2>1. IsReader(reader) /\ TaskHolds(task)
    BY <1>3, AskingHolds, ReaderHolds, Zenon DEF NextEntry, Holds, Held
  <2>2. \A x \in entries : ObjectHolds(x)
    BY <2>1, DirEntryHolds, Zenon
  <2>3. TaskHolds(ReturnsNone(task))
    BY <2>1, EndsHold, Zenon
  <2>4. input' = input
    BY <1>3 DEF NextEntry, OnlyTasks
  <2>5. Put(t, ReturnsNone(task)) \/ ReturnOneOf(t, entries, task)
    BY <1>3, Zenon DEF NextEntry
  <2> HIDE DEF task, entries
  <2> QED  BY <2>1, <2>2, <2>3, <2>4, <2>5, PutHolds, ReturnOneOfKeeps, Zenon
<1> QED  BY <1>1, <1>2, <1>3

LEMMA EntryCallsKeep ==
  ASSUME TasksHold, AccessorHolds, NEW t \in Tasks,
         \/ DecodeEntry(t)
         \/ FollowHardlink(t)
         \/ OpenFileAtRange(t)
         \/ Contents(t)
  PROVE  TasksHold'
<1>0. accessor.cache \subseteq Caches
  BY DEF AccessorHolds
<1>1. CASE DecodeEntry(t)
  <2> DEFINE task == Asking(t, "decode_entry", <<>>)
             dir == Held(t).reader.dir
  <2>1. Loaded(dir) /\ TaskHolds(task)
    BY <1>1, AskingHolds DEF DecodeEntry, Holds, ObjectHolds, IsReader, Held
  <2>2. \A x \in Decoded(dir, Held(t).cursor) : ObjectHolds(x)
    BY <2>1, DecodedHolds, Zenon
  <2> QED  BY <1>1, <2>1, <2>2, ReturnOneOfKeeps, Zenon
           DEF DecodeEntry, OnlyTasks
<1>2. CASE FollowHardlink(t)
  <2> DEFINE task == Asking(t, "follow_hardlink", <<>>)
             targets == {x \in LinkTargets(Held(t)) :
                           Held(t).kind = "Hardlink"}
             files == UNION {FilesBehind(c, accessor.size) : c \in targets}
  <2>1. ASSUME NEW c, NEW x \in FilesBehind(c, accessor.size)
        PROVE  ObjectHolds(x)
    <3>1. \E o, fho, start, end : x = FileEntry(o, fho, start, end,
                                                accessor.cache)
      BY <2>1, Zenon DEF FilesBehind
    <3> QED  BY <1>0, <3>1, FileEntryHolds, Zenon
  <2>2. \A x \in files : ObjectHolds(x)
    BY <2>1, Zenon
  <2>3. TaskHolds(task)
    BY AskingHolds, Zenon
  <2>4. ReturnOneOf(t, files, task) /\ input' = input
    BY <1>2, Zenon DEF FollowHardlink, OnlyTasks
  <2> HIDE DEF task, files
  <2> QED  BY <2>2, <2>3, <2>4, ReturnOneOfKeeps, Zenon
<1>3. CASE OpenFileAtRange(t)
  <2>1. \A x \in Reopened(Held(t)) : ObjectHolds(x)
    BY <1>0, FileEntriesHold, Zenon DEF Reopened
  <2>2. TaskHolds(Asking(t, "open_file_at_range", <<>>))
    BY AskingHolds, Zenon
  <2> QED  BY <1>3, <2>1, <2>2, ReturnOneOfKeeps, Zenon
           DEF OpenFileAtRange, OnlyTasks
<1>4. CASE Contents(t)
  <2>1. \A x \in FileContents(Held(t)) : x.is = "contents"
    BY DEF FileContents, ContentRange
  <2>2. \A x \in FileContents(Held(t)) : ObjectHolds(x)
    BY <2>1 DEF ObjectHolds
  <2>3. TaskHolds(Asking(t, "contents", <<>>))
    BY AskingHolds, Zenon
  <2> QED  BY <1>4, <2>2, <2>3, ReturnOneOfKeeps, Zenon
           DEF Contents, OnlyTasks
<1> QED  BY <1>1, <1>2, <1>3, <1>4

-----------------------------------------------------------------------------
(***************************************************************************)
(* Waiting calls.                                                          *)
(***************************************************************************)
LEMMA CachesUnmoved ==
  ASSUME CachesHold, input' = input, stored' = stored
  PROVE  CachesHold'
BY DEF CachesHold, IsTableAt, CellsOf

(* A located directory, once it has the table at its offset.                *)
LEMMA LoadedWithTable ==
  ASSUME NEW d, Located(d), NEW table, IsTableAt(d.goodbye_ofs, table)
  PROVE  Loaded([d EXCEPT !.table = table])
<1> DEFINE a == d.entry_ofs
           g == d.goodbye_ofs
           s == d.size
           b == d.table
           p == d.path
           c == d.cache
           q == [is |-> "directory", entry_ofs |-> a, goodbye_ofs |-> g,
                 size |-> s, table |-> b, path |-> p, cache |-> c]
           r == [is |-> "directory", entry_ofs |-> a, goodbye_ofs |-> g,
                 size |-> s, table |-> table, path |-> p, cache |-> c]
<1>1. d = q
  BY Zenon DEF Located
<1>2. c \subseteq Caches /\ IsTableAt(g, table)
  BY Zenon DEF Located
<1> HIDE DEF a, g, s, b, p, c
<1>3. [q EXCEPT !.table = table] = r
  OBVIOUS
<1>4. Loaded(r)
  BY <1>2 DEF Loaded, Located
<1> HIDE DEF q, r
<1> QED  BY <1>1, <1>3, <1>4, Zenon

LEMMA DirectoriesAreLocated ==
  ASSUME NEW end, NEW path, NEW cache, cache \subseteq Caches,
         NEW d \in DirectoriesAtEnd(end, path, cache)
  PROVE  Located(d)
<1>1. PICK tail : d = Directory(tail, end, path, cache)
  BY Zenon DEF DirectoriesAtEnd
<1> QED  BY <1>1 DEF Directory, Located

(* The directory at the end, with a table that its cache holds.              *)
LEMMA FetchedIsLoaded ==
  ASSUME CachesHold, NEW end, NEW path, NEW cache, cache \subseteq Caches,
         NEW x \in UNION {{[dir EXCEPT !.table = table] :
                             table \in Fetch(dir)} :
                            dir \in DirectoriesAtEnd(end, path, cache)}
  PROVE  Loaded(x)
<1> DEFINE dirs == DirectoriesAtEnd(end, path, cache)
<1>1. PICK d \in dirs : x \in {[d EXCEPT !.table = table] : table \in Fetch(d)}
  OBVIOUS
<1>2. PICK table \in Fetch(d) : x = [d EXCEPT !.table = table]
  BY <1>1
<1>3. Located(d)
  BY DirectoriesAreLocated
<1>4. PICK c \in d.cache :
        \E e \in stored[c] : e.key = d.goodbye_ofs /\ e.table = table
  BY DEF Fetch
<1>5. c \in Caches
  BY <1>3, <1>4 DEF Located
<1>6. IsTableAt(d.goodbye_ofs, table)
  BY <1>4, <1>5 DEF CachesHold
<1> QED  BY <1>2, <1>3, <1>6, LoadedWithTable

LEMMA ReadTailKeeps ==
  ASSUME TasksHold, CachesHold, NEW t \in Tasks, ReadTail(t)
  PROVE  TasksHold'
<1> DEFINE job == tasks[t].job
           dirs == DirectoriesAtEnd(job.end, job.path, job.cache)
           known == UNION {{[dir EXCEPT !.table = table] :
                              table \in Fetch(dir)} : dir \in dirs}
           opened == {Opens(tasks[t], dir, job.rest) : dir \in known}
           waiting == {AwaitsTable(tasks[t], dir, job.rest) : dir \in dirs}
<1>1. TaskHolds(tasks[t]) /\ job.cache \subseteq Caches
  BY AskingHolds DEF ReadTail, Job, TaskHolds, JobHolds
<1>2. \A d \in dirs : Located(d)
  BY <1>1, DirectoriesAreLocated, Zenon
<1>4. \A x \in known : Loaded(x)
  BY <1>1, FetchedIsLoaded
<1>5. \A x \in opened : TaskHolds(x)
  <2> HIDE DEF known
  <2> QED  BY <1>1, <1>4, OpensHolds, Zenon
<1>6. \A x \in waiting : TaskHolds(x)
  <2>1. ASSUME NEW d \in dirs
        PROVE  TaskHolds(AwaitsTable(tasks[t], d, job.rest))
    <3>1. JobHolds([is |-> "table", dir |-> d, rest |-> job.rest])
      BY <1>2 DEF JobHolds
    <3> QED  BY <1>1, <3>1, AwaitsHolds DEF AwaitsTable
  <2> QED  BY <2>1, Zenon
<1>7. /\ PutOneOf(t, IF known # {} THEN opened ELSE waiting, tasks[t])
      /\ input' = input
  BY Zenon DEF ReadTail, OnlyTasks
<1> HIDE DEF known, opened, waiting
<1> QED  BY <1>1, <1>5, <1>6, <1>7, PutOneOfKeeps, Zenon

(* What is inserted is the table of the directory that was just opened.      *)
LEMMA InsertKeeps ==
  ASSUME CachesHold, input' = input, NEW dir, Loaded(dir), Insert(dir)
  PROVE  CachesHold'
<1>1. CASE UNCHANGED stored
  BY <1>1, CachesUnmoved
<1>2. CASE stored' =
             [c \in Caches |->
                IF c \in dir.cache
                  THEN {e \in stored[c] : e.key # dir.goodbye_ofs}
                         \cup {[key |-> dir.goodbye_ofs, table |-> dir.table]}
                  ELSE stored[c]]
  <2>1. \A k, r : IsTableAt(k, r)' <=> IsTableAt(k, r)
    BY DEF IsTableAt, CellsOf
  <2>2. ASSUME NEW c \in Caches, NEW e \in stored'[c]
        PROVE  IsTableAt(e.key, e.table)
    <3>1. \/ e \in stored[c]
          \/ e = [key |-> dir.goodbye_ofs, table |-> dir.table]
      BY <1>2, <2>2
    <3>2. CASE e \in stored[c]
      BY <3>2 DEF CachesHold
    <3>3. CASE e = [key |-> dir.goodbye_ofs, table |-> dir.table]
      BY <3>3 DEF Loaded
    <3> QED  BY <3>1, <3>2, <3>3
  <2>3. stored' = [c \in Caches |-> stored'[c]]
    BY <1>2
  <2> QED  BY <2>1, <2>2, <2>3 DEF CachesHold
<1> QED  BY <1>1, <1>2 DEF Insert

LEMMA LoadTableKeeps ==
  ASSUME TasksHold, CachesHold, NEW t \in Tasks, LoadTable(t)
  PROVE  TasksHold' /\ CachesHold'
<1> DEFINE job == tasks[t].job
           loaded == {[job.dir EXCEPT !.table = table] :
                        table \in Tables(job.dir)}
<1>1. TaskHolds(tasks[t]) /\ Located(job.dir)
  BY AskingHolds DEF LoadTable, Job, TaskHolds, JobHolds
<1>2. ASSUME NEW table \in Tables(job.dir)
      PROVE  Loaded([job.dir EXCEPT !.table = table])
  <2>1. IsTableAt(job.dir.goodbye_ofs, table)
    BY <1>2 DEF Tables, IsTableAt
  <2> QED  BY <1>1, <2>1, LoadedWithTable
<1>3. \A d \in loaded : Loaded(d)
  BY <1>2, Zenon
<1>4. input' = input
  BY DEF LoadTable
<1>5. CASE \E dir \in loaded :
             Put(t, Opens(tasks[t], dir, job.rest)) /\ Insert(dir)
  <2>1. PICK dir \in loaded :
          Put(t, Opens(tasks[t], dir, job.rest)) /\ Insert(dir)
    BY <1>5, Zenon
  <2>2. Loaded(dir)
    BY <1>3, <2>1, Zenon
  <2>3. TaskHolds(Opens(tasks[t], dir, job.rest))
    BY <1>1, <2>2, OpensHolds, Zenon
  <2> QED  BY <1>4, <2>1, <2>2, <2>3, PutHolds, InsertKeeps, Zenon
<1>6. CASE Put(t, ReturnsError(tasks[t])) /\ UNCHANGED stored
  <2>1. TaskHolds(ReturnsError(tasks[t]))
    BY <1>1, EndsHold, Zenon
  <2> QED  BY <1>4, <1>6, <2>1, PutHolds, CachesUnmoved, Zenon
<1> QED  BY <1>5, <1>6, Zenon DEF LoadTable

LEMMA ProbeAgain ==
  ASSUME NEW j, IsProbe(j)
  PROVE  JobHolds([j EXCEPT !.dup = @ + 1])
<1> DEFINE d == j.dir
           r == j.rest
           f == j.first
           u == j.dup
           u1 == u + 1
           q == [is |-> "probe", dir |-> d, rest |-> r, first |-> f, dup |-> u]
           p == [is |-> "probe", dir |-> d, rest |-> r, first |-> f, dup |-> u1]
<1>1. j = q /\ Loaded(d)
  BY Zenon DEF IsProbe
<1> HIDE DEF d, r, f, u
<1>2. [q EXCEPT !.dup = @ + 1] = [q EXCEPT !.dup = u1]
  OBVIOUS
<1> HIDE DEF u1
<1>3. [q EXCEPT !.dup = u1] = p
  OBVIOUS
<1>4. JobHolds(p)
  BY <1>1 DEF JobHolds, IsProbe
<1> HIDE DEF q, p
<1> QED  BY <1>1, <1>2, <1>3, <1>4, Zenon

LEMMA ProbeKeeps ==
  ASSUME TasksHold, NEW t \in Tasks, Probe(t)
  PROVE  TasksHold'
<1> DEFINE job == tasks[t].job
           index == HashPosition(job.dir, HashOf[job.rest[1]], job.first,
                                 job.dup)
           outcomes == UNION {Probed(tasks[t], cursor) :
                                cursor \in Cursors(job.dir, index)}
<1>1. TaskHolds(tasks[t]) /\ IsProbe(job) /\ Loaded(job.dir)
  BY AskingHolds DEF Probe, Job, TaskHolds, JobHolds, IsProbe
<1>2. ASSUME NEW cursor, NEW x \in Probed(tasks[t], cursor)
      PROVE  TaskHolds(x)
  <2>1. TaskHolds(Awaits(tasks[t], [job EXCEPT !.dup = @ + 1]))
    BY <1>1, ProbeAgain, AwaitsHolds, Zenon
  <2>2. \A e \in Decoded(job.dir, cursor) :
          TaskHolds(Finds(tasks[t], e, Tail(job.rest)))
    BY <1>1, DecodedHolds, FindsHolds, Zenon
  <2> QED  BY <1>2, <2>1, <2>2, Zenon DEF Probed
<1>3. \A x \in outcomes : TaskHolds(x)
  BY <1>2, Zenon
<1>4. TaskHolds(ReturnsNone(tasks[t]))
  BY <1>1, EndsHold, Zenon
<1>5. /\ Put(t, ReturnsNone(tasks[t])) \/ PutOneOf(t, outcomes, tasks[t])
      /\ input' = input
  BY Zenon DEF Probe, OnlyTasks
<1> HIDE DEF outcomes
<1> QED  BY <1>1, <1>3, <1>4, <1>5, PutHolds, PutOneOfKeeps, Zenon

LEMMA InterruptKeeps ==
  ASSUME TasksHold, NEW t \in Tasks, Interrupt(t)
  PROVE  TasksHold'
<1> DEFINE task == [IdleTask EXCEPT !.object = tasks[t].object]
<1>1. task = [object |-> tasks[t].object, job |-> NoJob, asked |-> NoCall,
              answer |-> "none"]
  BY DEF IdleTask
<1>2. ObjectHolds(tasks[t].object)
  BY AskingHolds DEF Held
<1>3. JobHolds(NoJob)
  BY DEF JobHolds, NoJob
<1>4. TaskHolds(task)
  BY <1>1, <1>2, <1>3 DEF TaskHolds
<1> HIDE DEF task
<1> QED  BY <1>4, PutHolds, Zenon DEF Interrupt, OnlyTasks, task

LEMMA EvictKeeps ==
  ASSUME CachesHold, NEW c \in Caches, NEW e \in stored[c], Evict(c, e)
  PROVE  CachesHold'
<1>1. input' = input /\ stored' = [stored EXCEPT ![c] = @ \ {e}]
  BY DEF Evict
<1>2. \A k, r : IsTableAt(k, r)' <=> IsTableAt(k, r)
  BY <1>1 DEF IsTableAt, CellsOf
<1>3. \A x \in Caches : stored'[x] \subseteq stored[x]
  BY <1>1 DEF CachesHold
<1>4. stored' = [x \in Caches |-> stored'[x]]
  BY <1>1 DEF CachesHold
<1> QED  BY <1>2, <1>3, <1>4 DEF CachesHold

-----------------------------------------------------------------------------
(***************************************************************************)
(* The composition.                                                        *)
(***************************************************************************)
LEMMA IdleHolds == TaskHolds(IdleTask)
BY DEF TaskHolds, IdleTask, ObjectHolds, JobHolds, NoObject, NoJob

(* Nobody does anything: the archive may be another.                         *)
LEMMA NothingHolds ==
  ASSUME stored = [c \in Caches |-> {}], tasks = [t \in Tasks |-> IdleTask]
  PROVE  TasksHold /\ CachesHold
<1>1. TasksHold
  BY IdleHolds DEF TasksHold
<1>2. CachesHold
  BY DEF CachesHold
<1> QED  BY <1>1, <1>2

LEMMA AccessInit == RandomAccessInit => AccessInv
<1> SUFFICES ASSUME RandomAccessInit PROVE AccessInv
  OBVIOUS
<1> USE DEF RandomAccessInit, AccessorInit
<1>1. TasksHold /\ CachesHold
  BY NothingHolds
<1>2. AccessorHolds
  BY DEF AccessorHolds, NoAccessor
<1>3. NobodyReads
  BY DEF NobodyReads
<1> QED  BY <1>1, <1>2, <1>3 DEF AccessInv

LEMMA TasksUnmoved ==
  ASSUME TasksHold, input' = input, tasks' = tasks
  PROVE  TasksHold'
<1>1. \A k, r : IsTableAt(k, r)' <=> IsTableAt(k, r)
  BY DEF IsTableAt, CellsOf
<1>2. ASSUME NEW x, TaskHolds(x)
      PROVE  /\ x = [object |-> x.object, job |-> x.job, asked |-> x.asked,
                      answer |-> x.answer]
             /\ ObjectHolds(x.object)'
             /\ JobHolds(x.job)'
  BY <1>1, <1>2 DEF TaskHolds, ObjectHolds, JobHolds, IsReader, IsProbe,
                    Loaded, Located
<1> QED  BY <1>2 DEF TasksHold, TaskHolds

LEMMA AccessorUnmoved ==
  ASSUME AccessorHolds, accessor' = accessor
  PROVE  AccessorHolds'
BY DEF AccessorHolds

LEMMA NewAccessorKeeps ==
  ASSUME AccessorHolds, NEW size, NewAccessor(size)
  PROVE  AccessorHolds'
<1> DEFINE yes == TRUE
           none == [NoAccessor EXCEPT !.open = yes]
           open == [open |-> yes, size |-> 0, cache |-> {}]
           new == [open |-> yes, size |-> size, cache |-> {}]
<1>1. accessor' = [none EXCEPT !.size = size]
  BY DEF NewAccessor
<1> HIDE DEF yes
<1>2. none = open
  BY DEF NoAccessor
<1>3. [open EXCEPT !.size = size] = new
  OBVIOUS
<1>4. accessor' = new
  BY <1>1, <1>2, <1>3
<1> QED  BY <1>4 DEF AccessorHolds

LEMMA SetCacheKeeps ==
  ASSUME AccessorHolds, NEW cache, cache \subseteq Caches,
         SetGoodbyeTableCache(cache)
  PROVE  AccessorHolds'
<1> DEFINE o == accessor.open
           s == accessor.size
           c == accessor.cache
           old == [open |-> o, size |-> s, cache |-> c]
           new == [open |-> o, size |-> s, cache |-> cache]
<1>1. accessor = old
  BY Zenon DEF AccessorHolds
<1>2. accessor' = [accessor EXCEPT !.cache = cache]
  BY DEF SetGoodbyeTableCache
<1> HIDE DEF o, s, c
<1>3. [old EXCEPT !.cache = cache] = new
  OBVIOUS
<1>4. accessor' = new
  BY <1>1, <1>2, <1>3
<1> QED  BY <1>4 DEF AccessorHolds

LEMMA AccessKeeps ==
  ASSUME AccessInv, AccessorNext
  PROVE  TasksHold' /\ CachesHold' /\ AccessorHolds' /\ input' = input
<1>1. TasksHold /\ CachesHold /\ AccessorHolds
  BY DEF AccessInv
<1>2. CASE NewAccessor(input.len)
  <2>1. UNCHANGED <<input, stored, tasks>>
    BY <1>2 DEF NewAccessor
  <2>2. TasksHold'
    BY <1>1, <2>1, TasksUnmoved
  <2> QED  BY <1>1, <1>2, <2>1, <2>2, NewAccessorKeeps, CachesUnmoved, Zenon
<1>3. ASSUME NEW cache \in {{}} \cup {{c} : c \in Caches},
             SetGoodbyeTableCache(cache)
      PROVE  TasksHold' /\ CachesHold' /\ AccessorHolds' /\ input' = input
  <2>1. UNCHANGED <<input, stored, tasks>>
    BY <1>3 DEF SetGoodbyeTableCache
  <2>2. TasksHold'
    BY <1>1, <2>1, TasksUnmoved
  <2>3. cache \subseteq Caches
    BY <1>3
  <2> QED  BY <1>1, <1>3, <2>1, <2>2, <2>3, SetCacheKeeps, CachesUnmoved, Zenon
<1>4. ASSUME NEW t \in Tasks, AccessorCalls(t)
      PROVE  TasksHold' /\ CachesHold' /\ AccessorHolds' /\ input' = input
  <2>1. UNCHANGED <<input, accessor, stored>>
    BY <1>4 DEF AccessorCalls, OpenRoot, OpenDirAtEnd, EnterDirectory, Lookup,
                LookupSelf, ReadDir, SkipEntries, NextEntry, DecodeEntry,
                FollowHardlink, OpenFileAtRange, Contents, OnlyTasks
  <2>2. TasksHold'
    BY <1>1, <1>4, OpeningCallsKeep, LookupKeeps, LookupSelfKeeps,
       ListingKeeps, EntryCallsKeep, Zenon DEF AccessorCalls
  <2> QED  BY <1>1, <2>1, <2>2, CachesUnmoved, AccessorUnmoved
<1>5. ASSUME NEW t \in Tasks, Goes(t)
      PROVE  TasksHold' /\ CachesHold' /\ AccessorHolds' /\ input' = input
  <2>1. CASE ReadTail(t)
    <3>1. UNCHANGED <<input, accessor, stored>>
      BY <2>1 DEF ReadTail, OnlyTasks
    <3> QED  BY <1>1, <2>1, <3>1, ReadTailKeeps, CachesUnmoved,
                AccessorUnmoved
  <2>2. CASE LoadTable(t)
    <3>1. UNCHANGED <<input, accessor>>
      BY <2>2 DEF LoadTable
    <3> QED  BY <1>1, <2>2, <3>1, LoadTableKeeps, AccessorUnmoved
  <2>3. CASE Probe(t)
    <3>1. UNCHANGED <<input, accessor, stored>>
      BY <2>3 DEF Probe, OnlyTasks
    <3> QED  BY <1>1, <2>3, <3>1, ProbeKeeps, CachesUnmoved, AccessorUnmoved
  <2> QED  BY <1>5, <2>1, <2>2, <2>3 DEF Goes
<1>6. ASSUME NEW t \in Tasks, Interrupt(t)
      PROVE  TasksHold' /\ CachesHold' /\ AccessorHolds' /\ input' = input
  <2>1. UNCHANGED <<input, accessor, stored>>
    BY <1>6 DEF Interrupt, OnlyTasks
  <2> QED  BY <1>1, <1>6, <2>1, InterruptKeeps, CachesUnmoved,
              AccessorUnmoved
<1>7. ASSUME NEW c \in Caches, NEW e \in stored[c], Evict(c, e)
      PROVE  TasksHold' /\ CachesHold' /\ AccessorHolds' /\ input' = input
  <2>1. UNCHANGED <<input, accessor, tasks>>
    BY <1>7 DEF Evict
  <2>2. TasksHold'
    BY <1>1, <2>1, TasksUnmoved
  <2> QED  BY <1>1, <1>7, <2>1, <2>2, EvictKeeps, AccessorUnmoved
<1> QED  BY <1>2, <1>3, <1>4, <1>5, <1>6, <1>7, Zenon DEF AccessorNext

LEMMA AccessStep ==
  ASSUME AccessInv, [RandomAccessNext]_randomAccessVars
  PROVE  AccessInv'
<1>1. TasksHold /\ CachesHold /\ AccessorHolds /\ NobodyReads
  BY DEF AccessInv
<1>2. CASE UNCHANGED accessorVars
  <2>1. UNCHANGED <<input, accessor, stored, tasks>>
    BY <1>2 DEF accessorVars
  <2>2. TasksHold'
    BY <1>1, <2>1, TasksUnmoved
  <2>3. NobodyReads'
    BY <1>1, <2>1 DEF NobodyReads
  <2> QED  BY <1>1, <2>1, <2>2, <2>3, CachesUnmoved, AccessorUnmoved
           DEF AccessInv
<1>3. CASE Keep
  <2>1. /\ stored' = [c \in Caches |-> {}]
        /\ tasks' = [t \in Tasks |-> IdleTask]
        /\ accessor' = accessor
    BY <1>1, <1>3 DEF Keep, NobodyReads
  <2>2. TasksHold'
    <3>1. ObjectHolds(NoObject)' /\ JobHolds(NoJob)'
      BY DEF ObjectHolds, JobHolds, NoObject, NoJob
    <3>2. \A t \in Tasks : tasks'[t] = IdleTask
      BY <2>1
    <3> QED  BY <2>1, <3>1, <3>2 DEF TasksHold, TaskHolds, IdleTask
  <2>3. CachesHold'
    BY <2>1 DEF CachesHold
  <2>4. NobodyReads'
    BY <2>1 DEF NobodyReads
  <2> QED  BY <1>1, <2>1, <2>2, <2>3, <2>4, AccessorUnmoved DEF AccessInv
<1>4. CASE Access
  <2>1. AccessorNext /\ input # EmptyStream
    BY <1>4 DEF Access
  <2>2. TasksHold' /\ CachesHold' /\ AccessorHolds' /\ input' = input
    BY <2>1, AccessKeeps
  <2>3. NobodyReads'
    BY <2>1, <2>2 DEF NobodyReads
  <2> QED  BY <2>2, <2>3 DEF AccessInv
<1>5. CASE UNCHANGED randomAccessVars
  BY <1>2, <1>5 DEF randomAccessVars, accessorVars
<1> QED  BY <1>2, <1>3, <1>4, <1>5 DEF RandomAccessNext, Encode

-----------------------------------------------------------------------------
(* A cache holds, under the offset of a GOODBYE item, the rows of that item,  *)
(* whichever tasks insert into it, abandon their calls or have entries thrown *)
(* out: read_tail_entry, load_table and GoodbyeTableCache::insert.           *)
THEOREM CacheIsSound == RandomAccessSpec => []CachedTablesAreTables
<1>1. AccessInv => CachedTablesAreTables
  BY DEF AccessInv, CachesHold, CachedTablesAreTables, IsTableAt
<1> QED  BY <1>1, AccessInit, AccessStep, PTL DEF RandomAccessSpec

(* The table of a directory that a task holds, lists or searches.            *)
OpenTablesAreTables ==
  \A t \in Tasks : \A dir \in OpenDirectories(t) :
    IsTableAt(dir.goodbye_ofs, dir.table)

(* So a directory opened over the cache has the table it would have read.     *)
THEOREM OpenTablesAreSound == RandomAccessSpec => []OpenTablesAreTables
<1>1. ASSUME AccessInv, NEW t \in Tasks, NEW dir \in OpenDirectories(t)
      PROVE  IsTableAt(dir.goodbye_ofs, dir.table)
  <2>1. TaskHolds(tasks[t])
    BY <1>1 DEF AccessInv, TasksHold
  <2>2. Loaded(dir)
    BY <1>1, <2>1 DEF OpenDirectories, Held, TaskHolds, ObjectHolds, JobHolds,
                      IsReader, IsProbe
  <2> QED  BY <2>2 DEF Loaded
<1>2. AccessInv => OpenTablesAreTables
  BY <1>1, Zenon DEF OpenTablesAreTables
<1> QED  BY <1>2, AccessInit, AccessStep, PTL DEF RandomAccessSpec

-----------------------------------------------------------------------------
(***************************************************************************)
(* Hardlinks.  What a decoder says of the item it begins with.              *)
(***************************************************************************)
EndedKinds == {"Symlink", "Device", "File", "Fifo", "Socket", "Directory"}

LEMMA EntryAtIs ==
  ASSUME NEW end, NEW d, NEW kind, NEW item, NEW ref
  PROVE  /\ Over(end)!EntryAt(d, kind).kind = kind
         /\ Over(end)!FileEntry(d, item, ref).kind = "File"
<1> DEFINE p == d.path
           size == item.content
           zero == [path |-> p, kind |-> "File", size |-> 0,
                    payload_offset |-> <<>>]
           sized == [path |-> p, kind |-> "File", size |-> size,
                     payload_offset |-> <<>>]
           full == [path |-> p, kind |-> "File", size |-> size,
                    payload_offset |-> ref]
<1>1. Over(end)!EntryAt(d, kind).kind = kind
  BY DEF Over!EntryAt
<1>2. Over(end)!FileEntry(d, item, ref)
        = [[zero EXCEPT !.size = size] EXCEPT !.payload_offset = ref]
  BY DEF Over!EntryAt, Over!FileEntry
<1> HIDE DEF p, size
<1>3. [zero EXCEPT !.size = size] = sized
  OBVIOUS
<1>4. [sized EXCEPT !.payload_offset = ref] = full
  OBVIOUS
<1> QED  BY <1>1, <1>2, <1>3, <1>4

LEMMA OutcomeIs ==
  ASSUME NEW end, NEW d, NEW x, NEW o, NEW kind,
         o = Over(end)!Outcome(x, Over(end)!EntryAt(d, kind))
  PROVE  o.decoder = x /\ o.entry.kind = kind
<1>1. o.entry = Over(end)!EntryAt(d, kind) /\ o.decoder = x
  BY DEF Over!Outcome
<1> QED  BY <1>1, EntryAtIs

LEMMA FileOutcomeIs ==
  ASSUME NEW end, NEW d, NEW x, NEW o, NEW item, NEW ref,
         o = Over(end)!Outcome(x, Over(end)!FileEntry(d, item, ref))
  PROVE  o.decoder = x /\ o.entry.kind = "File"
<1>1. o.entry = Over(end)!FileEntry(d, item, ref) /\ o.decoder = x
  BY DEF Over!Outcome
<1> QED  BY <1>1, EntryAtIs

LEMMA EndedEntries ==
  ASSUME NEW end, NEW d, NEW kind, NEW o \in Over(end)!EndEntry(d, kind)
  PROVE  o.entry.kind \in EndedKinds
<1>1. CASE o \in Over(end)!EndSymlink(d)
  <2>1. \E x : o = Over(end)!Outcome(x, Over(end)!EntryAt(d, "Symlink"))
    BY <1>1, Zenon DEF Over!EndSymlink
  <2> QED  BY <2>1, OutcomeIs DEF EndedKinds
<1>2. CASE o \in Over(end)!EndDevice(d)
  <2>1. \E x : o = Over(end)!Outcome(x, Over(end)!EntryAt(d, "Device"))
    BY <1>2, Zenon DEF Over!EndDevice
  <2> QED  BY <2>1, OutcomeIs DEF EndedKinds
<1>3. CASE o \in Over(end)!EndFile(d) \cup Over(end)!EndFileRef(d)
  <2>1. \E x, item, ref :
          o = Over(end)!Outcome(x, Over(end)!FileEntry(d, item, ref))
    <3>1. CASE o \in Over(end)!EndFile(d)
      BY <3>1, Zenon DEF Over!EndFile
    <3>2. CASE o \in Over(end)!EndFileRef(d)
      <4> DEFINE refs(item) ==
                   {Over(end)!Outcome(
                      Over(end)!EnterContents(x, item.content),
                      Over(end)!FileEntry(d, item, <<item.offset>>)) :
                      x \in Over(end)!ToPayload(Over(end)!ReadItem(d, item),
                                                item.offset)}
      <4>1. PICK item \in Over(end)!Items(d, {"PAYLOAD_REF"}) : o \in refs(item)
        BY <3>2 DEF Over!EndFileRef
      <4> QED  BY <4>1, Zenon
    <3> QED  BY <1>3, <3>1, <3>2, Zenon
  <2>2. o.entry.kind = "File"
    BY <2>1, FileOutcomeIs
  <2> QED  BY <2>2 DEF EndedKinds
<1>4. CASE o \in Over(end)!EndOther(d, kind)
  <2>1. \E x : \/ o = Over(end)!Outcome(x, Over(end)!EntryAt(d, "Fifo"))
               \/ o = Over(end)!Outcome(x, Over(end)!EntryAt(d, "Socket"))
               \/ o = Over(end)!Outcome(x, Over(end)!EntryAt(d, "Directory"))
    <3> DEFINE fifo(item) ==
                 Over(end)!Enter(Over(end)!Load(d, item), "InSpecialFile")
               dir(item) ==
                 [Over(end)!Enter(Over(end)!Load(d, item), "InDirectory") EXCEPT
                    !.path_lengths = Append(@, Len(d.path))]
    <3>1. PICK item : o = IF kind = "fifo"
                            THEN Over(end)!Outcome(fifo(item),
                                   Over(end)!EntryAt(d, "Fifo"))
                          ELSE IF kind = "socket"
                            THEN Over(end)!Outcome(fifo(item),
                                   Over(end)!EntryAt(d, "Socket"))
                            ELSE Over(end)!Outcome(dir(item),
                                   Over(end)!EntryAt(d, "Directory"))
      BY <1>4 DEF Over!EndOther
    <3> HIDE DEF fifo, dir
    <3> QED  BY <3>1, Zenon
  <2>2. \/ o.entry.kind = "Fifo"
        \/ o.entry.kind = "Socket"
        \/ o.entry.kind = "Directory"
    BY <2>1, OutcomeIs
  <2> QED  BY <2>2 DEF EndedKinds
<1> QED  BY <1>1, <1>2, <1>3, <1>4, Zenon DEF Over!EndEntry

(* A decoder that has read the item it began with.                          *)
LEMMA DecoderIs ==
  ASSUME NEW end, NEW start, NEW path, NEW item
  PROVE  LET d == Over(end)!Enter(DecoderAt(end, start, path), "Default")
         IN  d.pos = start /\ Over(end)!ReadItem(d, item).header = item
<1> DEFINE zeroed == Over(end)!Marker("ZEROED")
           nothing == Over(end)!NoContents
           none == <<>>
           off == FALSE
           R(pos, mode, header, p) ==
             [pos |-> pos, payload_pos |-> 0, state |-> mode,
              header |-> header, contents |-> nothing,
              path |-> p, path_lengths |-> none,
              with_goodbye_tables |-> off, payload_consumed |-> 0]
           behind == start + item.size
           d == Over(end)!Enter(DecoderAt(end, start, path), "Default")
<1>1. Over(end)!NewDecoder = R(0, "Begin", zeroed, none)
  BY DEF Over!NewDecoder
<1> HIDE DEF zeroed, nothing, none, off
<1>2. [R(0, "Begin", zeroed, none) EXCEPT !.pos = start]
        = R(start, "Begin", zeroed, none)
  OBVIOUS
<1>3. [R(start, "Begin", zeroed, none) EXCEPT !.path = path]
        = R(start, "Begin", zeroed, path)
  OBVIOUS
<1>4. [R(start, "Begin", zeroed, path) EXCEPT !.state = "Default"]
        = R(start, "Default", zeroed, path)
  OBVIOUS
<1>5. [R(start, "Default", zeroed, path) EXCEPT !.header = item]
        = R(start, "Default", item, path)
  OBVIOUS
<1>6. R(start, "Default", zeroed, path).pos = start
      /\ R(start, "Default", item, path).pos = start
  OBVIOUS
<1> HIDE DEF behind
<1>7. [R(start, "Default", item, path) EXCEPT !.pos = behind]
        = R(behind, "Default", item, path)
  OBVIOUS
<1>8. R(behind, "Default", item, path).header = item
  OBVIOUS
<1> HIDE DEF R
<1>9. DecoderAt(end, start, path) = R(start, "Begin", zeroed, path)
  <2>1. DecoderAt(end, start, path)
          = [[R(0, "Begin", zeroed, none) EXCEPT !.pos = start]
               EXCEPT !.path = path]
    BY <1>1 DEF DecoderAt
  <2> QED  BY <1>2, <1>3, <2>1
<1>10. d = R(start, "Default", zeroed, path)
  BY <1>4, <1>9 DEF Over!Enter
<1>11. Over(end)!ReadItem(d, item) = R(behind, "Default", item, path)
  <2>1. Over(end)!ReadItem(d, item)
          = [[R(start, "Default", zeroed, path) EXCEPT !.header = item]
               EXCEPT !.pos = behind]
    BY <1>6, <1>10 DEF Over!ReadItem, behind
  <2> QED  BY <1>5, <1>7, <2>1
<1> QED  BY <1>6, <1>8, <1>10, <1>11

LEMMA ItemsAreThere ==
  ASSUME NEW end, NEW d, NEW htype, NEW item \in Over(end)!Items(d, {htype})
  PROVE  \E c \in CellsOf(input, htype) : c.at = d.pos /\ c.item = item
<1>1. item \in Over(end)!ItemsAt(d) /\ item.htype = htype
  BY DEF Over!Items, Over!Headers
<1>2. PICK c \in input.cells : c.at = d.pos /\ c.item = item
  BY <1>1 DEF Over!ItemsAt, Upto
<1> QED  BY <1>1, <1>2 DEF CellsOf

(* Only a HARDLINK item is taken for one, and only a FORMAT_VERSION for one.  *)
LEMMA FirstItemRead ==
  ASSUME NEW end, NEW start, NEW path,
         NEW o \in NextEntryOf(end, DecoderAt(end, start, path))
  PROVE  /\ o.entry.kind = "Hardlink" =>
              \E c \in CellsOf(input, "HARDLINK") :
                c.at = start /\ c.item = o.decoder.header
         /\ o.entry.kind = "Version" =>
              \E c \in CellsOf(input, "FORMAT_VERSION") : c.at = start
<1> DEFINE before == DecoderAt(end, start, path)
           d == Over(end)!Enter(before, "Default")
           plain(htype, kind) ==
             {Over(end)!Outcome(Over(end)!ReadItem(d, item),
                                Over(end)!EntryAt(d, kind)) :
                item \in Over(end)!Items(d, {htype})}
           behind(item) == [d EXCEPT !.pos = @ + item.size]
<1>1. ASSUME NEW htype, NEW kind, o \in plain(htype, kind)
      PROVE  /\ o.entry.kind = kind
             /\ \E c \in CellsOf(input, htype) :
                  c.at = start /\ c.item = o.decoder.header
  <2>1. PICK item \in Over(end)!Items(d, {htype}) :
          o = Over(end)!Outcome(Over(end)!ReadItem(d, item),
                                Over(end)!EntryAt(d, kind))
    BY <1>1
  <2>2. /\ o.decoder = Over(end)!ReadItem(d, item)
        /\ o.entry.kind = kind
    BY <2>1, OutcomeIs
  <2>3. d.pos = start /\ Over(end)!ReadItem(d, item).header = item
    BY DecoderIs
  <2>4. \E c \in CellsOf(input, htype) : c.at = d.pos /\ c.item = item
    BY ItemsAreThere
  <2> HIDE DEF d
  <2> QED  BY <2>2, <2>3, <2>4
<1>2. ASSUME o \in AtRangeEnd(end, before)
      PROVE  o.entry.kind \in EndedKinds
  <2>1. PICK x, item : o = Over(end)!Outcome(x,
                             Over(end)!EntryAt(before,
                               CASE item.kind = "fifo" -> "Fifo"
                                 [] item.kind = "socket" -> "Socket"
                                 [] OTHER -> "Directory"))
    BY <1>2, Zenon DEF AtRangeEnd
  <2> HIDE DEF before
  <2>2. o.entry.kind = CASE item.kind = "fifo" -> "Fifo"
                         [] item.kind = "socket" -> "Socket"
                         [] OTHER -> "Directory"
    BY <2>1, OutcomeIs
  <2> QED  BY <2>2 DEF EndedKinds
<1>3. \/ o \in plain("HARDLINK", "Hardlink")
      \/ o \in plain("FORMAT_VERSION", "Version")
      \/ o \in plain("PRELUDE", "Prelude")
      \/ \E item : o \in Over(end)!EndEntry(behind(item), item.kind)
      \/ o \in AtRangeEnd(end, before)
  <2>1. \/ o \in Over(end)!ReadNextEntry(before)
        \/ o \in AtRangeEnd(end, before)
    BY DEF NextEntryOf
  <2> HIDE DEF before
  <2> QED  BY <2>1, Zenon DEF Over!ReadNextEntry
<1>4. ASSUME NEW item, o \in Over(end)!EndEntry(behind(item), item.kind)
      PROVE  o.entry.kind \in EndedKinds
  BY <1>4, EndedEntries, Zenon
<1> HIDE DEF plain, behind, before
<1> QED  BY <1>1, <1>2, <1>3, <1>4 DEF EndedKinds

-----------------------------------------------------------------------------
(***************************************************************************)
(* Hardlinks.  An entry remembers the FILENAME it belongs to: it begins     *)
(* behind it, and if it is a hardlink, with the HARDLINK item whose offset  *)
(* it has.  So does a row of a listing.  Only the root has no FILENAME.      *)
(***************************************************************************)
EntryBelongs(e) ==
  \A x \in e.filename_header_offset :
    \E own \in CellsOf(input, "FILENAME") :
      /\ own.at = x
      /\ own.at + own.item.size = e.start
      /\ e.kind = "Hardlink" =>
           \E c \in CellsOf(input, "HARDLINK") :
             c.at = e.start /\ c.item.offset = e.link

CursorBelongs(cursor) ==
  \E own \in CellsOf(input, "FILENAME") :
    /\ own.at = cursor.filename_header_offset
    /\ own.at + own.item.size = cursor.start

ObjectBelongs(x) ==
  /\ x.is = "entry" => EntryBelongs(x)
  /\ x.is = "dir_entry" => CursorBelongs(x.cursor)

(* The FILENAME is the one of the file that the path in a hardlink names.    *)
IsTarget(offsets, receiver) ==
  \E own \in CellsOf(input, "FILENAME"), link \in CellsOf(input, "HARDLINK") :
    /\ own.at \in receiver.filename_header_offset
    /\ link.at = own.at + own.item.size
    /\ offsets = {link.item.target}
    /\ link.item.target \in links

(* follow_hardlink() does not wait.                                         *)
Followed(task) ==
  task.asked.call = "follow_hardlink" =>
    /\ task.job = NoJob
    /\ task.answer = "ok" =>
         /\ task.object.kind = "File"
         /\ IsTarget(task.object.filename_header_offset, task.asked.receiver)

TaskBelongs(task) == ObjectBelongs(task.object) /\ Followed(task)

TasksBelong == \A t \in Tasks : TaskBelongs(tasks[t])

(* What is read is what was written, and nobody writes any more.             *)
InputIsArchive ==
  input # EmptyStream => phase = "closed" /\ input = archive /\ faults = {}

LinkInv == AccessInv /\ NInv /\ InputIsArchive /\ TasksBelong

(* Behind a FILENAME there is no version to be passed over.                 *)
NoVersionAt(start) == \A c \in CellsOf(input, "FORMAT_VERSION") : c.at # start

LEMMA EntryIs ==
  ASSUME NEW o, NEW fho, NEW start, NEW end, NEW cache
  PROVE  LET e == FileEntry(o, fho, start, end, cache) IN
         /\ e.is = "entry" /\ e.kind = o.entry.kind
         /\ e.filename_header_offset = fho /\ e.start = start
         /\ e.kind = "Hardlink" => e.link = o.decoder.header.offset
<1> HIDE DEF ContentsOffset
<1> QED  BY DEF FileEntry

LEMMA DecodedFirst ==
  ASSUME NEW start, NoVersionAt(start), NEW end, NEW path,
         NEW o \in DecodeOneEntry(start, end, path)
  PROVE  o \in NextEntryOf(end, DecoderAt(end, start, path))
<1>1. PICK x \in NextEntryOf(end, DecoderAt(end, start, path)) :
        x.entry.kind = "Version" \/ o \in {x}
  BY Zenon DEF DecodeOneEntry
<1>2. x.entry.kind # "Version"
  BY FirstItemRead DEF NoVersionAt
<1> QED  BY <1>1, <1>2

LEMMA FileEntriesBelong ==
  ASSUME NEW fho, NEW start, NoVersionAt(start), NEW end, NEW path, NEW cache,
         \A x \in fho : \E own \in CellsOf(input, "FILENAME") :
           own.at = x /\ own.at + own.item.size = start,
         NEW e \in FileEntries(fho, start, end, path, cache)
  PROVE  e.is = "entry" /\ EntryBelongs(e)
<1>1. PICK o \in DecodeOneEntry(start, end, path) :
        e = FileEntry(o, fho, start, end, cache)
  BY Zenon DEF FileEntries
<1>2. o \in NextEntryOf(end, DecoderAt(end, start, path))
  BY DecodedFirst
<1>3. /\ e.is = "entry" /\ e.kind = o.entry.kind
      /\ e.filename_header_offset = fho /\ e.start = start
      /\ e.kind = "Hardlink" => e.link = o.decoder.header.offset
  BY <1>1, EntryIs
<1>4. e.kind = "Hardlink" =>
        \E c \in CellsOf(input, "HARDLINK") :
          c.at = start /\ c.item.offset = e.link
  <2>1. SUFFICES ASSUME e.kind = "Hardlink"
                 PROVE  \E c \in CellsOf(input, "HARDLINK") :
                          c.at = start /\ c.item.offset = e.link
    OBVIOUS
  <2>2. PICK c \in CellsOf(input, "HARDLINK") :
          c.at = start /\ c.item = o.decoder.header
    <3>1. o.entry.kind = "Hardlink"
      BY <1>3, <2>1
    <3>2. o.entry.kind = "Hardlink" =>
            \E c \in CellsOf(input, "HARDLINK") :
              c.at = start /\ c.item = o.decoder.header
      BY <1>2, FirstItemRead
    <3> QED  BY <3>1, <3>2
  <2>3. c.item.offset = e.link
    BY <1>3, <2>1, <2>2
  <2> QED  BY <2>2, <2>3
<1> QED  BY <1>3, <1>4 DEF EntryBelongs

(* The root's entry belongs to no FILENAME.                                 *)
LEMMA RootsBelong ==
  ASSUME NEW start, NEW end, NEW path, NEW cache,
         NEW e \in FileEntries({}, start, end, path, cache)
  PROVE  e.is = "entry" /\ EntryBelongs(e)
<1>1. PICK o : e = FileEntry(o, {}, start, end, cache)
  BY Zenon DEF FileEntries
<1> QED  BY <1>1, EntryIs DEF EntryBelongs

LEMMA NoVersionBehind ==
  ASSUME NInv, InputIsArchive, NEW own \in CellsOf(input, "FILENAME")
  PROVE  NoVersionAt(own.at + own.item.size)
<1>1. input # EmptyStream
  BY DEF CellsOf, EmptyStream
<1>2. /\ input = archive /\ Stream(archive)
      /\ LaidOut(archive.cells, links)
  BY <1>1 DEF InputIsArchive, NInv, OInv, IInv, TypeOK
<1>3. own.at \in Nat /\ own.item.size \in Nat /\ own.item.size >= 16
  BY <1>2 DEF CellsOf, Stream, ItemOK, HeaderSize
<1>4. \A c \in CellsOf(input, "FORMAT_VERSION") : c.at = 0
  BY <1>2 DEF CellsOf, LaidOut, VersionFirst
<1> QED  BY <1>3, <1>4 DEF NoVersionAt

LEMMA CursorsBelong ==
  ASSUME NEW dir, NEW index, NEW cursor \in Cursors(dir, index)
  PROVE  CursorBelongs(cursor)
<1>1. PICK c \in FilenamesAt(dir.goodbye_ofs - dir.table[index + 1].offset) :
        cursor = [file_name |-> c.item.name, filename_header_offset |-> c.at,
                  start |-> c.at + c.item.size,
                  end |-> c.at + dir.table[index + 1].size]
  BY DEF Cursors
<1>2. c \in CellsOf(input, "FILENAME")
  BY DEF FilenamesAt
<1> QED  BY <1>1, <1>2 DEF CursorBelongs

LEMMA DecodedBelong ==
  ASSUME NInv, InputIsArchive, NEW dir, NEW cursor, CursorBelongs(cursor),
         NEW e \in Decoded(dir, cursor)
  PROVE  e.is = "entry" /\ EntryBelongs(e)
<1> DEFINE fho == {cursor.filename_header_offset}
<1>1. PICK own \in CellsOf(input, "FILENAME") :
        /\ own.at = cursor.filename_header_offset
        /\ own.at + own.item.size = cursor.start
  BY DEF CursorBelongs
<1>2. NoVersionAt(cursor.start)
  BY <1>1, NoVersionBehind
<1>3. \A x \in fho : \E c \in CellsOf(input, "FILENAME") :
        c.at = x /\ c.at + c.item.size = cursor.start
  BY <1>1
<1>4. e \in FileEntries(fho, cursor.start, cursor.end,
                        Append(dir.path, cursor.file_name), dir.cache)
  BY DEF Decoded
<1> HIDE DEF fho
<1> QED  BY <1>2, <1>3, <1>4, FileEntriesBelong

LEMMA ItselfBelongs ==
  ASSUME NEW dir, NEW e \in Itself(dir)
  PROVE  e.is = "entry" /\ EntryBelongs(e)
BY RootsBelong DEF Itself

LEMMA ReopenedBelong ==
  ASSUME NInv, InputIsArchive, NEW entry, EntryBelongs(entry),
         NEW e \in Reopened(entry)
  PROVE  e.is = "entry" /\ EntryBelongs(e)
<1> DEFINE fho == entry.filename_header_offset
<1>1. e \in FileEntries(fho, entry.start, entry.end, <<>>, accessor.cache)
  BY DEF Reopened
<1>2. CASE fho = {}
  BY <1>1, <1>2, RootsBelong
<1>3. CASE fho # {}
  <2>1. \A x \in fho : \E own \in CellsOf(input, "FILENAME") :
          own.at = x /\ own.at + own.item.size = entry.start
    BY DEF EntryBelongs
  <2>2. PICK own \in CellsOf(input, "FILENAME") :
          own.at + own.item.size = entry.start
    BY <1>3, <2>1
  <2>3. NoVersionAt(entry.start)
    BY <2>2, NoVersionBehind
  <2> HIDE DEF fho
  <2> QED  BY <1>1, <2>1, <2>3, FileEntriesBelong
<1> QED  BY <1>2, <1>3

(* What is found behind a FILENAME that a hardlink leads to.                *)
LEMMA FilesBehindBelong ==
  ASSUME NEW c \in CellsOf(input, "FILENAME"), NEW size,
         NEW e \in FilesBehind(c, size)
  PROVE  /\ e.is = "entry" /\ EntryBelongs(e)
         /\ e.kind = "File" /\ e.filename_header_offset = {c.at}
<1> DEFINE start == c.at + c.item.size
<1>1. PICK o \in NextEntryOf(size, DecoderAt(size, start, <<>>)) :
        /\ e = FileEntry(o, {c.at}, start, ContentsOffset(o) + o.entry.size,
                         accessor.cache)
        /\ o.entry.kind = "File"
  BY DEF FilesBehind
<1>2. /\ e.is = "entry" /\ e.kind = "File" /\ e.start = start
      /\ e.filename_header_offset = {c.at}
  BY <1>1, EntryIs
<1> QED  BY <1>2 DEF EntryBelongs

LEMMA TargetsAreLinks ==
  ASSUME NInv, InputIsArchive, NEW e, EntryBelongs(e), e.kind = "Hardlink",
         NEW c \in LinkTargets(e)
  PROVE  c \in CellsOf(input, "FILENAME") /\ IsTarget({c.at}, e)
<1>1. PICK x \in e.filename_header_offset :
        c \in FilenamesAt(x - e.link)
  BY DEF LinkTargets
<1>2. c \in CellsOf(input, "FILENAME") /\ c.at = x - e.link
  BY <1>1 DEF FilenamesAt
<1>3. PICK own \in CellsOf(input, "FILENAME") :
        /\ own.at = x
        /\ own.at + own.item.size = e.start
        /\ \E h \in CellsOf(input, "HARDLINK") :
             h.at = e.start /\ h.item.offset = e.link
  BY DEF EntryBelongs
<1>4. PICK h \in CellsOf(input, "HARDLINK") :
        h.at = e.start /\ h.item.offset = e.link
  BY <1>3
<1>5. input = archive /\ LinksKept(archive.cells, links)
  <2>1. input # EmptyStream
    BY <1>2 DEF CellsOf, EmptyStream
  <2> QED  BY <2>1 DEF InputIsArchive, NInv, LaidOut
<1>6. own.at - h.item.offset = h.item.target /\ h.item.target \in links
  BY <1>3, <1>4, <1>5 DEF LinksKept, CellsOf
<1>7. c.at = h.item.target
  BY <1>2, <1>3, <1>4, <1>6
<1>8. own.at \in e.filename_header_offset /\ h.at = own.at + own.item.size
  BY <1>3, <1>4
<1> QED  BY <1>2, <1>3, <1>4, <1>6, <1>7, <1>8 DEF IsTarget

(***************************************************************************)
(* Calls other than follow_hardlink(), which may wait.                      *)
(***************************************************************************)
Elsewhere(task) ==
  /\ TaskHolds(task)
  /\ ObjectBelongs(task.object)
  /\ task.asked.call # "follow_hardlink"

LEMMA ElsewhereBelongs ==
  ASSUME NEW task, Elsewhere(task)
  PROVE  TaskBelongs(task)
BY DEF Elsewhere, TaskBelongs, Followed

LEMMA AskingElsewhere ==
  ASSUME TasksHold, TasksBelong, NEW t \in Tasks, NEW call, NEW path,
         call # "follow_hardlink"
  PROVE  Elsewhere(Asking(t, call, path))
<1> DEFINE x == [call |-> call, receiver |-> tasks[t].object, path |-> path]
<1>1. TaskHolds(tasks[t]) /\ TaskHolds(Asking(t, call, path))
  BY AskingHolds
<1>2. Asking(t, call, path) =
        [object |-> tasks[t].object, job |-> tasks[t].job, asked |-> x,
         answer |-> "none"]
  <2> HIDE DEF x
  <2> QED  BY <1>1, TaskIs DEF Asking, x
<1>3. ObjectBelongs(tasks[t].object)
  BY DEF TasksBelong, TaskBelongs
<1>4. x.call = call
  OBVIOUS
<1> HIDE DEF x
<1> QED  BY <1>1, <1>2, <1>3, <1>4 DEF Elsewhere

(* A task that waits asked for something else.                              *)
LEMMA WaitingElsewhere ==
  ASSUME TasksHold, TasksBelong, NEW t \in Tasks, tasks[t].job # NoJob
  PROVE  Elsewhere(tasks[t])
<1>1. TaskHolds(tasks[t])
  BY DEF TasksHold
<1> QED  BY <1>1 DEF TasksBelong, TaskBelongs, Followed, Elsewhere

LEMMA EndsElsewhere ==
  ASSUME NEW task, Elsewhere(task)
  PROVE  /\ Elsewhere(ReturnsNone(task)) /\ Elsewhere(ReturnsError(task))
         /\ \A x : ObjectHolds(x) /\ ObjectBelongs(x) =>
              Elsewhere(Returns(task, x))
         /\ \A j : JobHolds(j) => Elsewhere(Awaits(task, j))
<1>1. TaskHolds(task)
  BY DEF Elsewhere
<1>2. /\ TaskHolds(ReturnsNone(task)) /\ TaskHolds(ReturnsError(task))
      /\ \A x : ObjectHolds(x) => TaskHolds(Returns(task, x))
      /\ \A j : JobHolds(j) => TaskHolds(Awaits(task, j))
  BY <1>1, EndsHold, ReturnsHolds, AwaitsHolds
<1>3. ASSUME NEW x
      PROVE  /\ ReturnsNone(task).object = task.object
             /\ ReturnsNone(task).asked = task.asked
             /\ ReturnsError(task).object = task.object
             /\ ReturnsError(task).asked = task.asked
             /\ Returns(task, x).object = x
             /\ Returns(task, x).asked = task.asked
             /\ Awaits(task, x).object = task.object
             /\ Awaits(task, x).asked = task.asked
  <2>1. /\ Returns(task, x) = [object |-> x, job |-> NoJob,
                               asked |-> task.asked, answer |-> "ok"]
        /\ Awaits(task, x) = [object |-> task.object, job |-> x,
                              asked |-> task.asked, answer |-> task.answer]
        /\ ReturnsNone(task) =
             [object |-> task.object, job |-> NoJob, asked |-> task.asked,
              answer |-> "not_found"]
        /\ ReturnsError(task) =
             [object |-> task.object, job |-> NoJob, asked |-> task.asked,
              answer |-> "error"]
    BY <1>1, TaskIs, Zenon
  <2> QED  BY <2>1
<1> QED  BY <1>2, <1>3 DEF Elsewhere

LEMMA TailElsewhere ==
  ASSUME NEW task, Elsewhere(task), NEW end, NEW path, NEW cache, NEW rest,
         cache \subseteq Caches
  PROVE  Elsewhere(AwaitsTail(task, end, path, cache, rest))
<1> DEFINE job == [is |-> "tail", end |-> end, path |-> path,
                   cache |-> cache, rest |-> rest]
<1>1. JobHolds(job)
  BY DEF JobHolds
<1> QED  BY <1>1, EndsElsewhere DEF AwaitsTail

LEMMA EntersElsewhere ==
  ASSUME NEW task, Elsewhere(task), NEW entry, entry.cache \subseteq Caches,
         NEW rest
  PROVE  Elsewhere(Enters(task, entry, rest))
BY TailElsewhere, EndsElsewhere, Zenon DEF Enters

LEMMA SearchesElsewhere ==
  ASSUME NEW task, Elsewhere(task), NEW dir, Loaded(dir), NEW rest
  PROVE  Elsewhere(Searches(task, dir, rest))
<1> DEFINE first == HashPosition(dir, HashOf[rest[1]], 0, 0)
           job == [is |-> "probe", dir |-> dir, rest |-> rest,
                   first |-> first, dup |-> 0]
<1>1. JobHolds(job)
  <2> HIDE DEF first
  <2> QED  BY DEF JobHolds, IsProbe
<1>2. Elsewhere(Awaits(task, job)) /\ Elsewhere(ReturnsNone(task))
  BY <1>1, EndsElsewhere, Zenon
<1> QED  BY <1>2, Zenon DEF Searches

LEMMA FindsElsewhere ==
  ASSUME NEW task, Elsewhere(task), NEW entry, ObjectHolds(entry),
         entry.is = "entry", EntryBelongs(entry), NEW rest
  PROVE  Elsewhere(Finds(task, entry, rest))
<1>1. entry.cache \subseteq Caches /\ ObjectBelongs(entry)
  BY DEF ObjectHolds, ObjectBelongs
<1>2. /\ Elsewhere(Returns(task, entry))
      /\ Elsewhere(ReturnsError(task))
      /\ Elsewhere(Enters(task, entry, rest))
  BY <1>1, EndsElsewhere, EntersElsewhere, Zenon
<1> QED  BY <1>2, Zenon DEF Finds

LEMMA OpensElsewhere ==
  ASSUME NEW task, Elsewhere(task), NEW dir, Loaded(dir), NEW rest
  PROVE  Elsewhere(Opens(task, dir, rest))
<1>1. ObjectHolds(dir) /\ ObjectBelongs(dir)
  BY DEF ObjectHolds, ObjectBelongs, Loaded, Located
<1>2. Elsewhere(Returns(task, dir)) /\ Elsewhere(Searches(task, dir, rest))
  BY <1>1, EndsElsewhere, SearchesElsewhere, Zenon
<1> QED  BY <1>2, Zenon DEF Opens

(***************************************************************************)
(* A step of one task, over the same archive and the same LinkOffsets.       *)
(***************************************************************************)
LEMMA PutBelongs ==
  ASSUME TasksHold, TasksBelong, input' = input, links' = links,
         NEW t \in Tasks, NEW task, TaskBelongs(task), Put(t, task)
  PROVE  TasksBelong'
<1>1. \A e : EntryBelongs(e)' <=> EntryBelongs(e)
  BY DEF EntryBelongs, CellsOf
<1>2. \A c : CursorBelongs(c)' <=> CursorBelongs(c)
  BY DEF CursorBelongs, CellsOf
<1>3. \A x : TaskBelongs(x) => TaskBelongs(x)'
  <2>1. \A offsets, e : IsTarget(offsets, e)' <=> IsTarget(offsets, e)
    BY DEF IsTarget, CellsOf
  <2> QED  BY <1>1, <1>2, <2>1 DEF TaskBelongs, ObjectBelongs, Followed
<1>4. \A u \in Tasks : tasks'[u] = task \/ tasks'[u] = tasks[u]
  BY DEF Put, TasksHold
<1>5. \A u \in Tasks : TaskBelongs(tasks'[u])
  BY <1>4 DEF TasksBelong
<1> QED  BY <1>3, <1>5 DEF TasksBelong

LEMMA PutElsewhere ==
  ASSUME TasksHold, TasksBelong, input' = input, links' = links,
         NEW t \in Tasks, NEW task, Elsewhere(task), Put(t, task)
  PROVE  TasksBelong'
BY PutBelongs, ElsewhereBelongs, Zenon

LEMMA PutOneElsewhere ==
  ASSUME TasksHold, TasksBelong, input' = input, links' = links,
         NEW t \in Tasks, NEW task, Elsewhere(task), NEW outcomes,
         \A x \in outcomes : Elsewhere(x), PutOneOf(t, outcomes, task)
  PROVE  TasksBelong'
BY PutElsewhere, EndsElsewhere, Zenon DEF PutOneOf

LEMMA ReturnOneElsewhere ==
  ASSUME TasksHold, TasksBelong, input' = input, links' = links,
         NEW t \in Tasks, NEW task, Elsewhere(task), NEW objects,
         \A x \in objects : ObjectHolds(x) /\ ObjectBelongs(x),
         ReturnOneOf(t, objects, task)
  PROVE  TasksBelong'
<1>1. \A x \in {Returns(task, y) : y \in objects} : Elsewhere(x)
  BY EndsElsewhere, Zenon
<1> QED  BY <1>1, PutOneElsewhere, Zenon DEF ReturnOneOf

LEMMA OpeningBelongs ==
  ASSUME LinkInv, links' = links, NEW t \in Tasks,
         OpenRoot(t) \/ OpenDirAtEnd(t) \/ EnterDirectory(t)
  PROVE  TasksBelong'
<1>1. /\ TasksHold /\ TasksBelong
      /\ accessor.cache \subseteq Caches
  BY DEF LinkInv, AccessInv, AccessorHolds
<1>2. CASE OpenRoot(t)
  <2>1. Elsewhere(AwaitsTail(Asking(t, "open_root", <<>>), accessor.size,
                             <<>>, accessor.cache, <<>>))
    BY <1>1, AskingElsewhere, TailElsewhere
  <2> QED  BY <1>1, <1>2, <2>1, PutElsewhere, Zenon DEF OpenRoot, OnlyTasks
<1>3. CASE OpenDirAtEnd(t)
  <2>1. Elsewhere(AwaitsTail(Asking(t, "open_dir_at_end", <<>>), Held(t).end,
                             <<>>, accessor.cache, <<>>))
    BY <1>1, AskingElsewhere, TailElsewhere
  <2> QED  BY <1>1, <1>3, <2>1, PutElsewhere, Zenon
           DEF OpenDirAtEnd, OnlyTasks
<1>4. CASE EnterDirectory(t)
  <2>1. Held(t).cache \subseteq Caches
    BY <1>1, <1>4, AskingHolds DEF EnterDirectory, Holds, ObjectHolds, Held
  <2>2. Elsewhere(Enters(Asking(t, "enter_directory", <<>>), Held(t), <<>>))
    BY <1>1, <2>1, AskingElsewhere, EntersElsewhere
  <2> QED  BY <1>1, <1>4, <2>2, PutElsewhere, Zenon
           DEF EnterDirectory, OnlyTasks
<1> QED  BY <1>2, <1>3, <1>4

LEMMA LookupBelongs ==
  ASSUME LinkInv, links' = links, NEW t \in Tasks, NEW path, Lookup(t, path)
  PROVE  TasksBelong'
<1> DEFINE task == Asking(t, "lookup", path)
<1>0. TasksHold /\ TasksBelong
  BY DEF LinkInv, AccessInv
<1>1. Loaded(Held(t)) /\ Elsewhere(task)
  BY <1>0, AskingHolds, AskingElsewhere DEF Lookup, Holds, ObjectHolds, Held
<1>2. \A x \in {Finds(task, e, Tail(path)) : e \in Itself(Held(t))} :
        Elsewhere(x)
  BY <1>1, ItselfHolds, ItselfBelongs, FindsElsewhere, Zenon
<1>3. /\ Elsewhere(ReturnsNone(task))
      /\ Elsewhere(ReturnsError(task))
      /\ Elsewhere(Searches(task, Held(t), path))
  BY <1>1, EndsElsewhere, SearchesElsewhere, Zenon
<1>4. input' = input
  BY DEF Lookup, OnlyTasks
<1>5. \/ Put(t, ReturnsNone(task))
      \/ PutOneOf(t, {Finds(task, e, Tail(path)) : e \in Itself(Held(t))},
                  task)
      \/ Put(t, ReturnsError(task))
      \/ Put(t, Searches(task, Held(t), path))
  BY Zenon DEF Lookup
<1> HIDE DEF task
<1> QED  BY <1>0, <1>1, <1>2, <1>3, <1>4, <1>5, PutElsewhere,
            PutOneElsewhere, Zenon

LEMMA LookupSelfBelongs ==
  ASSUME LinkInv, links' = links, NEW t \in Tasks, LookupSelf(t)
  PROVE  TasksBelong'
<1>0. TasksHold /\ TasksBelong
  BY DEF LinkInv, AccessInv
<1>1. Loaded(Held(t))
  BY <1>0, AskingHolds DEF LookupSelf, Holds, ObjectHolds, Held
<1>2. ASSUME NEW x \in Itself(Held(t))
      PROVE  ObjectHolds(x) /\ ObjectBelongs(x)
  BY <1>1, ItselfHolds, ItselfBelongs DEF ObjectBelongs
<1>3. Elsewhere(Asking(t, "lookup_self", <<>>))
  BY <1>0, AskingElsewhere
<1> QED  BY <1>0, <1>2, <1>3, ReturnOneElsewhere, Zenon
         DEF LookupSelf, OnlyTasks

LEMMA ListingBelongs ==
  ASSUME LinkInv, links' = links, NEW t \in Tasks, NEW n,
         ReadDir(t) \/ SkipEntries(t, n) \/ NextEntry(t)
  PROVE  TasksBelong'
<1>0. TasksHold /\ TasksBelong
  BY DEF LinkInv, AccessInv
<1>1. CASE ReadDir(t)
  <2> DEFINE task == Asking(t, "read_dir", <<>>)
             reader == [is |-> "read_dir", dir |-> Held(t), at |-> 0,
                        skipped |-> 0, listed |-> {}]
  <2>1. Loaded(Held(t)) /\ Elsewhere(task)
    BY <1>0, <1>1, AskingHolds, AskingElsewhere
       DEF ReadDir, Holds, ObjectHolds, Held
  <2>2. ObjectHolds(reader) /\ ObjectBelongs(reader)
    BY <2>1 DEF ObjectHolds, ObjectBelongs, IsReader
  <2>3. Elsewhere(Returns(task, reader))
    BY <2>1, <2>2, EndsElsewhere, Zenon
  <2> QED  BY <1>0, <1>1, <2>3, PutElsewhere, Zenon DEF ReadDir, OnlyTasks
<1>2. CASE SkipEntries(t, n)
  <2> DEFINE task == Asking(t, "skip", <<>>)
             moved == Skipping(Reader(Held(t)), n)
  <2>1. IsReader(Reader(Held(t))) /\ Elsewhere(task)
    BY <1>0, <1>2, AskingHolds, AskingElsewhere, ReaderHolds, Zenon
       DEF SkipEntries, Holds, Held
  <2>2. ObjectHolds(moved) /\ moved.is = "read_dir"
    BY <2>1, SkippingHolds
  <2>3. ObjectBelongs(moved)
    <3> HIDE DEF moved
    <3> QED  BY <2>2 DEF ObjectBelongs
  <2>4. Elsewhere(Returns(task, moved))
    BY <2>1, <2>2, <2>3, EndsElsewhere, Zenon
  <2> QED  BY <1>0, <1>2, <2>4, PutElsewhere, Zenon DEF SkipEntries, OnlyTasks
<1>3. CASE NextEntry(t)
  <2> DEFINE task == Asking(t, "next", <<>>)
             reader == Reader(Held(t))
             entries == {DirEntry(reader, cursor) :
                           cursor \in Cursors(reader.dir, reader.at)}
  <2>1. IsReader(reader) /\ Elsewhere(task)
    BY <1>0, <1>3, AskingHolds, AskingElsewhere, ReaderHolds, Zenon
       DEF NextEntry, Holds, Held
  <2>2. ASSUME NEW cursor \in Cursors(reader.dir, reader.at)
        PROVE  /\ ObjectHolds(DirEntry(reader, cursor))
               /\ ObjectBelongs(DirEntry(reader, cursor))
    <3>1. ObjectHolds(DirEntry(reader, cursor))
      BY <2>1, DirEntryHolds
    <3>2. CursorBelongs(cursor)
      BY CursorsBelong
    <3>3. /\ DirEntry(reader, cursor).is = "dir_entry"
          /\ DirEntry(reader, cursor).cursor = cursor
      BY DEF DirEntry
    <3> QED  BY <3>1, <3>2, <3>3 DEF ObjectBelongs
  <2>3. \A x \in entries : ObjectHolds(x) /\ ObjectBelongs(x)
    BY <2>2
  <2>4. Elsewhere(ReturnsNone(task))
    BY <2>1, EndsElsewhere, Zenon
  <2>5. input' = input
    BY <1>3 DEF NextEntry, OnlyTasks
  <2>6. Put(t, ReturnsNone(task)) \/ ReturnOneOf(t, entries, task)
    BY <1>3, Zenon DEF NextEntry
  <2> HIDE DEF task, entries
  <2> QED  BY <1>0, <2>1, <2>3, <2>4, <2>5, <2>6, PutElsewhere,
              ReturnOneElsewhere, Zenon
<1> QED  BY <1>1, <1>2, <1>3

LEMMA FollowBelongs ==
  ASSUME LinkInv, links' = links, NEW t \in Tasks, FollowHardlink(t)
  PROVE  TasksBelong'
<1> DEFINE task == Asking(t, "follow_hardlink", <<>>)
           targets == {c \in LinkTargets(Held(t)) : Held(t).kind = "Hardlink"}
           files == UNION {FilesBehind(c, accessor.size) : c \in targets}
<1>0. TasksHold /\ TasksBelong /\ NInv /\ InputIsArchive
  BY DEF LinkInv, AccessInv
<1>1. TaskHolds(tasks[t]) /\ TaskHolds(task) /\ EntryBelongs(Held(t))
  <2>1. Held(t).is = "entry"
    BY DEF FollowHardlink, Holds, Held
  <2> QED  BY <1>0, <2>1, AskingHolds
           DEF TasksBelong, TaskBelongs, ObjectBelongs, Held
<1>2. /\ task.object = Held(t) /\ task.asked.call = "follow_hardlink"
      /\ task.asked.receiver = Held(t)
  <2> DEFINE x == [call |-> "follow_hardlink", receiver |-> tasks[t].object,
                   path |-> <<>>]
  <2>1. task = [object |-> tasks[t].object, job |-> tasks[t].job,
                asked |-> x, answer |-> "none"]
    <3> HIDE DEF x
    <3> QED  BY <1>1, TaskIs DEF Asking, x
  <2>2. x.call = "follow_hardlink" /\ x.receiver = tasks[t].object
    OBVIOUS
  <2> HIDE DEF x, task
  <2> QED  BY <2>1, <2>2 DEF Held
<1>3. ASSUME NEW x \in files
      PROVE  /\ ObjectBelongs(x) /\ x.kind = "File"
             /\ IsTarget(x.filename_header_offset, Held(t))
  <2>1. PICK c \in targets : x \in FilesBehind(c, accessor.size)
    BY <1>3
  <2>2. c \in CellsOf(input, "FILENAME") /\ IsTarget({c.at}, Held(t))
    BY <1>0, <1>1, <2>1, TargetsAreLinks
  <2>3. /\ x.is = "entry" /\ EntryBelongs(x)
        /\ x.kind = "File" /\ x.filename_header_offset = {c.at}
    BY <2>1, <2>2, FilesBehindBelong
  <2> QED  BY <2>2, <2>3 DEF ObjectBelongs
<1>4. ASSUME NEW x \in files
      PROVE  TaskBelongs(Returns(task, x))
  <2>1. Returns(task, x) = [object |-> x, job |-> NoJob,
                            asked |-> task.asked, answer |-> "ok"]
    BY <1>1, TaskIs, Zenon
  <2>2. task.asked.receiver = Held(t)
    BY <1>2
  <2> HIDE DEF task, files
  <2> QED  BY <1>3, <2>1, <2>2 DEF TaskBelongs, Followed
<1>5. TaskBelongs(ReturnsError(task))
  <2>1. ReturnsError(task) = [object |-> task.object, job |-> NoJob,
                              asked |-> task.asked, answer |-> "error"]
    BY <1>1, TaskIs, Zenon
  <2>2. ObjectBelongs(Held(t))
    BY <1>0 DEF TasksBelong, TaskBelongs, Held
  <2> HIDE DEF task
  <2> QED  BY <1>2, <2>1, <2>2 DEF TaskBelongs, Followed
<1>6. ReturnOneOf(t, files, task) /\ input' = input
  BY Zenon DEF FollowHardlink, OnlyTasks
<1>7. \/ \E x \in files : Put(t, Returns(task, x))
      \/ Put(t, ReturnsError(task))
  BY <1>6, Zenon DEF ReturnOneOf, PutOneOf
<1> HIDE DEF task, files
<1> QED  BY <1>0, <1>4, <1>5, <1>6, <1>7, PutBelongs, Zenon

LEMMA EntryCallsBelong ==
  ASSUME LinkInv, links' = links, NEW t \in Tasks,
         \/ DecodeEntry(t)
         \/ FollowHardlink(t)
         \/ OpenFileAtRange(t)
         \/ Contents(t)
  PROVE  TasksBelong'
<1>0. /\ TasksHold /\ TasksBelong /\ NInv /\ InputIsArchive
      /\ accessor.cache \subseteq Caches
  BY DEF LinkInv, AccessInv, AccessorHolds
<1>1. CASE DecodeEntry(t)
  <2> DEFINE dir == Held(t).reader.dir
  <2>1. /\ Loaded(dir) /\ Held(t).is = "dir_entry"
        /\ Elsewhere(Asking(t, "decode_entry", <<>>))
    BY <1>0, <1>1, AskingHolds, AskingElsewhere
       DEF DecodeEntry, Holds, ObjectHolds, IsReader, Held
  <2>2. CursorBelongs(Held(t).cursor)
    BY <1>0, <2>1 DEF TasksBelong, TaskBelongs, ObjectBelongs, Held
  <2>3. ASSUME NEW x \in Decoded(dir, Held(t).cursor)
        PROVE  ObjectHolds(x) /\ ObjectBelongs(x)
    <3>1. ObjectHolds(x) /\ x.is = "entry"
      BY <2>1, DecodedHolds
    <3>2. EntryBelongs(x)
      BY <1>0, <2>2, DecodedBelong
    <3> QED  BY <3>1, <3>2 DEF ObjectBelongs
  <2> QED  BY <1>0, <1>1, <2>1, <2>3, ReturnOneElsewhere, Zenon
           DEF DecodeEntry, OnlyTasks
<1>2. CASE OpenFileAtRange(t)
  <2>1. Held(t).is = "entry"
    BY <1>2 DEF OpenFileAtRange, Holds, Held
  <2>2. EntryBelongs(Held(t))
    BY <1>0, <2>1 DEF TasksBelong, TaskBelongs, ObjectBelongs, Held
  <2>3. ASSUME NEW x \in Reopened(Held(t))
        PROVE  ObjectHolds(x) /\ ObjectBelongs(x)
    <3>1. ObjectHolds(x)
      BY <1>0, FileEntriesHold DEF Reopened
    <3>2. x.is = "entry" /\ EntryBelongs(x)
      BY <1>0, <2>2, ReopenedBelong
    <3> QED  BY <3>1, <3>2 DEF ObjectBelongs
  <2>4. Elsewhere(Asking(t, "open_file_at_range", <<>>))
    BY <1>0, AskingElsewhere
  <2> QED  BY <1>0, <1>2, <2>3, <2>4, ReturnOneElsewhere, Zenon
           DEF OpenFileAtRange, OnlyTasks
<1>3. CASE Contents(t)
  <2>1. ASSUME NEW x \in FileContents(Held(t))
        PROVE  ObjectHolds(x) /\ ObjectBelongs(x)
    <3>1. x.is = "contents"
      BY DEF FileContents, ContentRange
    <3> QED  BY <3>1 DEF ObjectHolds, ObjectBelongs
  <2>2. Elsewhere(Asking(t, "contents", <<>>))
    BY <1>0, AskingElsewhere
  <2> QED  BY <1>0, <1>3, <2>1, <2>2, ReturnOneElsewhere, Zenon
           DEF Contents, OnlyTasks
<1> QED  BY <1>1, <1>2, <1>3, FollowBelongs

LEMMA WaitingBelongs ==
  ASSUME LinkInv, links' = links, NEW t \in Tasks,
         ReadTail(t) \/ LoadTable(t)
  PROVE  TasksBelong'
<1> DEFINE job == tasks[t].job
           dirs == DirectoriesAtEnd(job.end, job.path, job.cache)
           known == UNION {{[dir EXCEPT !.table = table] :
                              table \in Fetch(dir)} : dir \in dirs}
           opened == {Opens(tasks[t], dir, job.rest) : dir \in known}
           waiting == {AwaitsTable(tasks[t], dir, job.rest) : dir \in dirs}
           loaded == {[job.dir EXCEPT !.table = table] :
                        table \in Tables(job.dir)}
<1>0. TasksHold /\ CachesHold /\ TasksBelong /\ TaskHolds(tasks[t])
  BY AskingHolds DEF LinkInv, AccessInv
<1>1. Elsewhere(tasks[t])
  BY <1>0, WaitingElsewhere DEF ReadTail, LoadTable, Job, NoJob
<1>2. CASE ReadTail(t)
  <2>1. job.cache \subseteq Caches
    BY <1>0, <1>2 DEF ReadTail, Job, TaskHolds, JobHolds
  <2>2. \A x \in known : Loaded(x)
    BY <1>0, <2>1, FetchedIsLoaded
  <2>3. \A x \in opened : Elsewhere(x)
    <3> HIDE DEF known
    <3> QED  BY <1>1, <2>2, OpensElsewhere, Zenon
  <2>4. ASSUME NEW d \in dirs
        PROVE  Elsewhere(AwaitsTable(tasks[t], d, job.rest))
    <3>1. Located(d)
      BY <2>1, DirectoriesAreLocated
    <3>2. JobHolds([is |-> "table", dir |-> d, rest |-> job.rest])
      BY <3>1 DEF JobHolds
    <3> QED  BY <1>1, <3>2, EndsElsewhere DEF AwaitsTable
  <2>5. \A x \in waiting : Elsewhere(x)
    BY <2>4, Zenon
  <2>6. /\ PutOneOf(t, IF known # {} THEN opened ELSE waiting, tasks[t])
        /\ input' = input
    BY <1>2, Zenon DEF ReadTail, OnlyTasks
  <2> HIDE DEF known, opened, waiting
  <2> QED  BY <1>0, <1>1, <2>3, <2>5, <2>6, PutOneElsewhere, Zenon
<1>3. CASE LoadTable(t)
  <2>1. Located(job.dir)
    BY <1>0, <1>3 DEF LoadTable, Job, TaskHolds, JobHolds
  <2>2. ASSUME NEW table \in Tables(job.dir)
        PROVE  Loaded([job.dir EXCEPT !.table = table])
    <3>1. IsTableAt(job.dir.goodbye_ofs, table)
      BY DEF Tables, IsTableAt
    <3> QED  BY <2>1, <3>1, LoadedWithTable
  <2>3. \A d \in loaded : Elsewhere(Opens(tasks[t], d, job.rest))
    BY <1>1, <2>2, OpensElsewhere, Zenon
  <2>4. \/ \E d \in loaded : Put(t, Opens(tasks[t], d, job.rest))
        \/ Put(t, ReturnsError(tasks[t]))
    BY <1>3, Zenon DEF LoadTable
  <2>5. Elsewhere(ReturnsError(tasks[t])) /\ input' = input
    BY <1>1, <1>3, EndsElsewhere, Zenon DEF LoadTable
  <2> HIDE DEF loaded
  <2> QED  BY <1>0, <2>3, <2>4, <2>5, PutElsewhere, Zenon
<1> QED  BY <1>2, <1>3

LEMMA ProbeBelongs ==
  ASSUME LinkInv, links' = links, NEW t \in Tasks, Probe(t)
  PROVE  TasksBelong'
<1> DEFINE job == tasks[t].job
           index == HashPosition(job.dir, HashOf[job.rest[1]], job.first,
                                 job.dup)
           outcomes == UNION {Probed(tasks[t], cursor) :
                                cursor \in Cursors(job.dir, index)}
<1>0. TasksHold /\ TasksBelong /\ NInv /\ InputIsArchive
  BY DEF LinkInv, AccessInv
<1>1. TaskHolds(tasks[t]) /\ IsProbe(job) /\ Loaded(job.dir)
  BY <1>0, AskingHolds DEF Probe, Job, TaskHolds, JobHolds, IsProbe
<1>2. Elsewhere(tasks[t])
  BY <1>0, WaitingElsewhere DEF Probe, Job, NoJob
<1>3. ASSUME NEW cursor \in Cursors(job.dir, index),
             NEW x \in Probed(tasks[t], cursor)
      PROVE  Elsewhere(x)
  <2>1. Elsewhere(Awaits(tasks[t], [job EXCEPT !.dup = @ + 1]))
    BY <1>1, <1>2, ProbeAgain, EndsElsewhere, Zenon
  <2>2. CursorBelongs(cursor)
    BY CursorsBelong
  <2>3. \A e \in Decoded(job.dir, cursor) :
          Elsewhere(Finds(tasks[t], e, Tail(job.rest)))
    BY <1>0, <1>1, <1>2, <2>2, DecodedHolds, DecodedBelong, FindsElsewhere,
       Zenon
  <2> QED  BY <1>3, <2>1, <2>3, Zenon DEF Probed
<1>4. \A x \in outcomes : Elsewhere(x)
  BY <1>3, Zenon
<1>5. Elsewhere(ReturnsNone(tasks[t]))
  BY <1>2, EndsElsewhere, Zenon
<1>6. /\ Put(t, ReturnsNone(tasks[t])) \/ PutOneOf(t, outcomes, tasks[t])
      /\ input' = input
  BY Zenon DEF Probe, OnlyTasks
<1> HIDE DEF outcomes
<1> QED  BY <1>0, <1>2, <1>4, <1>5, <1>6, PutElsewhere, PutOneElsewhere, Zenon

LEMMA InterruptBelongs ==
  ASSUME LinkInv, links' = links, NEW t \in Tasks, Interrupt(t)
  PROVE  TasksBelong'
<1> DEFINE task == [IdleTask EXCEPT !.object = tasks[t].object]
<1>0. TasksHold /\ TasksBelong
  BY DEF LinkInv, AccessInv
<1>1. task = [object |-> tasks[t].object, job |-> NoJob, asked |-> NoCall,
              answer |-> "none"]
  BY DEF IdleTask
<1>2. ObjectBelongs(tasks[t].object)
  BY <1>0 DEF TasksBelong, TaskBelongs
<1>3. TaskBelongs(task)
  BY <1>1, <1>2 DEF TaskBelongs, Followed, NoCall
<1> HIDE DEF task
<1> QED  BY <1>0, <1>3, PutBelongs, Zenon DEF Interrupt, OnlyTasks, task

-----------------------------------------------------------------------------
(***************************************************************************)
(* The composition.  Once the encoder is closed its archive does not change.*)
(***************************************************************************)
LEMMA ClosedStays ==
  ASSUME IInv, phase = "closed", [Next]_vars
  PROVE  UNCHANGED vars
<1>1. state = <<>> /\ ~file.open
  BY DEF IInv, TypeOK
<1>2. ~Usable /\ ~Check /\ ~CanCreateFile /\ ~Close
  BY <1>1 DEF Usable, Check, CanCreateFile, Close
<1>3. ~FileCalls
  <2>1. \A n, meta, size : /\ ~CreateFile(n, meta, size)
                           /\ ~CreateFileFails(n, meta, size)
    BY <1>2, Zenon DEF CreateFile, CreateFileFails
  <2>2. \A n, meta, size, got, returned : ~AddFile(n, meta, size, got, returned)
    BY <1>2, Zenon DEF AddFile
  <2> QED  BY <2>1, <2>2, Zenon DEF FileCalls
<1>4. ~WriteCalls
  BY <1>1, Zenon DEF WriteCalls, Write, WriteAllFails, PollWrite, DropFile
<1>5. ~RefCalls
  BY <1>2, Zenon DEF RefCalls, Advance
<1>6. ~EntryCalls
  BY <1>2, Zenon
     DEF EntryCalls, AddDevice, AddFifo, AddSocket, AddSymlink, AddHardlink,
         AddFileEntry, CreateDirectory
<1>7. ~Finish /\ ~FinishFails
  BY <1>2, Zenon DEF Finish, FinishFails
<1>8. \A meta, prelude : ~New(meta, prelude)
  BY DEF New
<1> QED  BY <1>2, <1>3, <1>4, <1>5, <1>6, <1>7, <1>8, Zenon
         DEF Next, Terminated

LEMMA IdleBelongs ==
  ASSUME tasks = [t \in Tasks |-> IdleTask]
  PROVE  TasksBelong
BY DEF TasksBelong, TaskBelongs, ObjectBelongs, Followed, IdleTask, NoObject,
       NoCall

LEMMA BelongUnmoved ==
  ASSUME TasksBelong, UNCHANGED <<input, links, tasks>>
  PROVE  TasksBelong'
<1>1. \A e : EntryBelongs(e)' <=> EntryBelongs(e)
  BY DEF EntryBelongs, CellsOf
<1>2. \A c : CursorBelongs(c)' <=> CursorBelongs(c)
  BY DEF CursorBelongs, CellsOf
<1>3. \A offsets, e : IsTarget(offsets, e)' <=> IsTarget(offsets, e)
  BY DEF IsTarget, CellsOf
<1> QED  BY <1>1, <1>2, <1>3
         DEF TasksBelong, TaskBelongs, ObjectBelongs, Followed

LEMMA AccessorBelongs ==
  ASSUME LinkInv, links' = links, AccessorNext
  PROVE  TasksBelong'
<1>1. TasksBelong
  BY DEF LinkInv
<1>2. CASE UNCHANGED <<input, tasks>>
  BY <1>1, <1>2, BelongUnmoved
<1>3. ASSUME NEW t \in Tasks, AccessorCalls(t)
      PROVE  TasksBelong'
  BY <1>3, OpeningBelongs, LookupBelongs, LookupSelfBelongs, ListingBelongs,
     EntryCallsBelong, Zenon DEF AccessorCalls
<1>4. ASSUME NEW t \in Tasks, Goes(t)
      PROVE  TasksBelong'
  BY <1>4, WaitingBelongs, ProbeBelongs, Zenon DEF Goes
<1>5. \/ UNCHANGED <<input, tasks>>
      \/ \E t \in Tasks : AccessorCalls(t) \/ Goes(t) \/ Interrupt(t)
  BY Zenon DEF AccessorNext, NewAccessor, SetGoodbyeTableCache, Evict
<1> QED  BY <1>2, <1>3, <1>4, <1>5, InterruptBelongs, Zenon

LEMMA LinkInit == RandomAccessInit => LinkInv
<1> SUFFICES ASSUME RandomAccessInit PROVE LinkInv
  OBVIOUS
<1>1. AccessInv
  BY AccessInit
<1>2. NInv
  <2>1. OInv /\ archive.cells = {}
    BY InitLeads DEF RandomAccessInit, Init, EmptyStream
  <2> QED  BY <2>1 DEF NInv, LaidOut, Apart, VersionFirst, LinksKept
<1>3. InputIsArchive
  BY DEF InputIsArchive, RandomAccessInit
<1>4. TasksBelong
  BY IdleBelongs DEF RandomAccessInit, AccessorInit
<1> QED  BY <1>1, <1>2, <1>3, <1>4 DEF LinkInv

LEMMA LinkStep ==
  ASSUME LinkInv, [RandomAccessNext]_randomAccessVars
  PROVE  LinkInv'
<1>1. AccessInv /\ NInv /\ IInv /\ InputIsArchive /\ TasksBelong
  BY DEF LinkInv, NInv, OInv
<1>2. AccessInv'
  BY <1>1, AccessStep
<1>3. [Next]_vars
  BY DEF RandomAccessNext, Encode, Keep, Access, randomAccessVars, vars
<1>4. NInv'
  BY <1>1, <1>3, NextKeeps, NextLeads, NextLaysOut DEF NInv, OInv
<1>5. input = EmptyStream \/ UNCHANGED vars
  BY <1>1, <1>3, ClosedStays DEF InputIsArchive
<1>6. input = EmptyStream => tasks = [t \in Tasks |-> IdleTask]
  BY <1>1 DEF AccessInv, NobodyReads
<1>7. CASE UNCHANGED accessorVars
  <2>1. UNCHANGED <<input, tasks>>
    BY <1>7 DEF accessorVars
  <2>2. InputIsArchive'
    BY <1>1, <1>5, <2>1 DEF InputIsArchive, vars
  <2>3. TasksBelong'
    <3>1. CASE input = EmptyStream
      <4>1. tasks' = [t \in Tasks |-> IdleTask]
        BY <1>6, <2>1, <3>1
      <4> QED  BY <4>1 DEF TasksBelong, TaskBelongs, ObjectBelongs, Followed,
                           IdleTask, NoObject, NoCall
    <3>2. CASE UNCHANGED vars
      BY <1>1, <2>1, <3>2, BelongUnmoved DEF vars
    <3> QED  BY <1>5, <3>1, <3>2
  <2> QED  BY <1>2, <1>4, <2>2, <2>3 DEF LinkInv
<1>8. CASE Keep
  <2>1. InputIsArchive'
    BY <1>8 DEF Keep, InputIsArchive, vars
  <2>2. tasks' = [t \in Tasks |-> IdleTask]
    BY <1>6, <1>8 DEF Keep
  <2>3. TasksBelong'
    BY <2>2 DEF TasksBelong, TaskBelongs, ObjectBelongs, Followed, IdleTask,
                NoObject, NoCall
  <2> QED  BY <1>2, <1>4, <2>1, <2>3 DEF LinkInv
<1>9. CASE Access
  <2>1. AccessorNext /\ UNCHANGED vars
    BY <1>9 DEF Access
  <2>2. input' = input
    BY <1>1, <2>1, AccessKeeps
  <2>3. InputIsArchive'
    BY <1>1, <2>1, <2>2 DEF InputIsArchive, vars
  <2>4. links' = links
    BY <2>1 DEF vars
  <2>5. TasksBelong'
    BY <2>1, <2>4, AccessorBelongs
  <2> QED  BY <1>2, <1>4, <2>3, <2>5 DEF LinkInv
<1> QED  BY <1>7, <1>8, <1>9
         DEF RandomAccessNext, Encode, randomAccessVars, accessorVars

(* Following a hardlink, whichever way the task came by it (a lookup, a       *)
(* listing, a kept range), leads to a file, and to the one it was made for:  *)
(* the one the path in its HARDLINK item names, whose LinkOffset add_file,   *)
(* create_file or add_payload_ref had handed to the caller.                  *)
(* follow_hardlink subtracts, from the FILENAME an entry remembers, what     *)
(* add_hardlink had subtracted from the position it wrote that FILENAME at.   *)
THEOREM HardlinksLead == RandomAccessSpec => []HardlinksLeadToFiles
<1>1. ASSUME LinkInv PROVE HardlinksLeadToFiles
  <2> SUFFICES ASSUME NEW t \in Tasks, Returned(t, "follow_hardlink")
               PROVE  /\ Held(t).kind = "File"
                      /\ \E own \in Filenames,
                            link \in CellsOf(archive, "HARDLINK") :
                           /\ own.at \in tasks[t].asked.receiver
                                           .filename_header_offset
                           /\ link.at = own.at + own.item.size
                           /\ Held(t).filename_header_offset
                                = {link.item.target}
                           /\ link.item.target \in links
    BY DEF HardlinksLeadToFiles
  <2>1. /\ Held(t).kind = "File"
        /\ IsTarget(Held(t).filename_header_offset, tasks[t].asked.receiver)
    BY <1>1 DEF LinkInv, TasksBelong, TaskBelongs, Followed, Returned, Held
  <2>2. input = archive
    <3>1. input # EmptyStream
      BY <2>1 DEF IsTarget, CellsOf, EmptyStream
    <3> QED  BY <1>1, <3>1 DEF LinkInv, InputIsArchive
  <2> QED  BY <2>1, <2>2 DEF IsTarget, Filenames
<1> QED  BY <1>1, LinkInit, LinkStep, PTL DEF RandomAccessSpec
=============================================================================

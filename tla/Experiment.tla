------------------------------ MODULE Experiment ------------------------------
(***************************************************************************)
(* An Experiment (src/cimba/experiments): the trials of a design, run on   *)
(* blocks by the workers of the native engine, in chunks that fit the      *)
(* memory for input rows, with rows from a cache, and rerun on longer rows *)
(* when they run out; structural options run apart and are merged.         *)
(***************************************************************************)
EXTENDS Draws, Ordered, SequencesExt, Functions

CONSTANTS
  Fields,        (* the input fields of all models, in the assembly's order *)
  SeriesFields,  (* those that are read by time bucket                      *)
  Required,      (* buckets that the window covers, 0 until idle            *)
  Designs,       (* sequences of points; a point binds the fields and has a *)
                 (* structural option, and its trials read in some order    *)
  PartsOf,       (* the fields that exist under each option                 *)
  Replications,
  Seeds(_, _, _),(* the seed of a point and a replication under a seeding   *)
  Seedings,
  Memories,      (* values of input_memory, in values of a row              *)
  Failures,      (* some of "record" and "raise"                            *)
  Selections,    (* sequences of trial indices to rerun                     *)
  Doublings,     (* extensions of a row at most                             *)
  MaxCalls       (* bound: calls of the experiment                          *)

None == "none"                         (* no tag, no reason to end          *)
MaxOf(x, y) == IF x > y THEN x ELSE y
MinOf(x, y) == IF x < y THEN x ELSE y

(* A point of a design: its sources and its reads are of fields that exist  *)
(* under its option (Assembly.of, DesignPoint).                             *)
ReadsOf(p) == [field : PartsOf[p.option] \cup {None}, clone : BOOLEAN, bucket : Nat \cup {-1}]
IsPoint(p) ==
  /\ p.option \in DOMAIN PartsOf
  /\ \A f \in PartsOf[p.option] : p.bind[f] \in DOMAIN Sources
  /\ DOMAIN p.reads = 1 .. Len(p.reads) /\ \A k \in DOMAIN p.reads : p.reads[k] \in ReadsOf(p)

ASSUME FieldAssumption ==
  /\ DOMAIN Fields = 1 .. Len(Fields)
  /\ \A i, j \in DOMAIN Fields : Fields[i] = Fields[j] => i = j
  /\ \A o \in DOMAIN PartsOf : PartsOf[o] \subseteq Range(Fields)
  /\ None \notin Range(Fields) /\ Required \in Nat

ASSUME DesignAssumption == \A d \in Designs :
  /\ d # <<>> /\ DOMAIN d = 1 .. Len(d) /\ \A p \in DOMAIN d : IsPoint(d[p])
  /\ \A mode \in Seedings, p \in DOMAIN d, r \in 1 .. Replications : Seeds(mode, p, r) \in Nat

ASSUME CallAssumption ==
  /\ Replications \in Nat \ {0} /\ Memories \subseteq Nat /\ Doublings \in Nat /\ MaxCalls \in Nat
  /\ \A trials \in Selections : DOMAIN trials = 1 .. Len(trials) /\ Range(trials) \subseteq Nat

(* Members of a joint panel share its tag and resample its rows together    *)
(* (JointMembers); nothing else has that tag.                               *)
ASSUME JointAssumption == \A x, y \in DOMAIN Sources :
  LET s == Sources[x]
      u == Sources[y]
  IN  s.kind \in Rows /\ u.kind \in Rows /\ s.tag # None /\ s.tag = u.tag =>
        /\ s.kind = "stationary" /\ u.kind = "stationary" /\ s.mean_block = u.mean_block
        /\ Len(s.data) = Len(u.data)

VARIABLES
  design, seeding,
  phase,         (* "idle", "plan", "bind", "native" or "extend"            *)
  calls,
  request,       (* trials asked for, none for all, and as positions: a     *)
                 (* point and its seeds each                                *)
  groups,        (* positions by the option they bind                       *)
  group, start, size,  (* the group and the chunk under way                 *)
  row_groups,    (* the rows that the group takes, but for the seeds        *)
  blocks,        (* trial blocks of the chunk                               *)
  chunks,        (* results of the chunks before it                         *)
  parts,         (* and of the groups before                                *)
  results,       (* of the call: "none", "refused", "raised" or "done"      *)
  cache          (* of each option, rows by key, the least recently used    *)
                 (* first                                                   *)

plan == <<design, seeding>>
work == <<groups, group, start, size, row_groups, blocks, chunks, parts>>
vars == <<plan, phase, calls, request, work, results, cache>>

-----------------------------------------------------------------------------
(* Row lengths, keys, and the cache *)

Point(i)     == design[request.positions[i].point]
SourceOf(p, f) == Sources[p.bind[f]]
InPart(p)    == Picked(Fields, {i \in DOMAIN Fields : Fields[i] \in PartsOf[p.option]})
TagOf(p, f)  == IF SourceOf(p, f).tag = None THEN f ELSE SourceOf(p, f).tag
BaseLength(p, f) ==
  LET s      == SourceOf(p, f)
      length == MaxOf(s.hint, IF f \in SeriesFields THEN Required ELSE 1)
  IN  IF s.max = NoMax THEN length ELSE MinOf(length, s.max)
RowKey(p, f, seed, length) ==
  [source |-> p.bind[f], tag |-> TagOf(p, f), seed |-> seed, length |-> length]
RowOf(key) == Row(Sources[key.source], <<key.seed, key.tag>>, key.length)

Total(c) == FoldFunction(LAMBDA x, y : x + y, 0, [i \in DOMAIN c |-> Len(c[i].row)])
Cached(c)    == {c[i].key : i \in DOMAIN c}

(* Snapshot.trim_rows: the oldest go until the rest fits.                   *)
Trimmed_Once(c, memory) == IF c # <<>> /\ Total(c) > memory THEN Tail(c) ELSE c
Trimmed(c, memory) ==
  LET fits == {k \in 1 .. Len(c) + 1 : Total(SubSeq(c, k, Len(c))) <= memory}
  IN  SubSeq(c, CHOOSE k \in fits : \A j \in fits : k <= j, Len(c))

(* Snapshot.rows for keys that differ in their seeds: what is cached moves  *)
(* to the end, the rest is generated and may push others out.               *)
CachedRow(c, key) == c[CHOOSE i \in DOMAIN c : c[i].key = key].row
Added(c, key, memory)     == Trimmed(Append(c, [key |-> key, row |-> RowOf(key)]), memory)
AddedAll(c, keys, memory) == FoldLeft(LAMBDA old, key : Added(old, key, memory), c, keys)
Fetched(c, keys, memory) ==
  LET kept   == Trimmed(c, memory)
      hits   == Picked(keys, {i \in DOMAIN keys : keys[i] \in Cached(kept)})
      misses == Picked(keys, {i \in DOMAIN keys : keys[i] \notin Cached(kept)})
      moved  == Picked(kept, {i \in DOMAIN kept : kept[i].key \notin Range(keys)})
                \o [i \in DOMAIN hits |-> [key |-> hits[i], row |-> CachedRow(kept, hits[i])]]
  IN  [cache |-> AddedAll(moved, misses, memory),
       rows  |-> [k \in Range(keys) |-> IF k \in Cached(kept) THEN CachedRow(kept, k)
                                        ELSE RowOf(k)]]

-----------------------------------------------------------------------------
(* A trial, in the native engine *)

(* A read takes the next value of a field, or that of a time bucket, from   *)
(* the slot of the static model or from the copy of a spawned one.          *)
NoRead  == [field |-> None, clone |-> FALSE, bucket |-> -1]
IsFault(read) == read.field = None     (* the model's code fails             *)

(* cpy_input_next, cpy_series_at: position k of the slot's row or stream.   *)
Taken(k, row, policy) ==
  IF row = <<>> THEN [value |-> 0, end |-> "failed"]
  ELSE IF k <= Len(row) THEN [value |-> row[k], end |-> None]
  ELSE CASE policy = "wrap"      -> [value |-> row[((k - 1) % Len(row)) + 1], end |-> None]
         [] policy = "end_trial" -> [value |-> 0, end |-> "success"]
         [] policy = "extend"    -> [value |-> 0, end |-> "exhausted"]
         [] policy = "fail"      -> [value |-> 0, end |-> "failed"]
SlotRead(p, seed, rows, k, read) ==
  LET s == SourceOf(p, read.field)
  IN  CASE s.kind = "empty"        -> [value |-> 0, end |-> "failed"]
        [] s.kind = "distribution" ->
             [value |-> Raw(seed, IF read.clone THEN "clone" ELSE TagOf(p, read.field), k),
              end |-> None]
        [] OTHER -> Taken(k, rows[read.field], s.policy)

Fresh(p, seed, rows, lengths) ==
  [status |-> "new", point |-> p, seed |-> seed, rows |-> rows, extended |-> lengths,
   seen |-> <<>>, ran_out |-> NoRead, own |-> [f \in DOMAIN rows |-> 0],
   clone |-> [f \in DOMAIN rows |-> 0]]

(* One trial from its first read to its end.                                *)
Step(block, read) ==
  IF block.status # "new" THEN block
  ELSE IF IsFault(read) THEN [block EXCEPT !.status = "failed"]
  ELSE LET cursors == IF read.clone THEN block.clone ELSE block.own
           k     == IF read.bucket < 0 THEN cursors[read.field] + 1 ELSE read.bucket + 1
           taken == SlotRead(block.point, block.seed, block.rows, k, read)
           moved == [cursors EXCEPT ![read.field] = MaxOf(@, k)]
       IN  IF taken.end # None
           THEN [block EXCEPT !.status = taken.end,
                   !.ran_out = IF taken.end = "exhausted" THEN read ELSE NoRead]
           ELSE [block EXCEPT !.seen = Append(@, <<read, taken.value>>),
                   !.own = IF read.clone THEN @ ELSE moved,
                   !.clone = IF read.clone THEN moved ELSE @]
Stepped(block, reads) == FoldLeft(Step, block, reads)
Played(block) ==
  LET end == Stepped(block, block.point.reads)
  IN  IF end.status = "new" THEN [end EXCEPT !.status = "success"] ELSE end

-----------------------------------------------------------------------------
(* Calls *)

AllTrials ==
  [p \in DOMAIN design |->
     [point |-> p, seeds |-> [r \in 1 .. Replications |-> Seeds(seeding, p, r)]]]

(* Experiment.only: a flattened index is a point and a replication.         *)
Selected_Swapped(i) == LET p == (i % Len(design)) + 1
                       IN  [point |-> p, seeds |-> <<Seeds(seeding, p, (i \div Len(design)) + 1)>>]
Selected(i) == LET p == (i \div Replications) + 1
               IN  [point |-> p, seeds |-> <<Seeds(seeding, p, (i % Replications) + 1)>>]

(* _run_variants: positions grouped by the options that their points bind.  *)
Firsts(s)   == {i \in DOMAIN s : \A j \in 1 .. i - 1 : s[j] # s[i]}
Distinct(s) == Picked(s, Firsts(s))
Grouped(positions) ==
  LET option  == [i \in DOMAIN positions |-> design[positions[i].point].option]
      options == Distinct(option)
  IN  [g \in DOMAIN options |-> InOrder({i \in DOMAIN positions : option[i] = options[g]})]

Call(trials, positions, memory, on_failure) ==
  /\ phase = "idle" /\ calls < MaxCalls /\ calls' = calls + 1
  /\ request' = [trials |-> trials, positions |-> positions, memory |-> memory,
                 on_failure |-> on_failure]
  /\ groups' = Grouped(positions)
  /\ phase' = "plan" /\ group' = 1 /\ start' = 0 /\ chunks' = <<>> /\ parts' = <<>>
  /\ results' = "none"
  /\ UNCHANGED <<plan, size, row_groups, blocks, cache>>
RunAll(memory, on_failure) == Call(<<>>, AllTrials, memory, on_failure)
RunOnly(trials, memory, on_failure) ==
  /\ trials # <<>> /\ \A i \in Range(trials) : i < Len(design) * Replications
  /\ Call(trials, [k \in DOMAIN trials |-> Selected(trials[k])], memory, on_failure)

Group == groups[group]
Home  == Point(Group[1]).option        (* whose snapshot runs the group      *)
Count == Len(request.positions[1].seeds)
SeedAt(local, r) == request.positions[Group[local]].seeds[r]

(* _run_single: the values of all rows that one replication takes.          *)
IsCommon == \A l \in DOMAIN Group : request.positions[Group[l]].seeds
                                      = request.positions[Group[1]].seeds
RowGroups ==
  LET of(f) == [l \in DOMAIN Group |-> LET p == Point(Group[l])
                                      IN  IF Generated(SourceOf(p, f))
                                          THEN <<RowKey(p, f, 0, BaseLength(p, f))>> ELSE <<>>]
  IN  Distinct(FlattenSeq(FlattenSeq([j \in DOMAIN InPart(Point(Group[1])) |->
                                        of(InPart(Point(Group[1]))[j])])))
Lengths(keys)        == FoldLeft(LAMBDA x, k : x + k.length, 0, keys)
PerReplication(keys) == Lengths(keys) * (IF IsCommon THEN 1 ELSE Len(Group))

(* How many replications a chunk has: all of them, or as many as fit.       *)
ChunkSize(bytes) == IF bytes * Count <= request.memory THEN Count
                    ELSE MaxOf(1, request.memory \div bytes)
Plan ==
  /\ phase = "plan" /\ row_groups' = RowGroups
  /\ LET bytes == PerReplication(row_groups')
     IN  IF bytes > request.memory
         THEN phase' = "idle" /\ results' = "refused" /\ UNCHANGED size
         ELSE phase' = "bind" /\ size' = ChunkSize(bytes) /\ UNCHANGED results
  /\ UNCHANGED <<plan, calls, request, groups, group, start, blocks, chunks, parts, cache>>

(* The seeds that take a row, in a chunk.                                   *)
ChunkReps == start + 1 .. MinOf(start + size, Count)
ChunkKeys(k) ==
  LET takes(l) == \E f \in PartsOf[Home] :
                    LET p == Point(Group[l])
                    IN  Generated(SourceOf(p, f)) /\ RowKey(p, f, 0, BaseLength(p, f)) = k
      seeds == InOrder({SeedAt(t[1], t[2]) : t \in {l \in DOMAIN Group : takes(l)} \X ChunkReps})
  IN  [n \in DOMAIN seeds |-> [k EXCEPT !.seed = seeds[n]]]
Joining(f, g) == [x \in DOMAIN f \cup DOMAIN g |-> IF x \in DOMAIN g THEN g[x] ELSE f[x]]
WithRows(done, k, memory) ==
  LET got == Fetched(done.cache, ChunkKeys(k), memory)
  IN  [cache |-> got.cache, rows |-> Joining(done.rows, got.rows)]
WithAllRows(done, keys, memory) == FoldLeft(LAMBDA d, k : WithRows(d, k, memory), done, keys)
Bound(c, memory) == WithAllRows([cache |-> c, rows |-> <<>>], row_groups, memory)

(* _run_core: blocks with their rows bound.                                 *)
BindChunk ==
  /\ phase = "bind"
  /\ LET bound == Bound(cache[Home], request.memory)
         row(p, f, seed) == LET s == SourceOf(p, f)
                            IN  IF Generated(s) THEN bound.rows[RowKey(p, f, seed, BaseLength(p, f))]
                                ELSE IF s.kind = "trace" THEN s.data ELSE <<>>
         block(l, r) == LET p    == Point(Group[l])
                            seed == SeedAt(l, r)
                        IN  Fresh(p, seed, [f \in PartsOf[p.option] |-> row(p, f, seed)],
                                  [f \in PartsOf[p.option] |-> 0])
     IN  /\ cache' = [cache EXCEPT ![Home] = bound.cache]
         /\ blocks' = [t \in (DOMAIN Group) \X ChunkReps |-> block(t[1], t[2])]
  /\ phase' = "native"
  /\ UNCHANGED <<plan, calls, request, groups, group, start, size, row_groups, chunks, parts,
                 results>>

(* run_blocks: the workers run the blocks, in no particular order.          *)
RunTrial(t) ==
  /\ phase = "native" /\ blocks[t].status = "new"
  /\ blocks' = [blocks EXCEPT ![t] = Played(@)]
  /\ phase' = IF \A u \in (DOMAIN blocks) \ {t} : blocks[u].status # "new" THEN "extend" ELSE phase
  /\ UNCHANGED <<plan, calls, request, groups, group, start, size, row_groups, chunks,
                 parts, results, cache>>

-----------------------------------------------------------------------------
(* Extension *)

Exhausted == {t \in DOMAIN blocks : blocks[t].status = "exhausted"}
Earlier(x, y) == x[1] < y[1] \/ (x[1] = y[1] /\ x[2] < y[2])

(* The static slot that ran out; for a spawned model's copy, that has no    *)
(* slot in the block, every generated row of the point.                     *)
Targets(b) ==
  IF ~b.ran_out.clone THEN <<b.ran_out.field>>
  ELSE Picked(Fields, {i \in DOMAIN Fields : /\ Fields[i] \in PartsOf[b.point.option]
                                             /\ Generated(SourceOf(b.point, Fields[i]))})

MayExtend(b, f) ==
  LET s == SourceOf(b.point, f)
  IN  /\ Generated(s) /\ s.stable /\ b.extended[f] < Doublings
      /\ s.max = NoMax \/ 2 * Len(b.rows[f]) <= s.max

(* Targets are extended in turn up to the first that cannot be.             *)
Extensible(b) == Picked(Targets(b), {i \in DOMAIN Targets(b) :
                                       \A j \in 1 .. i : MayExtend(b, Targets(b)[j])})
Doubled(b, old, f, memory) ==
  LET key == RowKey(b.point, f, b.seed, 2 * Len(b.rows[f]))
      got == Fetched(old.cache, <<key>>, memory)
  IN  [cache |-> got.cache, rows |-> [old.rows EXCEPT ![f] = got.rows[key]],
       extended |-> [old.extended EXCEPT ![f] = @ + 1]]
AllDoubled(b, old, fields, memory) == FoldLeft(LAMBDA o, f : Doubled(b, o, f, memory), old, fields)
Extended(b, c, memory) ==
  AllDoubled(b, [cache |-> c, rows |-> b.rows, extended |-> b.extended], Extensible(b), memory)
Replayed_Forgets(b, rows, extended) ==
  Fresh(b.point, b.seed, rows, [f \in DOMAIN rows |-> 0])
Replayed(b, rows, extended) == Fresh(b.point, b.seed, rows, extended)
Extend ==
  /\ phase = "extend" /\ Exhausted # {}
  /\ LET t == CHOOSE t \in Exhausted : \A u \in Exhausted \ {t} : Earlier(t, u)
         b == blocks[t]
         all == Extended(b, cache[Home], request.memory)
     IN  /\ cache' = [cache EXCEPT ![Home] = all.cache]
         /\ blocks' = [blocks EXCEPT ![t] =
              IF Len(Extensible(b)) < Len(Targets(b)) \/ Targets(b) = <<>>
              THEN [b EXCEPT !.status = "failed", !.extended = all.extended]
              ELSE Played(Replayed(b, all.rows, all.extended))]
  /\ UNCHANGED <<plan, phase, calls, request, groups, group, start, size, row_groups,
                 chunks, parts, results>>

-----------------------------------------------------------------------------
(* Results *)

Outcome(b) ==
  [point |-> b.point, seed |-> b.seed, failed |-> b.status # "success",
   seen |-> IF b.status = "success" THEN b.seen ELSE <<>>,
   consumed |-> b.own, extended |-> b.extended]
ChunkResult ==
  [l \in DOMAIN Group |->
     [i \in 1 .. MinOf(size, Count - start) |-> Outcome(blocks[<<l, start + i>>])]]

(* A part keeps its chunks, to regenerate rows, beside what it joins of them.*)
Joined(cs) == [l \in DOMAIN cs[1] |-> FlattenSeq([c \in DOMAIN cs |-> cs[c][l]])]
Part(cs)   == [outcomes |-> Joined(cs), chunks |-> cs, size |-> size]

(* _merge: the rows of a part go to the positions of its group.             *)
Owner(i) == CHOOSE o \in {<<g, l>> : g \in DOMAIN groups, l \in DOMAIN request.positions} :
              o[2] \in DOMAIN groups[o[1]] /\ groups[o[1]][o[2]] = i
Merged(ps) == [i \in DOMAIN request.positions |-> ps[Owner(i)[1]].outcomes[Owner(i)[2]]]

(* The end of a chunk, of a group, and of the call.                         *)
Collect ==
  /\ phase = "extend" /\ Exhausted = {}
  /\ LET done == Append(chunks, ChunkResult)
         last == start + size >= Count
         all  == Append(parts, Part(done))
     IN  IF request.on_failure = "raise" /\ \E t \in DOMAIN blocks : blocks[t].status # "success"
         THEN phase' = "idle" /\ results' = "raised" /\ UNCHANGED work
         ELSE IF ~last
         THEN /\ chunks' = done /\ start' = start + size /\ phase' = "bind"
              /\ UNCHANGED <<groups, group, size, row_groups, blocks, parts, results>>
         ELSE /\ parts' = all /\ chunks' = <<>> /\ start' = 0
              /\ IF group < Len(groups)
                 THEN group' = group + 1 /\ phase' = "plan" /\ UNCHANGED results
                 ELSE phase' = "idle" /\ results' = "done" /\ UNCHANGED group
              /\ UNCHANGED <<groups, size, row_groups, blocks>>
  /\ UNCHANGED <<plan, calls, request, cache>>

(* InputRecord.rows of a position and a replication: the chunk is found by  *)
(* its size, and the row is generated anew, as long as what was consumed;   *)
(* generate refuses a length beyond the bound of its source.                *)
Cell_First(part, local, r) == part.chunks[1][local][((r - 1) % part.size) + 1]
Cell(part, local, r) ==
  part.chunks[((r - 1) \div part.size) + 1][local][((r - 1) % part.size) + 1]
NoRows == <<"refused">>
Again(s, g, n) == IF s.max # NoMax /\ MaxOf(1, n) > s.max THEN NoRows
                  ELSE SubSeq(Row(s, g, MaxOf(1, n)), 1, n)
Reported(i, r, f) ==
  LET cell == Cell(parts[Owner(i)[1]], Owner(i)[2], r)
      s    == SourceOf(cell.point, f)
      g    == <<cell.seed, TagOf(cell.point, f)>>
      n    == cell.consumed[f]
  IN  CASE s.kind = "empty"        -> <<>>
        [] s.kind = "trace"        -> s.data
        [] s.kind = "distribution" -> [k \in 1 .. n |-> Raw(g[1], g[2], k)]
        [] OTHER -> Again(s, g, n)

-----------------------------------------------------------------------------
Init ==
  /\ design \in Designs /\ seeding \in Seedings
  /\ phase = "idle" /\ calls = 0
  /\ request = [trials |-> <<>>, positions |-> <<>>, memory |-> 0, on_failure |-> "record"]
  /\ groups = <<>> /\ group = 1 /\ start = 0 /\ size = 1 /\ row_groups = <<>> /\ blocks = <<>>
  /\ chunks = <<>> /\ parts = <<>> /\ results = "none"
  /\ cache = [o \in DOMAIN PartsOf |-> <<>>]

User ==
  \E memory \in Memories, on_failure \in Failures :
    RunAll(memory, on_failure) \/ \E trials \in Selections : RunOnly(trials, memory, on_failure)
Progress == Plan \/ BindChunk \/ (\E t \in DOMAIN blocks : RunTrial(t)) \/ Extend \/ Collect

Next == User \/ Progress

Spec == Init /\ [][Next]_vars
=============================================================================

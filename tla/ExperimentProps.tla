--------------------------- MODULE ExperimentProps ---------------------------
(***************************************************************************)
(* What an Experiment promises: outcomes that depend on the design and the *)
(* seeds alone, whatever the memory, the chunks, the cache, the options and *)
(* the selection of trials; and rows that agree with one another.          *)
(***************************************************************************)
EXTENDS Experiment

Phases == {"idle", "plan", "bind", "native", "extend"}
Entries(c) == {c[i] : i \in DOMAIN c}

(* Every variable keeps its shape, and a chunk has a block of a known       *)
(* status for each of its positions and replications (_run_core).           *)
TypeOK ==
  /\ design \in Designs /\ seeding \in Seedings
  /\ phase \in Phases /\ calls \in 0 .. MaxCalls
  /\ results \in {"none", "refused", "raised", "done"}
  /\ phase # "idle" => group \in DOMAIN groups /\ start \in 0 .. Count - 1
  /\ phase \in {"native", "extend"} =>
       /\ DOMAIN blocks = (DOMAIN Group) \X (start + 1 .. MinOf(start + size, Count))
       /\ \A t \in DOMAIN blocks :
            /\ blocks[t].status \in {"new", "success", "failed", "exhausted"}
            /\ blocks[t].ran_out \in [field : Range(Fields) \cup {None}, clone : BOOLEAN,
                                      bucket : Int]
            /\ \A f \in DOMAIN blocks[t].rows : blocks[t].extended[f] \in 0 .. Doublings
  /\ \A o \in DOMAIN cache : \A e \in Entries(cache[o]) : Len(e.row) = e.key.length

-----------------------------------------------------------------------------
(* Outcomes *)

(* The row of a field had enough been generated up front: as long as its    *)
(* policy and its source ever let it become.                                *)
Longest(p, f) ==
  LET s    == SourceOf(p, f)
      fits == {d \in 0 .. Doublings :
                 d = 0 \/ (s.policy = "extend" /\ (s.max = NoMax \/ BaseLength(p, f) * 2^d <= s.max))}
  IN  BaseLength(p, f) * 2 ^ (CHOOSE d \in fits : \A e \in fits : e <= d)
LongestRow(p, f, seed) ==
  LET s == SourceOf(p, f)
  IN  IF Generated(s) THEN RowOf(RowKey(p, f, seed, Longest(p, f)))
      ELSE IF s.kind = "trace" THEN s.data ELSE <<>>
Ideal(p, seed) ==
  Outcome(Played(Fresh(p, seed, [f \in PartsOf[p.option] |-> LongestRow(p, f, seed)],
                       [f \in PartsOf[p.option] |-> 0])))

Agrees(outcome, ideal) ==
  [outcome EXCEPT !.extended = 0, !.consumed = 0] = [ideal EXCEPT !.extended = 0, !.consumed = 0]

(* The trial at a position: the point and the replication of the flattened  *)
(* index that was asked for, or of its place in the design.                 *)
IsTrial(i, r, p, replication) ==
  IF request.trials = <<>> THEN p = i /\ replication = r
  ELSE request.trials[i] = (p - 1) * Replications + replication - 1

(* A trial has the outcome of its point and its original seed alone, as if  *)
(* enough values had been generated up front: whatever the memory and the   *)
(* chunks, the rows that were cached or evicted, the other trials, and the  *)
(* option trees its group was merged from (Experiment.run, only, _merge).   *)
OutcomesIdeal ==
  results = "done" =>
    \A i \in DOMAIN request.positions, r \in 1 .. Count :
      \A p \in DOMAIN design, replication \in 1 .. Replications :
        IsTrial(i, r, p, replication) =>
          Agrees(Merged(parts)[i][r], Ideal(design[p], Seeds(seeding, p, replication)))

(* A trial is rerun on longer rows just as often as it has to: what it has  *)
(* consumed fits the row, and would not have fit half of it (the extension  *)
(* loop of _run_core).                                                      *)
LeastExtended ==
  results = "done" =>
    \A i \in DOMAIN request.positions, r \in 1 .. Count :
      LET o == Merged(parts)[i][r]
          length(f) == BaseLength(o.point, f) * 2 ^ o.extended[f]
      IN  ~o.failed /\ (\A k \in DOMAIN o.point.reads : ~o.point.reads[k].clone) =>
            \A f \in DOMAIN o.extended :
              SourceOf(o.point, f).policy = "extend" =>
                /\ o.consumed[f] <= length(f)
                /\ o.extended[f] > 0 => 2 * o.consumed[f] > length(f)

-----------------------------------------------------------------------------
(* Rows *)

(* The rows that a chunk was bound to, before extension.                    *)
BoundKeys ==
  UNION {{RowKey(blocks[t].point, f, blocks[t].seed, Len(blocks[t].rows[f])) :
            f \in {f \in DOMAIN blocks[t].rows : Generated(SourceOf(blocks[t].point, f))}} :
         t \in DOMAIN blocks}

(* The state is well-formed.  A cached row is the row of its source, tag,   *)
(* seed and length, no row is cached twice, and what one option keeps fits  *)
(* the memory for input rows (Snapshot.rows and trim_rows); so do the rows  *)
(* bound to a chunk, counting a shared row once (_run_single).              *)
CacheSound ==
  /\ TypeOK
  /\ \A o \in DOMAIN cache :
       /\ \A e \in Entries(cache[o]) : e.row = RowOf(e.key)
       /\ Cardinality(Cached(cache[o])) = Len(cache[o])
       /\ phase \in {"native", "extend"} /\ row_groups # <<>> /\ o = Home
          => Total(cache[o]) <= request.memory
  /\ phase = "native" => FoldFunction(LAMBDA x, y : x + y, 0, [k \in BoundKeys |-> k.length])
                         <= request.memory

(* A row of a prefix-stable source that is doubled begins with the row that *)
(* it replaces: extension never meets its own check of the prefix           *)
(* (_run_core: "source is not prefix-stable").                              *)
PrefixStable ==
  \A o \in DOMAIN cache : \A i, j \in DOMAIN cache[o] :
    LET d == cache[o][i]
        e == cache[o][j]
    IN  /\ d.key.length < e.key.length /\ d.key.source = e.key.source /\ d.key.seed = e.key.seed
        /\ d.key.tag = e.key.tag /\ Sources[d.key.source].stable
        => IsPrefix(d.row, e.row)

(* Members of a joint source stay aligned in a trial, however long each row *)
(* is: every index gives values that were observed together (joint_bootstrap*)
(* members share a tag).                                                    *)
JointAligned ==
  phase \in {"native", "extend"} =>
  \A t \in DOMAIN blocks :
    LET b == blocks[t]
        joint == {f \in DOMAIN b.rows : Generated(SourceOf(b.point, f)) /\ SourceOf(b.point, f).tag # None}
    IN  \A f, g \in joint :
          LET s == SourceOf(b.point, f)
              u == SourceOf(b.point, g)
          IN  s.tag = u.tag =>
              \A i \in DOMAIN b.rows[f] \cap DOMAIN b.rows[g] :
                \E j \in DOMAIN s.data : b.rows[f][i] = s.data[j] /\ b.rows[g][i] = u.data[j]

(* The rows of a source agree with each other in both ways.                 *)
RowsAgree == PrefixStable /\ JointAligned

(* The values that a static slot gave to a trial that ended well.           *)
ReadIn(o, f) ==
  LET own == Picked(o.seen, {i \in DOMAIN o.seen : o.seen[i][1].field = f /\ ~o.seen[i][1].clone})
  IN  [i \in DOMAIN own |-> own[i][2]]

(* What a report can give back.  A trace is reported as it is.  A row is    *)
(* generated anew as long as what was consumed, so all of it comes back     *)
(* unless it was read round past its end, or depends on its length.         *)
ReadRound(o, f) ==
  LET s == SourceOf(o.point, f)
  IN  Generated(s) /\ s.policy = "wrap" /\ o.consumed[f] > BaseLength(o.point, f)
FromLength(o, f) ==
  LET s == SourceOf(o.point, f)
  IN  Generated(s) /\ ~s.stable /\ o.consumed[f] # BaseLength(o.point, f)
Whole(o, f)  == SourceOf(o.point, f).kind # "trace" /\ ~ReadRound(o, f) /\ ~FromLength(o, f)
Longer(o, f) ==
  LET s == SourceOf(o.point, f)
  IN  ReadRound(o, f) /\ ~FromLength(o, f) /\ (s.max = NoMax \/ o.consumed[f] <= s.max)

(* InputRecord.rows gives the values that the trial consumed, from the chunk*)
(* and the group that ran it, whatever rows it read. This is less than what *)
(* docs/concepts/results.rst:51 says ("Regenerates the exact values the     *)
(* trial consumed"): a row that was read round past its end is generated    *)
(* anew as a longer row (snapshot.py:682-686), of which only the first turn *)
(* is what the trial read, or is refused if its source may not be so long.  *)
ReportsExact ==
  results = "done" =>
    \A i \in DOMAIN request.positions, r \in 1 .. Count :
      LET o == Merged(parts)[i][r]
      IN  ~o.failed => \A f \in DOMAIN o.consumed \ SeriesFields :
            /\ Whole(o, f)  => Reported(i, r, f) = ReadIn(o, f)
            /\ Longer(o, f) => LET turn == BaseLength(o.point, f)
                               IN  SubSeq(Reported(i, r, f), 1, turn)
                                     = SubSeq(ReadIn(o, f), 1, turn)

(* Only a series is read by bucket (modeling: Input.next and Series.at).    *)
OwnReads(p, f) == {k \in DOMAIN p.reads : p.reads[k].field = f /\ ~p.reads[k].clone}
InTurn(p) ==
  \A f \in PartsOf[p.option] \ SeriesFields : \A k \in OwnReads(p, f) : p.reads[k].bucket < 0
Reportable == \A d \in Designs : \A p \in DOMAIN d : InTurn(d[p])
=============================================================================

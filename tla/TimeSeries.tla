----------------------------- MODULE TimeSeries -----------------------------
(***************************************************************************)
(* Time series and their compaction rules.  A series is an object on a     *)
(* heap: a rule refers to the object of its destination and asks the       *)
(* Database only whether the name that object was created under is still   *)
(* in use.  Values are integers; labels, encodings and chunk sizes only    *)
(* show in TS.INFO and are left out.  A command that is refused, or that   *)
(* fails with a KeyError or IndexError before it changed anything, is no   *)
(* step.                                                                   *)
(***************************************************************************)
EXTENDS Integers, Sequences, FiniteSets, SequencesExt

CONSTANTS
    Sources, Destinations,  \* the key names; bound: no destination has rules of its own
    Objects,                \* bound: the places of the heap
    Times, Values,          \* bound: what clients send, sets of naturals
    MaxValue,               \* bound: INCRBY goes no further
    MaxRules,               \* bound: on the rules of a series
    Aggregators, Durations,
    Scopes                  \* bound: the commands, keys and arguments of a behaviour

TsKeys == Sources \cup Destinations
TimeSeriesAssumption ==
    /\ Sources \cap Destinations = {}
    /\ Times \subseteq Nat /\ Values \subseteq Int
    /\ Objects \subseteq Nat \ {0} /\ Durations \subseteq Nat \ {0}

VARIABLES
    scope,      \* one of Scopes; its default policy is "block" from version 8 on, "none" before
    store,      \* store[k]: the object at key k, or 0
    heap,       \* heap[o]: a series, or Free
    known,      \* TimeSeriesCommandsMixin._timeseries_keys, of the class
    forgotten   \* history: the names that left known while their series stayed
rVars == <<scope, store, heap, known, forgotten>>

-----------------------------------------------------------------------------
Stamps(o) == {o.list[i][1] : i \in DOMAIN o.list}
Latest(a, b) == IF a > b THEN a ELSE b
SmallestOf(S) == CHOOSE x \in S : \A y \in S : x <= y
LargestOf(S) == CHOOSE x \in S : \A y \in S : x >= y

(* flaws is history: "cut" once samples were deleted, "failed" once a rule *)
(* raised in the middle of an add, "meddled" once a client wrote to it.    *)
Series(name, policy, retention) ==
    [name |-> name, policy |-> policy, retention |-> retention, list |-> <<>>, idx |-> <<>>,
     top |-> 0, rules |-> <<>>, flaws |-> {}]
Free == Series("", "none", 0)

(* fed and calm are history: the samples the rule was given, and whether   *)
(* they came in the order of time and none of its buckets was refused.     *)
Rule(dest, agg, dur, align) ==
    [dest |-> dest, agg |-> agg, dur |-> dur, align |-> align,
     start |-> 0, bucket |-> <<>>, fed |-> <<>>, calm |-> TRUE]

Aggregate(bucket, agg) ==
    LET vals == {bucket[i][2] : i \in DOMAIN bucket}
    IN  CASE agg = "sum" -> FoldLeft(LAMBDA a, s : a + s[2], 0, bucket)
          [] agg = "count" -> Len(bucket)
          [] agg = "first" -> bucket[1][2]
          [] agg = "last" -> bucket[Len(bucket)][2]
          [] agg = "min" -> SmallestOf(vals)
          [] agg = "max" -> LargestOf(vals)
          [] agg = "range" -> LargestOf(vals) - SmallestOf(vals)

-----------------------------------------------------------------------------
(* TimeSeries.add without its rules: what on_duplicate or the policy of    *)
(* the series make of a timestamp that is there.  A word in capitals       *)
(* passes the check of TS.ADD and matches no case of add.                  *)
Resolved(policy, old, new) ==
    CASE policy = "max" -> Latest(old, new)
      [] policy = "min" -> SmallestOf({old, new})
      [] OTHER -> new
Put(o, ts, v, on) ==
    LET policy == IF on = "none" THEN o.policy ELSE on
        refused == [series |-> o, ok |-> FALSE, fresh |-> FALSE]
    IN  IF o.retention # 0 /\ o.top - ts > o.retention THEN refused
        ELSE IF ts \notin DOMAIN o.idx
        THEN [series |-> [o EXCEPT !.list = Append(@, <<ts, v>>),
                                   !.idx = [t \in DOMAIN @ \cup {ts} |-> IF t = ts THEN Len(o.list) + 1 ELSE @[t]]],
              ok |-> TRUE, fresh |-> TRUE]
        ELSE IF policy = "first" THEN [refused EXCEPT !.ok = TRUE]
        ELSE LET i == o.idx[ts]
             IN  IF policy = "block" \/ i > Len(o.list) THEN refused
                 ELSE [series |-> [o EXCEPT !.list[i] = <<ts, Resolved(policy, o.list[i][2], v)>>],
                       ok |-> TRUE, fresh |-> FALSE]
Topped(o, ts) == [o EXCEPT !.top = Latest(@, ts)]
(* add on a series without rules.                                          *)
Plain(o, ts, v, on) ==
    LET put == Put(o, ts, v, on)
    IN  IF put.fresh THEN [put EXCEPT !.series = Topped(@, ts)] ELSE put

(* TimeSeriesRule.add_record up to what it hands to the destination: the   *)
(* bucket that closes, and the rule afterwards.                            *)
BucketStart(r, ts) == ts - (ts % r.dur) + r.align
(* Mutant of AddRecord. *)
AddRecordTwice(r, sample) ==
    LET start == BucketStart(r, sample[1])
        same == r.start = start
        grown == IF same THEN Append(r.bucket, sample) ELSE r.bucket
    IN  IF same /\ sample[1] # r.start + r.dur - 1
        THEN [closed |-> <<>>, rule |-> [r EXCEPT !.bucket = grown]]
        ELSE [closed |-> grown, rule |-> [r EXCEPT !.start = IF same THEN @ + r.dur ELSE start,
                                                   !.bucket = <<sample>>]]
AddRecord(r, sample) ==
    LET start == BucketStart(r, sample[1])
        same == r.start = start
        grown == IF same THEN Append(r.bucket, sample) ELSE r.bucket
    IN  IF same /\ sample[1] # r.start + r.dur - 1
        THEN [closed |-> <<>>, rule |-> [r EXCEPT !.bucket = grown]]
        ELSE [closed |-> grown, rule |-> [r EXCEPT !.start = IF same THEN @ + r.dur ELSE start,
                                                   !.bucket = IF same THEN <<>> ELSE <<sample>>]]

(* The i-th rule of the source gets the sample.  When the destination      *)
(* refuses the closed bucket, the bucket is gone, the rule has not moved   *)
(* on, and neither the sample nor the rules after it are served.           *)
Feed(acc, id, i, sample) ==
    LET r == acc.heap[id].rules[i]
        step == AddRecord(r, sample)
        put == Plain(acc.heap[r.dest], r.start, Aggregate(step.closed, r.agg), "none")
        late == \E j \in DOMAIN r.fed : r.fed[j][1] >= sample[1]
        Told(rule, calm) == [rule EXCEPT !.fed = Append(@, sample), !.calm = r.calm /\ calm]
    IN  IF ~acc.ok THEN acc
        ELSE IF step.closed = <<>>
        THEN [acc EXCEPT !.heap[id].rules[i] = Told(step.rule, ~late)]
        ELSE IF ~put.ok
        THEN [ok |-> FALSE, heap |-> [acc.heap EXCEPT ![id].rules[i] = Told([r EXCEPT !.bucket = <<>>], FALSE)]]
        ELSE [acc EXCEPT !.heap = [@ EXCEPT ![id].rules[i] = Told(step.rule, ~late), ![r.dest] = put.series]]

(* TimeSeries.add: a rule whose destination's name is gone is dropped.     *)
AddTo(h, id, ts, v, on) ==
    LET put == Put(h[id], ts, v, on)
        bound == SelectSeq(h[id].rules, LAMBDA r : h[r.dest].name \in {k \in TsKeys : store[k] # 0})
        kept == [h EXCEPT ![id] = [put.series EXCEPT !.rules = bound]]
        fed == FoldLeft(LAMBDA acc, i : Feed(acc, id, i, <<ts, v>>), [ok |-> TRUE, heap |-> kept],
                        [i \in DOMAIN bound |-> i])
    IN  IF ~put.fresh THEN [ok |-> put.ok, heap |-> [h EXCEPT ![id] = put.series]]
        ELSE IF fed.ok THEN [fed EXCEPT !.heap[id] = Topped(@, ts)]
        ELSE [fed EXCEPT !.heap[id].flaws = @ \cup {"failed"}]

(* TimeSeries.incrby: to the sample at max_timestamp, or a new one after it.*)
IncrTo(h, id, ts, addend) ==
    LET o == h[id]
        i == o.idx[o.top]
        refused == [ok |-> FALSE, heap |-> h]
    IN  IF o.list = <<>> THEN AddTo(h, id, ts, addend, "none")
        ELSE IF ts < o.top \/ o.top \notin DOMAIN o.idx THEN refused
        ELSE IF i > Len(o.list) THEN refused
        ELSE IF ts = o.top THEN [ok |-> TRUE, heap |-> [h EXCEPT ![id].list[i] = <<ts, @[2] + addend>>]]
        ELSE AddTo(h, id, ts, o.list[i][2] + addend, "none")

(* TimeSeries.delete: the positions of the samples that stay are not renumbered. *)
Deleted(o, from, to) ==
    LET gone == {t \in Stamps(o) : from <= t /\ t <= to}
    IN  [o EXCEPT !.list = SelectSeq(@, LAMBDA s : s[1] \notin gone),
                  !.idx = [t \in {t \in DOMAIN @ : ~(from <= t /\ t <= to)} |-> @[t]],
                  !.flaws = IF gone = {} THEN @ ELSE @ \cup {"cut"}]

-----------------------------------------------------------------------------
(* The commands.  An object no key and no rule leads to is free again.     *)
Reached(st, h) ==
    LET roots == {st[k] : k \in TsKeys} \ {0}
    IN  roots \cup UNION {{h[o].rules[i].dest : i \in DOMAIN h[o].rules} : o \in roots}
Become(st, h) ==
    LET live == Reached(st, h)
    IN  /\ store' = st
        /\ scope' = scope
        /\ heap' = [o \in Objects |-> IF o \in live THEN h[o] ELSE Free]
Room == {o \in Objects : heap[o] = Free}
Named(k) == store[k] # 0

(* _create_timeseries, which also notes the name.                          *)
Noted(k) == known' = known \cup {k} /\ forgotten' = forgotten \ {k}
Created(k, policy, retention) ==
    LET o == SmallestOf(Room)
    IN  [id |-> o, store |-> [store EXCEPT ![k] = o], heap |-> [heap EXCEPT ![o] = Series(k, policy, retention)]]

Create(k, policy, retention) ==
    /\ ~Named(k) /\ Room # {}
    /\ LET new == Created(k, policy, retention) IN Become(new.store, new.heap)
    /\ Noted(k)

Meddled(h, k) == IF k \in Destinations /\ Named(k)
                 THEN [h EXCEPT ![store[k]].flaws = @ \cup {"meddled"}] ELSE h

(* TS.ADD and TS.INCRBY or DECRBY create the series first.                 *)
OnSeries(k, policy, Effect(_, _)) ==
    IF Named(k)
    THEN /\ Len(heap[store[k]].list) < scope.samples
         /\ LET res == Effect(heap, store[k])
            IN  res.heap # heap /\ Become(store, Meddled(res.heap, k))
         /\ UNCHANGED <<known, forgotten>>
    ELSE /\ Room # {}
         /\ LET new == Created(k, policy, 0)
                res == Effect(new.heap, new.id)
            IN  Become(new.store, [res.heap EXCEPT ![new.id].flaws = IF k \in Sources THEN @ ELSE {"meddled"}])
         /\ Noted(k)

TsAdd(k, ts, v, on, policy) == OnSeries(k, policy, LAMBDA h, id : AddTo(h, id, ts, v, on))

(* Without TIMESTAMP the last sample stored is meant, or the clock.        *)
IncrBy(k, ts, addend, policy) ==
    /\ Named(k) =>
        LET o == heap[store[k]]
        IN  o.list # <<>> =>
            /\ ts >= o.list[Len(o.list)][1]
            /\ \A i \in DOMAIN o.list : o.list[i][2] + addend <= MaxValue
    /\ OnSeries(k, policy, LAMBDA h, id : IncrTo(h, id, ts, addend))

(* TS.MADD: a series that refuses ends the command; what was added stays.  *)
MAdd(j, k, ts, v) ==
    /\ Named(j) /\ Named(k)
    /\ Len(heap[store[j]].list) + 1 < scope.samples /\ Len(heap[store[k]].list) + 1 < scope.samples
    /\ LET one == AddTo(heap, store[j], ts, v, "none")
           two == IF one.ok THEN AddTo(one.heap, store[k], ts, v, "none") ELSE one
       IN  two.heap # heap /\ Become(store, Meddled(Meddled(two.heap, j), k))
    /\ UNCHANGED <<known, forgotten>>

TsDel(k, from, to) ==
    /\ Named(k) /\ from <= to
    /\ LET o == Deleted(heap[store[k]], from, to)
       IN  o # heap[store[k]] /\ Become(store, Meddled([heap EXCEPT ![store[k]] = o], k))
    /\ UNCHANGED <<known, forgotten>>

(* TS.ALTER keeps what is not given, and 0 is not given.                   *)
Alter(k, policy, retention) ==
    /\ Named(k)
    /\ LET o == heap[store[k]]
       IN  Become(store, [heap EXCEPT ![store[k]] =
                [o EXCEPT !.policy = IF policy = "none" THEN @ ELSE policy,
                          !.retention = IF retention = 0 THEN @ ELSE retention]])
    /\ UNCHANGED <<known, forgotten>>

(* The destination is looked up by the name its object has: after a RENAME *)
(* a second rule for it passes.                                            *)
HasRule(o, name) == \E i \in DOMAIN o.rules : heap[o.rules[i].dest].name = name
CreateRule(s, d, agg, dur, align) ==
    /\ Named(s) /\ Named(d)
    /\ ~HasRule(heap[store[s]], d)
    /\ Len(heap[store[s]].rules) < MaxRules
    /\ LET new == [Rule(store[d], agg, dur, align) EXCEPT !.calm = heap[store[d]].list = <<>>]
           shared == \E i \in DOMAIN heap[store[s]].rules : heap[store[s]].rules[i].dest = store[d]
           flaws == IF shared THEN {"meddled"} ELSE {}
       IN  Become(store, [heap EXCEPT ![store[s]].rules = Append(@, new), ![store[d]].flaws = @ \cup flaws])
    /\ UNCHANGED <<known, forgotten>>

DeleteRule(s, d) ==
    /\ Named(s)
    /\ HasRule(heap[store[s]], d)
    /\ LET o == heap[store[s]]
           i == SmallestOf({j \in DOMAIN o.rules : heap[o.rules[j].dest].name = d})
       IN  Become(store, [heap EXCEPT ![store[s]].rules = RemoveAt(@, i)])
    /\ UNCHANGED <<known, forgotten>>

(* DEL, and RENAME, which leaves the name the object has.                  *)
Drop(k) ==
    /\ Named(k)
    /\ Become([store EXCEPT ![k] = 0], heap)
    /\ forgotten' = forgotten \ {k}
    /\ UNCHANGED known
Rename(k, n) ==
    /\ Named(k) /\ k # n
    /\ Become([store EXCEPT ![k] = 0, ![n] = store[k]], heap)
    /\ forgotten' = (forgotten \ {k}) \cup ({n} \ known)
    /\ UNCHANGED known

(* TS.QUERYINDEX, TS.MGET and TS.MRANGE forget the names that are not in   *)
(* the Database they run on, for every Database of every server.           *)
QueryIndex(names) ==
    /\ known' = known \cap names
    /\ forgotten' = {k \in TsKeys : Named(k)} \ known'
    /\ UNCHANGED <<scope, store, heap>>

RInit ==
    /\ scope \in Scopes
    /\ store = [k \in TsKeys |-> 0]
    /\ heap = [o \in Objects |-> Free]
    /\ known = {} /\ forgotten = {}

Uses(op) == op \in scope.ops
AddStep ==
    \E ts \in scope.times, v \in scope.values :
        \/ \E k \in scope.fed, on \in scope.on : Uses("ADD") /\ TsAdd(k, ts, v, on, scope.default)
        \/ \E k \in scope.fed : Uses("INCRBY") /\ IncrBy(k, ts, v, scope.default)
        \/ \E j, k \in scope.fed : Uses("MADD") /\ MAdd(j, k, ts, v)
SeriesStep ==
    \E k \in scope.keys :
        \/ \E policy \in scope.policies, retention \in scope.retentions :
                \/ Uses("CREATE") /\ Create(k, policy, retention)
                \/ Uses("ALTER") /\ Alter(k, policy, retention)
        \/ \E from, to \in scope.times : Uses("TS.DEL") /\ TsDel(k, from, to)
KeyStep ==
    /\ Uses("KEYS")
    /\ \/ \E k \in scope.keys : Drop(k)
       \/ \E k, n \in scope.keys : (k \in Sources <=> n \in Sources) /\ Rename(k, n)
       \/ QueryIndex({k \in TsKeys : Named(k)})
       \/ QueryIndex({})
RuleStep ==
    /\ Uses("RULE")
    /\ \E s \in Sources \cap scope.keys, d \in Destinations \cap scope.keys :
        \/ \E agg \in scope.aggs, dur \in Durations, align \in scope.aligns : CreateRule(s, d, agg, dur, align)
        \/ DeleteRule(s, d)

RNext == AddStep \/ SeriesStep \/ KeyStep \/ RuleStep
RSpec == RInit /\ [][RNext]_rVars

-----------------------------------------------------------------------------
(* TS.RANGE: bounds on the value, where 0 is no bound; then the order.     *)
Within(list, from, to, low, high) ==
    SelectSeq(list, LAMBDA s : /\ from <= s[1] /\ s[1] <= to
                               /\ low # 0 => low <= s[2]
                               /\ high # 0 => s[2] <= high)

(* TS.RANGE ... AGGREGATION: a rule of its own over the samples, with a    *)
(* series that blocks duplicates as the destination.  ALIGN is ignored.    *)
Hole == -100                    \* NaN, what EMPTY fills a bucket with
Stamped(start, dur, stamp) ==
    CASE stamp = "+" -> start + dur
      [] stamp = "~" -> start + dur \div 2
      [] OTHER -> start
Close(out, bucket, r, stamp) ==
    IF bucket = <<>> THEN out
    ELSE Plain(out, Stamped(r.start, r.dur, stamp), Aggregate(bucket, r.agg), "none").series
ByTime(rows) == SortSeq(rows, LAMBDA a, b : a[1] < b[1])
AggregateRange(list, agg, dur, stamp, empty) ==
    LET begin == [rule |-> Rule(0, agg, dur, 0), out |-> Series("", "block", 0)]
        Step(acc, s) == LET step == AddRecord(acc.rule, s)
                        IN  [rule |-> step.rule, out |-> Close(acc.out, step.closed, acc.rule, stamp)]
        end == FoldLeft(Step, begin, list)
        rows == Close(end.out, end.rule.bucket, end.rule, stamp).list
        holes == {t \in rows[1][1]..end.rule.start - 1 :
                    (t - rows[1][1]) % dur = 0 /\ \A i \in DOMAIN rows : rows[i][1] # t}
    IN  IF ~empty THEN rows
        ELSE ByTime(rows \o SetToSeq({<<t, Hole>> : t \in holes}))

-----------------------------------------------------------------------------
(* What has to hold.                                                       *)
InOrder(list) == \A i \in 2..Len(list) : list[i - 1][1] < list[i][1]
BucketOf(samples, r, b) == SelectSeq(samples, LAMBDA s : BucketStart(r, s[1]) = b)

TypeOK ==
    /\ store \in [TsKeys -> Objects \cup {0}]
    /\ \A o \in Objects : /\ DOMAIN heap[o].idx \subseteq 0..(LargestOf(Times) + LargestOf(Durations))
                          /\ Len(heap[o].rules) <= MaxRules
    /\ known \subseteq TsKeys

(* Every timestamp is stored once, ts_ind_map has its position, and        *)
(* max_timestamp is the latest of them, as TS.GET and TS.INCRBY assume,    *)
(* unless samples of the series were deleted; the last part also only      *)
(* unless one of its rules has failed.                                     *)
IndexFindsSamples ==
    \A o \in Objects :
        LET s == heap[o]
        IN  "cut" \notin s.flaws =>
            /\ DOMAIN s.idx = Stamps(s)
            /\ Cardinality(Stamps(s)) = Len(s.list)
            /\ \A t \in DOMAIN s.idx : s.list[s.idx[t]][1] = t
            /\ "failed" \notin s.flaws => s.top = LargestOf(Stamps(s) \cup {0})

(* TS.QUERYINDEX, TS.MGET and TS.MRANGE consider every series, unless it   *)
(* was renamed or a query on another Database forgot its name.             *)
SeriesAreListed == {k \in TsKeys : Named(k)} \ known = forgotten

(* Compaction: while samples arrive in the order of time, the destination  *)
(* of a rule that no client wrote to has exactly one sample per bucket     *)
(* that is over, the aggregate of all that the rule was given in it, and   *)
(* the rule holds what it was given in the present bucket.                 *)
CompactionIsFaithful ==
    \A o \in Objects : \A i \in DOMAIN heap[o].rules :
        LET r == heap[o].rules[i]
            d == heap[r.dest]
            over == {BucketStart(r, r.fed[j][1]) : j \in DOMAIN r.fed} \ {r.start}
        IN  r.calm /\ d.flaws = {} =>
            /\ Len(d.list) = Cardinality(over)
            /\ {d.list[j] : j \in DOMAIN d.list} = {<<b, Aggregate(BucketOf(r.fed, r, b), r.agg)>> : b \in over}
            /\ r.bucket = BucketOf(r.fed, r, r.start)

(* A query by buckets over samples in the order of time gives the buckets  *)
(* that have samples, in order and aggregated; with EMPTY, those between   *)
(* as well.                                                                *)
QueriesAgree ==
    \A k \in TsKeys : Named(k) /\ InOrder(heap[store[k]].list) =>
        \A agg \in Aggregators, dur \in Durations, from \in Times, low \in Values \cup {0} :
            LET list == Within(heap[store[k]].list, from, LargestOf(Times), low, 0)
                r == Rule(0, agg, dur, 0)
                starts == {BucketStart(r, list[i][1]) : i \in DOMAIN list}
                Row(b, stamp) == <<Stamped(b, dur, stamp),
                                   IF b \in starts THEN Aggregate(BucketOf(list, r, b), agg) ELSE Hole>>
                Wanted(S, stamp) == [i \in 1..Cardinality(S) |->
                    Row(CHOOSE b \in S : Cardinality({c \in S : c < b}) = i - 1, stamp)]
                between == {b \in SmallestOf(starts)..LargestOf(starts) : (b - SmallestOf(starts)) % dur = 0}
            IN  list # <<>> =>
                /\ \A stamp \in {"-", "+", "~"} :
                        AggregateRange(list, agg, dur, stamp, FALSE) = Wanted(starts, stamp)
                /\ AggregateRange(list, agg, dur, "-", TRUE) = Wanted(between, "-")
=============================================================================

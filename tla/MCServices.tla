----------------------------- MODULE MCServices -----------------------------
(***************************************************************************)
(* Small instances of AsyncReader, Connecting, Replies, Scripting, Scan,   *)
(* AccessControl, Hashes, Bitmaps and TimeSeries in one state machine.     *)
(* They share no state: a behaviour is about one of them, part, and the    *)
(* others stay as they begin.  BITFIELD, BITCOUNT and BITPOS are asked     *)
(* about every small value instead, one in each behaviour.                 *)
(***************************************************************************)
EXTENDS AsyncReader, Connecting, Scripting, Replies, Hashes, AccessControl, Scan

CONSTANTS
    Shown,                              \* the modules of a run
    BKeys, ByteSize, MaxBytes, Sizes, Word,
    Sources, Destinations, Objects, Times, Values, MaxValue, MaxRules, Aggregators, Durations, Scopes

VARIABLES
    part,
    sample,         \* a value to read from, when part = "reads"
    bits,
    scope, store, heap, known, forgotten

B == INSTANCE Bitmaps
R == INSTANCE TimeSeries
ASSUME ShownAssumption ==
    ScanAssumption /\ AccessAssumption /\ HashesAssumption /\ B!BitmapsAssumption /\ R!TimeSeriesAssumption
    /\ ConnectingAssumption /\ RepliesAssumption /\ ScriptingAssumption

seriesVars == <<scope, store, heap, known, forgotten>>
dataVars == <<hVars, bits, seriesVars>>
wireVars == <<dVars, nVars, pVars>>

-----------------------------------------------------------------------------
(* AccessControl: three commands, and what clients do in a behaviour.      *)
CommandTable ==
    [c \in {"get", "set", "publish"} |->
        [cats |-> CASE c = "get" -> {"@read", "@string"} [] c = "set" -> {"@string"} [] OTHER -> {},
         keyed |-> c # "publish", pubsub |-> c = "publish"]]
Rules == [names |-> {"u"}, ops |-> {"SETUSER", "SAVE"},
          words |-> {"+", "-"} \X {"get", "@read", "@string", "@all"}]
Logins == [names |-> {"default", "u"}, ops |-> {"SETUSER", "AUTH", "COMMAND", "DELUSER"},
           words |-> {<<">", "p">>, <<"+", "publish">>, <<"&", "a">>}]
Switches == [Logins EXCEPT !.ops = @ \ {"DELUSER"}, !.words = @ \cup {<<"off", "">>}]
Files == [names |-> {"u", "v"}, ops |-> {"SETUSER", "SAVE"},
          words |-> {<<"&", "a">>, <<"(", "get">>, <<">", "p">>}]
FilesOfDefault == [names |-> {"default", "u"}, ops |-> {"SETUSER", "DELUSER", "SAVE"},
                   words |-> {<<"reset", "">>, <<"&", "a">>, <<"(", "get">>}]
Words == [names |-> {"u"}, ops |-> {"SETUSER", "SAVE"},
          words |-> {"off", "on", "nopass", "reset", "resetkeys", "resetchannels"} \X {""} \cup
                    {">", "<"} \X {"p"} \cup {<<"~", "a">>, <<"&", "a">>, <<"&", "*">>}]
AllAclScopes == {Rules, Logins, Switches, Files, FilesOfDefault, Words}

(* Scripts that write, that wait, that set a global, that fail halfway.    *)
SomeScripts == {<<"write", "write">>, <<"write", "wait", "write">>, <<"global", "write">>,
                <<"write", "noscript">>}

AllPatterns == {Elements, {1, 2}}

(* TimeSeries: what clients do in a behaviour.                             *)
Scope(ops, keys, fed, times, values, samples) ==
    [ops |-> ops, keys |-> keys, fed |-> fed, times |-> times, values |-> values, samples |-> samples,
     default |-> "block", on |-> {"none"}, policies |-> {"block"}, retentions |-> {0}, aligns |-> {0},
     aggs |-> {"sum"}]
Compaction == Scope({"ADD", "CREATE", "RULE"}, {"s", "d"}, {"s"}, {1, 2, 3, 4}, {1, 2}, 3)
Index == [Scope({"ADD", "MADD", "CREATE", "INCRBY", "TS.DEL"}, {"s"}, {"s"}, {1, 2, 3}, {1, 2}, 3)
            EXCEPT !.on = {"none", "first", "max", "min", "LAST"}, !.policies = {"none", "block"},
                   !.retentions = {0, 1}]
Names == [Scope({"ADD", "RULE", "KEYS"}, {"s", "d", "e"}, {"s", "d"}, {1, 2}, {1}, 1)
            EXCEPT !.default = "none", !.aligns = {0, 1}]
AllScopes == {Compaction, Index, Names}

MCInit ==
    /\ part \in Shown
    /\ DInit /\ CInit /\ AInit /\ HInit /\ B!BInit /\ R!RInit
    /\ NInit /\ PInit /\ EInit
    /\ IF part = "reads" THEN sample \in B!BitStrings ELSE sample = <<>>
    /\ part # "access" => aclScope = Rules
    /\ part # "time series" => scope = Index
MCNext ==
    /\ UNCHANGED <<part, sample>>
    /\ \/ part = "reader" /\ DNext /\ UNCHANGED <<nVars, pVars, eVars, cVars, aVars, dataVars>>
       \/ part = "connecting" /\ NNext /\ UNCHANGED <<dVars, pVars, eVars, cVars, aVars, dataVars>>
       \/ part = "replies" /\ PNext /\ UNCHANGED <<dVars, nVars, eVars, cVars, aVars, dataVars>>
       \/ part = "scripts" /\ ENext /\ UNCHANGED <<wireVars, cVars, aVars, dataVars>>
       \/ part = "scan" /\ CNext /\ UNCHANGED <<wireVars, eVars, aVars, dataVars>>
       \/ part = "access" /\ ANext /\ UNCHANGED <<wireVars, eVars, cVars, dataVars>>
       \/ part = "hashes" /\ HNext /\ UNCHANGED <<wireVars, eVars, cVars, aVars, bits, seriesVars>>
       \/ part = "bitmaps" /\ B!BNext /\ UNCHANGED <<wireVars, eVars, cVars, aVars, hVars, seriesVars>>
       \/ part = "time series" /\ R!RNext /\ UNCHANGED <<wireVars, eVars, cVars, aVars, hVars, bits>>
mcVars == <<part, sample, wireVars, eVars, cVars, aVars, dataVars>>
(* Only the reader has fairness.                                           *)
MCSpec == MCInit /\ [][MCNext]_mcVars /\ DFairness

-----------------------------------------------------------------------------
(* Bitmaps: BITFIELD GET reads what SET wrote, wrapped or saturated, and   *)
(* BITCOUNT and BITPOS agree with GETBIT.                                  *)
BitmapsReadBack ==
    /\ part = "bitmaps" => \A k \in BKeys : bits[k] \in B!BitStrings
    /\ part = "reads" => B!FieldsReadBack(sample) /\ B!CountsAgree(sample)

(* Time series: a sample is found by its timestamp and a series by a query;*)
(* a compacted series, and a query that aggregates, have one sample for    *)
(* each bucket, of all the samples in it.                                  *)
SeriesAgree ==
    part = "time series" => /\ R!TypeOK /\ R!IndexFindsSamples /\ R!SeriesAreListed
                            /\ R!CompactionIsFaithful /\ R!QueriesAgree
=============================================================================

------------------------------ MODULE Keyspace ------------------------------
(***************************************************************************)
(* The databases of one FakeServer and what the key commands do to them.   *)
(*                                                                         *)
(* A Database is a dict from key to Item (value, expireat).  All databases *)
(* of a server are kept here as one function over slots <<key, db>>.  A    *)
(* command is applied in two steps in the code: the handler edits          *)
(* CommandItems, then _run_command writes every modified one back, and     *)
(* each write-back first calls Database.notify_watch.  An Effect therefore *)
(* has two parts: the dictionary after the command and the slots whose     *)
(* watchers the write-back (or Database.clear) has notified.               *)
(***************************************************************************)
EXTENDS Integers

CONSTANTS
    Keys,       \* key names
    Dbs,        \* database numbers
    Vals,       \* string values
    Absent,     \* what a slot holds when the dict has no entry for the key
    Ttls        \* times to live a command may ask for

Never == -1     \* expireat is None

Slots == Keys \X Dbs
Items == [value : Vals, expireat : Nat \cup {Never}]
Entries == Items \cup {Absent}

ASSUME AbsentAssumption == Absent \notin Items
ASSUME TtlAssumption == Ttls \subseteq Nat

-----------------------------------------------------------------------------
(* Lazy expiry.  Every read of a Database goes through __getitem__, which  *)
(* drops an expired entry and answers as if there were none; an entry      *)
(* nobody reads stays in the dict.  Seen(e, t) is what a read at Database  *)
(* time t finds, so whether the stale entry is still stored is invisible.  *)

Expired(e, t) == e # Absent /\ e.expireat # Never /\ e.expireat < t

Seen(e, t) == IF Expired(e, t) THEN Absent ELSE e

Live(m, s, t) == Seen(m[s], t) # Absent

-----------------------------------------------------------------------------
(* The commands, by the arguments that matter to the dictionary.           *)

SetCommands ==
    [op : {"set"}, key : Keys, val : Vals, cond : {"always", "nx", "xx"},
     keepttl : BOOLEAN, ttl : Ttls \cup {Never}]
AppendCommands == [op : {"append"}, key : Keys, val : Vals]
MSetCommands   == [op : {"mset", "msetnx"}, keys : SUBSET Keys, val : Vals]
DelCommands    == [op : {"del"}, keys : SUBSET Keys]
ExpireCommands ==
    [op : {"expire"}, key : Keys, ttl : Ttls, cond : {"always", "nx", "xx", "gt", "lt"}]
PersistCommands == [op : {"persist"}, key : Keys]
RenameCommands  == [op : {"rename", "renamenx"}, key : Keys, newkey : Keys]
MoveCommands    == [op : {"move"}, key : Keys, db : Dbs]
CopyCommands    ==
    [op : {"copy"}, key : Keys, newkey : Keys, db : Dbs, replace : BOOLEAN]
FlushCommands   == [op : {"flushdb", "flushall"}]
SwapCommands    == [op : {"swapdb"}, db1 : Dbs, db2 : Dbs]

KeyCommands ==
    UNION {SetCommands, AppendCommands, MSetCommands, DelCommands, ExpireCommands,
           PersistCommands, RenameCommands, MoveCommands, CopyCommands,
           FlushCommands, SwapCommands}

-----------------------------------------------------------------------------
(* Effects.  m is the dictionary, d the database the client has selected,  *)
(* t the time every Database was given when the command started.           *)

Unchanged(m) == [dict |-> m, touched |-> {}]

(* Mutant: the write-back stores the entry and notifies nobody.            *)
WriteBackSilently(m, s, e) == [dict |-> [m EXCEPT ![s] = e], touched |-> {}]

(* CommandItem.writeback of one modified item: notify the watchers, then   *)
(* store the entry, or pop the key when the value is None.                 *)
WriteBack(m, s, e) == [dict |-> [m EXCEPT ![s] = e], touched |-> {s}]

TtlOf(m, s, t) == IF Live(m, s, t) THEN m[s].expireat ELSE Never

SetEffect(m, d, t, c) ==
    LET s == <<c.key, d>>
        kept == IF c.keepttl THEN TtlOf(m, s, t) ELSE Never
        deadline == IF c.ttl = Never THEN kept ELSE t + c.ttl
        refused == \/ c.ttl = 0                              \* invalid expire time
                   \/ c.keepttl /\ c.ttl # Never             \* syntax error
                   \/ c.cond = "nx" /\ Live(m, s, t)
                   \/ c.cond = "xx" /\ ~Live(m, s, t)
    IN IF refused THEN Unchanged(m)
       ELSE WriteBack(m, s, [value |-> c.val, expireat |-> deadline])

(* key.update(): the new value keeps the time to live.                     *)
AppendEffect(m, d, t, c) ==
    LET s == <<c.key, d>>
    IN WriteBack(m, s, [value |-> c.val, expireat |-> TtlOf(m, s, t)])

MSetEffect(m, d, t, c) ==
    LET targets == c.keys \X {d}
    IN IF c.op = "msetnx" /\ \E s \in targets : Live(m, s, t)
       THEN Unchanged(m)
       ELSE [dict |-> [s \in Slots |-> IF s \in targets
                                       THEN [value |-> c.val, expireat |-> Never]
                                       ELSE m[s]],
             touched |-> targets]

DelEffect(m, d, t, c) ==
    LET gone == {s \in c.keys \X {d} : Live(m, s, t)}
    IN [dict |-> [s \in Slots |-> IF s \in gone THEN Absent ELSE m[s]],
        touched |-> gone]

ExpireEffect(m, d, t, c) ==
    LET s == <<c.key, d>>
        at == t + c.ttl
        old == m[s].expireat
        allowed == \/ c.cond = "always"
                   \/ c.cond = "nx" /\ old = Never
                   \/ c.cond = "xx" /\ old # Never
                   \/ c.cond = "gt" /\ old # Never /\ at > old
                   \/ c.cond = "lt" /\ (old = Never \/ at < old)
    IN IF Live(m, s, t) /\ allowed
       THEN WriteBack(m, s, [value |-> m[s].value, expireat |-> at])
       ELSE Unchanged(m)

PersistEffect(m, d, t, c) ==
    LET s == <<c.key, d>>
    IN IF Live(m, s, t) /\ m[s].expireat # Never
       THEN WriteBack(m, s, [value |-> m[s].value, expireat |-> Never])
       ELSE Unchanged(m)

RenameEffect(m, d, t, c) ==
    LET src == <<c.key, d>>
        dst == <<c.newkey, d>>
        refused == \/ ~Live(m, src, t)
                   \/ c.op = "renamenx" /\ Live(m, dst, t)
    IN IF refused \/ src = dst THEN Unchanged(m)
       ELSE [dict |-> [m EXCEPT ![dst] = m[src], ![src] = Absent],
             touched |-> {src, dst}]

(* MOVE stores the Item in the other Database directly: only the source    *)
(* key is written back, so only its watchers hear of it.                   *)
MoveEffect(m, d, t, c) ==
    LET src == <<c.key, d>>
        dst == <<c.key, c.db>>
    IN IF c.db = d \/ ~Live(m, src, t) \/ Live(m, dst, t) THEN Unchanged(m)
       ELSE [dict |-> [m EXCEPT ![dst] = m[src], ![src] = Absent],
             touched |-> {src}]

CopyEffect(m, d, t, c) ==
    LET src == <<c.key, d>>
        dst == <<c.newkey, c.db>>
    IN IF \/ src = dst
          \/ Live(m, dst, t) /\ ~c.replace
          \/ ~Live(m, src, t)
       THEN Unchanged(m)
       ELSE WriteBack(m, dst, m[src])

(* Database.clear notifies every live key, then empties the dict.          *)
FlushEffect(m, d, t, c) ==
    LET cleared == IF c.op = "flushall" THEN Slots ELSE Keys \X {d}
    IN [dict |-> [s \in Slots |-> IF s \in cleared THEN Absent ELSE m[s]],
        touched |-> {s \in cleared : Live(m, s, t)}]

(* Database.swap exchanges the two dicts and notifies nobody.              *)
SwapEffect(m, d, t, c) ==
    LET other(x) == IF x = c.db1 THEN c.db2 ELSE IF x = c.db2 THEN c.db1 ELSE x
    IN [dict |-> [s \in Slots |-> m[<<s[1], other(s[2])>>]], touched |-> {}]

Effect(m, d, t, c) ==
    CASE c.op = "set"                    -> SetEffect(m, d, t, c)
      [] c.op = "append"                 -> AppendEffect(m, d, t, c)
      [] c.op \in {"mset", "msetnx"}     -> MSetEffect(m, d, t, c)
      [] c.op = "del"                    -> DelEffect(m, d, t, c)
      [] c.op = "expire"                 -> ExpireEffect(m, d, t, c)
      [] c.op = "persist"                -> PersistEffect(m, d, t, c)
      [] c.op \in {"rename", "renamenx"} -> RenameEffect(m, d, t, c)
      [] c.op = "move"                   -> MoveEffect(m, d, t, c)
      [] c.op = "copy"                   -> CopyEffect(m, d, t, c)
      [] c.op \in {"flushdb", "flushall"} -> FlushEffect(m, d, t, c)
      [] c.op = "swapdb"                 -> SwapEffect(m, d, t, c)
      [] OTHER                           -> Unchanged(m)

(* The commands that change a slot whose watchers they do not notify.      *)
SilentOps == {"move", "swapdb"}
=============================================================================

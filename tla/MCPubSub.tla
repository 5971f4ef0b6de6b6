------------------------------ MODULE MCPubSub ------------------------------
(* Small instances of PubSub: two subscribers that also publish, reset,    *)
(* kill and close, over one channel and a pattern that matches it.         *)
EXTENDS PubSub, TLC

CONSTANTS c1, c2, ch, pat

Sub(kind, names) == [op |-> "subscribe", kind |-> kind, names |-> names]
Unsub(kind, names) == [op |-> "unsubscribe", kind |-> kind, names |-> names]
SpublishOf(n) == [op |-> "spublish", name |-> n]
PublishOf(n) == [op |-> "publish", name |-> n]
KillOf(c) == [op |-> "kill", target |-> c]

OnePattern == (pat :> {ch}) @@ (ch :> {})
NoteChannels == <<ch, pat>>

AllRequests ==
    (c1 :> {Sub("channel", <<ch, ch>>), Sub("pattern", <<pat>>), Sub("shard", <<ch>>),
            Unsub("channel", <<>>), Unsub("pattern", <<pat, pat>>), Unsub("shard", <<>>),
            [op |-> "reset"]})
      @@ (c2 :> {Sub("channel", <<pat, ch>>), Unsub("channel", <<>>), PublishOf(ch),
                 SpublishOf(ch), [op |-> "write"], KillOf(c1)})

KillRequests == (c1 :> {Sub("shard", <<ch>>)}) @@ (c2 :> {SpublishOf(ch), KillOf(c1)})
=============================================================================

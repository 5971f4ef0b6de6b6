--------------------------- MODULE AccessControl ---------------------------
(***************************************************************************)
(* Users and their rules: ACL SETUSER, DELUSER, GETUSER, LIST, SAVE, LOAD  *)
(* and LOG, AUTH, and the check every command passes before the server's   *)
(* lock is taken.  A rule is a sequence of words, a word a pair: an        *)
(* operation and what it is about.  A pattern matches its own name or, "*",*)
(* everything.  Hashes of passwords are the passwords.  A selector has key *)
(* patterns: without them as_rule writes an empty word, at which           *)
(* Selector.from_bytes fails with an IndexError.                           *)
(***************************************************************************)
EXTENDS Integers, Sequences, FiniteSets, SequencesExt

CONSTANTS
    Clients,
    Table,          \* the command table: name to [cats, keyed, pubsub]
    Things,         \* bound: the keys and channels clients name
    Passwords,      \* bound
    RequirePass,    \* CONFIG requirepass
    AclScopes,      \* bound: [names, words, ops], what a behaviour uses
    MaxRefusals     \* bound: on the commands refused between two ACL LOG RESET

(* No command has the name of a category.                                  *)
AccessAssumption == MaxRefusals \in Nat /\ "@all" \notin DOMAIN Table

VARIABLES
    aclScope,
    users,          \* AccessControlList._user_acl: a sequence of [name, acl], in the order of the dict
    file,           \* the aclfile: a sequence of <<name, words>>
    login,          \* login[c]: the user in the client_info of c
    aclLog,         \* AccessControlList._log
    refusals,       \* history: refusals since the log was last reset
    asSaved         \* history: no user has changed since the last SAVE
aVars == <<aclScope, users, file, login, aclLog, refusals, asSaved>>

-----------------------------------------------------------------------------
(* UserAccessControlList: commands is a dict, kept as a sequence because   *)
(* the order shows in the rule.                                            *)
NewUser == [enabled |-> TRUE, nopass |-> FALSE, passwords |-> {}, keys |-> {}, channels |-> {},
            commands |-> <<<<"@all", FALSE>>>>, selectors |-> {}]
ResetUser == [NewUser EXCEPT !.enabled = FALSE]
DefaultUser == [NewUser EXCEPT !.nopass = TRUE, !.keys = {"*"}, !.channels = {"*"},
                               !.commands = <<<<"@all", TRUE>>>>]
Within(command, category) == command \in DOMAIN Table /\ category \in Table[command].cats

(* add_command_or_category: a category sweeps away what was said of its    *)
(* commands; a dict keeps the place of a key that is set again.            *)
Without(commands, word) ==
    FoldLeft(LAMBDA kept, c : IF Within(c[1], word) THEN kept ELSE Append(kept, c), <<>>, commands)
AddCommand(commands, word, on) ==
    LET kept == Without(commands, word)
        places == {i \in DOMAIN kept : kept[i][1] = word}
    IN  IF places = {} THEN Append(kept, <<word, on>>)
        ELSE [i \in DOMAIN kept |-> IF i \in places THEN <<word, on>> ELSE kept[i]]

(* One word of ACL SETUSER; a word it does not know is skipped.            *)
SetWord(u, w) ==
    CASE w[1] = "on"  -> [u EXCEPT !.enabled = TRUE]
      [] w[1] = "off" -> [u EXCEPT !.enabled = FALSE]
      [] w[1] = "nopass" -> [u EXCEPT !.nopass = TRUE, !.passwords = {}]
      [] w[1] = "reset" -> ResetUser
      [] w[1] = "resetkeys" -> [u EXCEPT !.keys = {}]
      [] w[1] = "resetchannels" -> [u EXCEPT !.channels = {}]
      [] w[1] = ">" -> [u EXCEPT !.nopass = FALSE, !.passwords = @ \cup {w[2]}]
      [] w[1] = "<" -> [u EXCEPT !.passwords = @ \ {w[2]}]
      [] w[1] \in {"+", "-"} -> [u EXCEPT !.commands = AddCommand(@, w[2], w[1] = "+")]
      [] w[1] = "~" -> [u EXCEPT !.keys = @ \cup {w[2]}]
      [] w[1] = "&" -> [u EXCEPT !.channels = @ \cup {w[2]}]
      [] w[1] = "(" -> [u EXCEPT !.selectors = @ \cup {w[2]}]
      [] OTHER -> u
SetWords(u, words) == FoldLeft(SetWord, u, words)

(* as_rule, with ACL LIST and ACL SAVE.  SETUSER takes the flags allkeys   *)
(* and allchannels for the patterns that they stand for.                   *)
Each(op, S) == [i \in 1..Cardinality(S) |-> <<op, SetToSeq(S)[i]>>]
When(condition, word) == IF condition THEN <<<<word, "">>>> ELSE <<>>
Commands(u) == [i \in DOMAIN u.commands |-> <<IF u.commands[i][2] THEN "+" ELSE "-", u.commands[i][1]>>]
ChannelWords(u) ==
    IF u.channels = {"*"} THEN <<<<"&", "*">>>> ELSE <<<<"resetchannels", "">>>> \o Each("&", u.channels)
RuleFlags(u) ==
    When(u.enabled, "on") \o When(~u.enabled, "off") \o When(u.nopass, "nopass") \o
    Each("~", {"*"} \cap u.keys) \o Each("&", {"*"} \cap u.channels)
(* Mutant of AsRule. *)
AsRuleReversed(u) ==
    RuleFlags(u) \o Each(">", u.passwords) \o Reverse(Commands(u)) \o Each("~", u.keys) \o ChannelWords(u) \o
    Each("(", u.selectors)
AsRule(u) ==
    RuleFlags(u) \o Each(">", u.passwords) \o Commands(u) \o Each("~", u.keys) \o ChannelWords(u) \o
    Each("(", u.selectors)

-----------------------------------------------------------------------------
(* get_user_acl: a name that is asked for is a user from then on.          *)
Known(us, n) == \E i \in DOMAIN us : us[i].name = n
Place(us, n) == CHOOSE i \in DOMAIN us : us[i].name = n
WithUser(us, n) == IF Known(us, n) THEN us ELSE Append(us, [name |-> n, acl |-> NewUser])
UserAcl(us, n) == IF Known(us, n) THEN us[Place(us, n)].acl ELSE NewUser
SetUser(us, n, words) == [WithUser(us, n) EXCEPT ![Place(WithUser(us, n), n)].acl = SetWords(@, words)]

CheckPassword(u, password) ==
    IF u.nopass THEN password = "" ELSE password \in u.passwords /\ u.enabled

CommandAllowed(u, command) ==
    \E i \in DOMAIN u.commands : /\ u.commands[i][2]
                                 /\ \/ u.commands[i][1] \in {command, "@all"}
                                    \/ Within(command, u.commands[i][1])
(* No patterns at all is no restriction, and of the keys of a command the  *)
(* first is compared.                                                      *)
Matches(patterns, thing) == patterns = {} \/ patterns \cap {"*", thing} # {}

(* validate_command: "" lets the command pass.  A user that is disabled is *)
(* refused without a record.                                               *)
Verdict(n, command, thing) ==
    LET u == UserAcl(users, n)
    IN  CASE ~Known(users, n) \/ command = "auth" -> ""
          [] Known(users, n) /\ command # "auth" /\ ~u.enabled -> "disabled"
          [] OTHER ->
             IF command \notin DOMAIN Table THEN ""
             ELSE IF ~CommandAllowed(u, command) THEN "command"
             ELSE IF Table[command].keyed /\ ~Matches(u.keys, thing) THEN "key"
             ELSE IF Table[command].pubsub /\ ~Matches(u.channels, thing) THEN "channel"
             ELSE ""

(* add_log_record: the same refusal again only counts.                     *)
Same(a, b) == a.reason = b.reason /\ a.object = b.object /\ a.user = b.user
AddLogRecord(log, record) ==
    IF log # <<>> /\ Same(log[Len(log)], record) THEN [log EXCEPT ![Len(log)].count = @ + 1]
    ELSE Append(log, record)
Refuse(reason, object, n) ==
    /\ refusals < MaxRefusals
    /\ aclLog' = AddLogRecord(aclLog, [reason |-> reason, object |-> object, user |-> n, count |-> 1])
    /\ refusals' = refusals + 1

-----------------------------------------------------------------------------
Uses(op) == op \in aclScope.ops
Become(us) == users' = us /\ asSaved' = (asSaved /\ us = users)

AclSetUser(n, w) ==
    /\ Uses("SETUSER")
    /\ Become(SetUser(users, n, <<w>>))
    /\ UNCHANGED <<aclScope, file, login, aclLog, refusals>>
AclDelUser(n) ==
    /\ Uses("DELUSER") /\ Known(users, n)
    /\ Become(RemoveAt(users, Place(users, n)))
    /\ UNCHANGED <<aclScope, file, login, aclLog, refusals>>
AclGetUser(n) ==
    /\ Uses("DELUSER") /\ ~Known(users, n)
    /\ Become(WithUser(users, n))
    /\ UNCHANGED <<aclScope, file, login, aclLog, refusals>>

(* AUTH; given a password only, it is the default user's.                  *)
Auth(c, n, password) ==
    /\ Uses("AUTH")
    /\ \/ /\ n = "default" /\ password = RequirePass
          /\ login' = [login EXCEPT ![c] = n]
          /\ UNCHANGED <<users, asSaved, aclLog, refusals>>
       \/ /\ ~(n = "default" /\ password = RequirePass)
          /\ Become(WithUser(users, n))
          /\ IF CheckPassword(UserAcl(users, n), password)
             THEN login' = [login EXCEPT ![c] = n] /\ UNCHANGED <<aclLog, refusals>>
             ELSE Refuse("auth", "AUTH", n) /\ UNCHANGED login
    /\ UNCHANGED <<aclScope, file>>

(* A command that is refused; one that passes is other modules' business.  *)
Command(c, command, thing) ==
    /\ Uses("COMMAND")
    /\ LET verdict == Verdict(login[c], command, thing)
       IN  /\ verdict \notin {"", "disabled"}
           /\ Refuse(verdict, IF verdict = "command" THEN command ELSE thing, login[c])
    /\ UNCHANGED <<aclScope, users, file, login, asSaved>>
LogReset ==
    /\ Uses("COMMAND") /\ aclLog # <<>>
    /\ aclLog' = <<>> /\ refusals' = 0
    /\ UNCHANGED <<aclScope, users, file, login, asSaved>>

(* ACL SAVE, of names that hold no line break themselves.                  *)
Broken == "*newline"
AclSave ==
    /\ Uses("SAVE") /\ \A i \in DOMAIN users : Broken \notin users[i].acl.channels
    /\ file' = [i \in DOMAIN users |-> <<users[i].name, AsRule(users[i].acl)>>]
    /\ asSaved' = TRUE
    /\ UNCHANGED <<aclScope, users, login, aclLog, refusals>>

(* ACL LOAD applies the lines to the users there are.  A line keeps its    *)
(* line break, all but the last have one, and it sticks to the last word:  *)
(* a channel is another one then, resetchannels is not known, and after a  *)
(* selector the command fails with an IndexError.                          *)
LastWord(words) == words[Len(words)]
Fails(i) == i < Len(file) /\ LastWord(file[i][2])[1] = "("
Read(i) ==
    IF i = Len(file) THEN file[i][2]
    ELSE [file[i][2] EXCEPT ![Len(file[i][2])] = IF @[1] = "&" THEN <<"&", Broken>> ELSE <<"unknown", "">>]
(* Mutant of Line. *)
LineMissed(us, i) ==
    IF i = Len(file) \/ (\E j \in DOMAIN file : j <= i /\ Fails(j)) THEN us ELSE SetUser(us, file[i][1], Read(i))
Line(us, i) ==
    IF \E j \in DOMAIN file : j <= i /\ Fails(j) THEN us ELSE SetUser(us, file[i][1], Read(i))
LoadedInto(us) == FoldLeft(Line, us, [i \in DOMAIN file |-> i])
AclLoad ==
    /\ Uses("SAVE") /\ file # <<>>
    /\ Become(LoadedInto(users))
    /\ UNCHANGED <<aclScope, file, login, aclLog, refusals>>

NewTable == <<[name |-> "default", acl |-> DefaultUser]>>
AInit ==
    /\ aclScope \in AclScopes
    /\ users = NewTable
    /\ file = <<>>
    /\ login = [c \in Clients |-> "default"]
    /\ aclLog = <<>> /\ refusals = 0 /\ asSaved = FALSE
ANext ==
    \/ \E n \in aclScope.names :
        \/ \E w \in aclScope.words : AclSetUser(n, w)
        \/ AclDelUser(n)
        \/ AclGetUser(n)
    \/ \E c \in Clients :
        \/ \E n \in aclScope.names, password \in Passwords \cup {""} : Auth(c, n, password)
        \/ \E command \in DOMAIN Table, thing \in Things : Command(c, command, thing)
    \/ LogReset
    \/ AclSave
    \/ AclLoad
ASpec == AInit /\ [][ANext]_aVars

-----------------------------------------------------------------------------
AclTypeOK ==
    /\ \A i \in DOMAIN users : /\ \A j \in DOMAIN users : users[i].name = users[j].name => i = j
                               /\ users[i].acl.nopass => users[i].acl.passwords = {}
    /\ refusals \in 0..MaxRefusals

(* What ACL LIST prints of a user, given to ACL SETUSER of a new user,     *)
(* makes the same user, in the order of its words too.                     *)
RulesDescribeUsers ==
    \A i \in DOMAIN users : SetWords(NewUser, AsRule(users[i].acl)) = users[i].acl

Logged(log) == FoldLeft(LAMBDA n, r : n + r.count, 0, log)
(* Every refusal since the last reset is counted once in the log, and two  *)
(* records in a row differ.                                                *)
RefusalsAreLogged ==
    /\ Logged(aclLog) = refusals
    /\ \A i \in 2..Len(aclLog) : ~Same(aclLog[i - 1], aclLog[i])

(* What a user u, saved and loaded over v, is: only the last line is read  *)
(* right about channels; the line break costs the others a channel, and    *)
(* those without channels the word that says so.                           *)
Restored(b, u, v, isLast) ==
    /\ b = [u EXCEPT !.nopass = @ \/ (v.nopass /\ u.passwords = {}), !.keys = @ \cup v.keys,
                     !.channels = b.channels]
    /\ CASE isLast -> b.channels = u.channels
         [] ~isLast /\ u.channels = {} -> b.channels = v.channels
         [] OTHER -> \E c \in u.channels : /\ u.channels \ {c} \subseteq b.channels
                                          /\ b.channels \subseteq u.channels \cup {Broken}
(* A user but the last who has a selector: from that line on nothing is    *)
(* loaded, and the command fails.                                          *)
StopsAt(i) == \E j \in 1..i : j < Len(users) /\ users[j].acl.selectors # {}
(* ACL LOAD of what ACL SAVE wrote, in a new server, restores the users up *)
(* to the first whose selector is followed by a line break, and touches no *)
(* other; the default user keeps the keys and the empty password that a    *)
(* new server gives it, and most users lose a channel.                     *)
SaveCanBeLoaded ==
    asSaved =>
        LET new == LoadedInto(NewTable)
        IN  /\ \A i \in DOMAIN users :
                LET n == users[i].name
                IN  IF StopsAt(i) THEN UserAcl(new, n) = UserAcl(NewTable, n) /\ (Known(new, n) <=> Known(NewTable, n))
                    ELSE Known(new, n)
                         /\ Restored(UserAcl(new, n), users[i].acl, UserAcl(NewTable, n), i = Len(users))
            /\ \A i \in DOMAIN new : Known(users, new[i].name) \/ new[i] = NewTable[1]

(* Users: ACL LIST describes a user, every refusal is counted in the log,  *)
(* and ACL LOAD restores what ACL SAVE wrote, but for what SaveCanBeLoaded *)
(* names.                                                                  *)
AccessIsKept == AclTypeOK /\ RulesDescribeUsers /\ RefusalsAreLogged /\ SaveCanBeLoaded
=============================================================================

----------------------------- MODULE SlashCommands ------------------------------
(* Who serves a slash prompt: the adapter's own commands, an extension of pi,  *)
(* or a prompt file that is expanded before pi sees it.  Which names are       *)
(* extensions is asked of pi once, by whoever needs it first, and remembered;  *)
(* a prompt that pi runs as an extension command has no agent_settled, so its  *)
(* turn must be marked to end with the prompt's response.                      *)
EXTENDS Naturals, Sequences, FiniteSets, SequencesExt, Subsequences

CONSTANTS
    Names,      \* of commands and of prompt files
    Bodies,     \* what the files expand to
    Builtins,   \* builtin_available_commands
    Lists,      \* what get_commands may answer: sequences of [name, source]
    Dirs,       \* root -> its prompt files in the order found, [name, body]; "user" is a root
    Roots,      \* the session's roots in order: the cwd, then the additional ones
    Ways        \* what may happen: [prompts, skills, fails, changes]

\* A file is named after its stem; "pi" and "builtin" stand for the entries that are not files.
Sources == {"extension", "prompt", "skill"}
FileRecs == [name : Names, body : Bodies]
PromptRecs == [name : Names \cup {"plain"}, strict : BOOLEAN, images : BOOLEAN]
SlashAssumption ==
    /\ "plain" \notin Names /\ {"pi", "builtin"} \cap Bodies = {}
    /\ IsFiniteSet(Builtins) /\ Builtins \subseteq Names
    /\ Lists \subseteq Seq([name : Names, source : Sources])
    /\ \A d \in DOMAIN Dirs : Dirs[d] \in Seq(FileRecs)
    /\ "user" \in DOMAIN Dirs /\ Roots \in Seq(DOMAIN Dirs)
    /\ \A w \in Ways :
          /\ \A p \in DOMAIN w.prompts : w.prompts[p] \in PromptRecs /\ p # "menu"
          /\ w.skills \in BOOLEAN /\ w.fails \in BOOLEAN /\ w.changes \in Nat

VARIABLES
    way,        \* of Ways; it does not change
    list,       \* (external) pi's commands
    cache,      \* extension_commands: <<>> or <<names>>
    task,       \* per prompt and for "menu", the advertisement: [pc, reply]
    got,        \* what reached pi, per prompt: [text, marked, ext]
    menu,       \* what the client is offered: sequence of [name, from]
    changes
vars == <<way, list, cache, task, got, menu, changes>>

Prompts == way.prompts  \* those a client sends: id -> [name, strict, images]; name "plain" is plain text
Skills == way.skills    \* enableSkillCommands
Fails == way.fails      \* whether get_commands may fail
Changes == way.changes  \* bound: how often pi's commands change

Tasks == DOMAIN Prompts \cup {"menu"}
Sent(p) == p \in DOMAIN got

\* The first entry of each name.
FirstOnly(s) == Subsequence(s, {i \in DOMAIN s : \A j \in 1 .. i - 1 : s[j].name # s[i].name})

\* The user's files, then each root's once, the cwd first.
Collected[n \in 0 .. Len(Roots)] ==
    IF n = 0 THEN Dirs["user"]
    ELSE IF \E j \in 1 .. n - 1 : Roots[j] = Roots[n] THEN Collected[n - 1]
    ELSE Collected[n - 1] \o Dirs[Roots[n]]
load_slash_commands_at_roots == Collected[Len(Roots)]

extension_command_names(l) == {l[i].name : i \in {j \in DOMAIN l : l[j].source = "extension"}}

\* What pi's answer contributes to the menu, and what the files do.
FromPi(l) ==
    LET shown == Subsequence(l, {i \in DOMAIN l : l[i].source # "extension" /\ (Skills \/ l[i].source # "skill")})
    IN  [i \in DOMAIN shown |-> [name |-> shown[i].name, from |-> "pi"]]
FromFiles == LET f == load_slash_commands_at_roots
             IN  FirstOnly([i \in DOMAIN f |-> [name |-> f[i].name, from |-> f[i].body]])
BuiltinEntries == [i \in DOMAIN SetToSeq(Builtins) |-> [name |-> SetToSeq(Builtins)[i], from |-> "builtin"]]
merge_commands(a, b) == FirstOnly(a \o b)

\* The file that a command names: the first of that name.
expand_slash_command(n) ==
    LET f == load_slash_commands_at_roots
        hits == {i \in DOMAIN f : f[i].name = n}
    IN  IF n = "plain" \/ hits = {} THEN <<"raw", n>>
        ELSE <<"file", f[CHOOSE i \in hits : \A j \in hits : i <= j].body>>

\* (external) pi runs a text that starts with an extension's command as that command.
RunsExtension(text, strict) ==
    \/ text[1] = "raw" /\ strict /\ text[2] \in extension_command_names(list)
    \/ text[1] = "file" /\ text[2] \in extension_command_names(list)

Init ==
    /\ way \in Ways
    /\ list \in Lists /\ cache = <<>> /\ got = <<>> /\ menu = <<>> /\ changes = 0
    /\ task = [t \in Tasks |-> [pc |-> "idle", reply |-> <<>>]]

Goto(t, pc) == task' = [task EXCEPT ![t] = [pc |-> pc, reply |-> task[t].reply]]

\* The prompt reaches pi; an extension's command goes there as it is.
prompt(p, marked) ==
    LET text == IF marked THEN <<"raw", Prompts[p].name>> ELSE expand_slash_command(Prompts[p].name)
    IN  /\ got' = [q \in DOMAIN got \cup {p} |->
                      IF q = p THEN [text |-> text, marked |-> marked,
                                     ext |-> RunsExtension(text, Prompts[p].strict)]
                               ELSE got[q]]
        /\ Goto(p, "sent")

\* A command of the adapter's own never becomes a turn; a prompt with images is never one.
IsBuiltin(p) == ~Prompts[p].images /\ Prompts[p].name \in Builtins

\* The name of a text that is not a slash prompt from its first character on is not looked up.
LooksUp(p) == Prompts[p].name # "plain" /\ Prompts[p].strict
handle_prompt_turn(p) ==
    /\ task[p].pc = "idle"
    /\ \/ IsBuiltin(p) /\ Goto(p, "builtin") /\ UNCHANGED got
       \/ ~IsBuiltin(p) /\ ~LooksUp(p) /\ prompt(p, FALSE)
       \/ ~IsBuiltin(p) /\ LooksUp(p) /\ cache # <<>> /\ prompt(p, Prompts[p].name \in cache[1])
       \/ ~IsBuiltin(p) /\ LooksUp(p) /\ cache = <<>> /\ Goto(p, "ask") /\ UNCHANGED got
    /\ UNCHANGED <<way, list, cache, menu, changes>>

advertise_commands ==
    /\ task["menu"].pc = "idle"
    /\ Goto("menu", "ask")
    /\ UNCHANGED <<way, list, cache, got, menu, changes>>

\* (external) pi answers with what it has, or fails.
PiAnswers(t) ==
    /\ task[t].pc = "ask"
    /\ \/ task' = [task EXCEPT ![t] = [pc |-> "answered", reply |-> <<list>>]]
       \/ Fails /\ task' = [task EXCEPT ![t] = [pc |-> "failed", reply |-> <<>>]]
    /\ UNCHANGED <<way, list, cache, got, menu, changes>>

get_commands_Forgets(t) ==
    /\ task[t].pc = "answered"
    /\ Goto(t, "known")
    /\ UNCHANGED <<way, list, cache, got, menu, changes>>
get_commands(t) ==
    /\ task[t].pc = "answered"
    /\ cache' = <<extension_command_names(task[t].reply[1])>>
    /\ Goto(t, "known")
    /\ UNCHANGED <<way, list, got, menu, changes>>

\* A failed discovery leaves the prompt to the files.
is_extension_command(p) ==
    /\ p # "menu" /\ task[p].pc \in {"known", "failed"}
    /\ prompt(p, task[p].pc = "known" /\ cache # <<>> /\ Prompts[p].name \in cache[1])
    /\ UNCHANGED <<way, list, cache, menu, changes>>

\* pi's commands, or the files when it has none, and then the adapter's.
Menu ==
    /\ task["menu"].pc \in {"known", "failed"}
    /\ LET pis == IF task["menu"].pc = "known" THEN FromPi(task["menu"].reply[1]) ELSE <<>>
       IN  menu' = merge_commands(IF pis = <<>> THEN FromFiles ELSE pis, BuiltinEntries)
    /\ Goto("menu", "shown")
    /\ UNCHANGED <<way, list, cache, got, changes>>

\* (external) An extension is loaded or dropped.
PiChanges ==
    /\ changes < Changes
    /\ \E l \in Lists \ {list} : list' = l
    /\ changes' = changes + 1
    /\ UNCHANGED <<way, cache, task, got, menu>>

Next ==
    \/ \E p \in DOMAIN Prompts : handle_prompt_turn(p) \/ is_extension_command(p)
    \/ \E t \in Tasks : PiAnswers(t) \/ get_commands(t)
    \/ advertise_commands \/ Menu \/ PiChanges
Spec == Init /\ [][Next]_vars

-------------------------------------------------------------------------------
\* The tables of PiAcpSession.
TypeOK ==
    /\ way \in Ways /\ list \in Lists /\ changes \in 0 .. Changes
    /\ cache # <<>> => cache[1] \in {extension_command_names(l) : l \in Lists}
    /\ \A t \in Tasks : task[t].pc \in {"idle", "ask", "answered", "failed", "known", "sent", "builtin", "shown"}
    /\ \A p \in DOMAIN got : got[p].marked \in BOOLEAN /\ p # "menu"

\* is_extension_command: a turn is marked to end with the prompt's response exactly when pi runs it
\* as an extension's command; otherwise it ends at once or never, whoever asked pi first.
MarkedAsServed == \A p \in DOMAIN got : got[p].marked = got[p].ext

\* prompt: an extension's command wins over a file of the same name.
ExtensionsWin ==
    \A p \in DOMAIN got :
        Prompts[p].strict /\ Prompts[p].name \in extension_command_names(list) =>
            got[p].text = <<"raw", Prompts[p].name>>

\* handle_builtin_command: whatever has images reaches pi, and no bare command of the adapter's does.
ImagesReachPi ==
    \A p \in DOMAIN Prompts : /\ Sent(p) => Prompts[p].images \/ Prompts[p].name \notin Builtins
                              /\ task[p].pc = "builtin" => ~Prompts[p].images

\* advertise_commands: an entry that describes a file describes the very file the prompt expands to.
MenuNamesTheFile ==
    \A i \in DOMAIN menu : menu[i].from \notin {"pi", "builtin"} =>
        expand_slash_command(menu[i].name) = <<"file", menu[i].from>>

\* merge_commands: a name is offered once, each of the adapter's is, and no extension's is.
MenuIsWhole ==
    menu # <<>> => /\ IsInjective([i \in DOMAIN menu |-> menu[i].name])
                   /\ Builtins \subseteq {menu[i].name : i \in DOMAIN menu}
                   /\ \A i \in DOMAIN menu :
                          menu[i].from = "pi" =>
                              menu[i].name \notin extension_command_names(task["menu"].reply[1])

\* The table of extensions' names is asked for once and served to all: while pi keeps its commands
\* and answers, it says who runs a prompt; the menu offers what the prompts then find.
CommandsAgree ==
    /\ TypeOK /\ ImagesReachPi /\ MenuNamesTheFile /\ MenuIsWhole
    /\ ~Fails /\ Changes = 0 => MarkedAsServed /\ ExtensionsWin
================================================================================

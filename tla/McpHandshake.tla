------------------------------ MODULE McpHandshake ------------------------------
(* The MCP servers of a session.  The client's menu is checked; pi is started  *)
(* with it and with the registrar extension, which asks the adapter to take    *)
(* each server, at its load and again at session_start, and prints one marker  *)
(* line per server to stderr; a reader keeps the markers; the agent polls them *)
(* until each server has one, pi is gone, or the deadline has passed.  A later *)
(* pi of the session is started with the menu that was stored.                 *)
EXTENDS Integers, Sequences, FiniteSets, SequencesExt

CONSTANTS
    Names,      \* server names; "" stands for a name the markers cannot carry
    Menus,      \* the menus a client asks for: sequences of [name, transport, sound]
    Protocol,   \* "v1" or "v2"
    Wired,      \* MCP is enabled and the adapter is installed as a package
    Cap,        \* the bound on the markers that are kept
    Deadlines,  \* whether the deadline may pass
    Deaths      \* bound: how often pi dies by itself

ASSUME McpAssumption ==
    /\ Protocol \in {"v1", "v2"} /\ Wired \in BOOLEAN /\ Cap \in Nat
    /\ Deadlines \in BOOLEAN /\ Deaths \in Nat
    /\ \A s \in Menus : \A i \in DOMAIN s : s[i].name \in Names \cup {""} /\ s[i].sound \in BOOLEAN

VARIABLES
    menu,       \* what the client asked for
    stored,     \* mcp_configs: the menu a later pi is started with
    adapter,    \* (external) "before" or "after" the registrar, or "absent"
    refuses,    \* (external) the servers the adapter turns down
    pi,         \* "off", "load", "start", "up" or "dead"
    todo,       \* the servers the registrar has not tried in this phase
    reported,   \* the registrar's: server -> "ok" or "bad"
    stderr,     \* the markers pi has printed
    markers,    \* the markers the reader has kept
    gate,       \* "off" or "poll"
    late,       \* the deadline has passed
    outcome,    \* "none", "refused", "open", "failed" or "pending"
    named,      \* the servers the error names
    deaths
vars == <<menu, stored, adapter, refuses, pi, todo, reported, stderr, markers, gate, late, outcome,
          named, deaths>>

NamesOf(s) == {s[i].name : i \in DOMAIN s}
Transports == IF Protocol = "v1" THEN {"stdio", "http", "sse"} ELSE {"stdio", "http"}

\* Every server of an accepted menu is well-formed, of a known transport and declared once.
normalize_mcp_servers(s) ==
    /\ \A i \in DOMAIN s : s[i].name # "" /\ s[i].sound /\ s[i].transport \in Transports
    /\ IsInjective([i \in DOMAIN s |-> s[i].name])

check_mcp_specs(s) == normalize_mcp_servers(s) /\ (s # <<>> => Wired)

\* What pi is started with: a transport nobody knows has no definition.
Payload(s) == {s[i].name : i \in {j \in DOMAIN s : s[j].transport \in Transports}}

Init ==
    /\ menu \in Menus /\ stored = {}
    /\ adapter \in {"before", "after", "absent"} /\ refuses \in SUBSET Names
    /\ pi = "off" /\ todo = {} /\ reported = <<>> /\ stderr = <<>> /\ markers = <<>>
    /\ gate = "off" /\ late = FALSE /\ outcome = "none" /\ named = {} /\ deaths = 0

\* spawn_session: a new pi has printed nothing yet.
Spawn_KeepsMarkers(specs) ==
    /\ pi' = "load" /\ todo' = specs /\ reported' = <<>> /\ stderr' = <<>>
    /\ UNCHANGED markers
    /\ gate' = "poll" /\ late' = FALSE /\ outcome' = "none" /\ named' = {}
Spawn(specs) ==
    /\ pi' = "load" /\ todo' = specs /\ reported' = <<>> /\ stderr' = <<>> /\ markers' = <<>>
    /\ gate' = "poll" /\ late' = FALSE /\ outcome' = "none" /\ named' = {}

NewSession ==
    /\ pi = "off" /\ outcome = "none"
    /\ \/ /\ ~check_mcp_specs(menu)
          /\ outcome' = "refused"
          /\ UNCHANGED <<pi, todo, reported, stderr, markers, gate, late, named>>
       \/ check_mcp_specs(menu) /\ Spawn(Payload(menu))
    /\ UNCHANGED <<menu, stored, adapter, refuses, deaths>>

\* The client uses the session of a pi that is gone.
restore_session ==
    /\ pi = "dead" /\ gate = "off" /\ stored # {} /\ outcome # "none"
    /\ Spawn(stored)
    /\ UNCHANGED <<menu, stored, adapter, refuses, deaths>>

\* The registrar: without the adapter's answer a server waits for session_start, where it fails.
report(n, how) ==
    /\ reported' = [k \in DOMAIN reported \cup {n} |-> IF k = n THEN how ELSE reported[k]]
    /\ stderr' = Append(stderr, <<how, n>>)

registerOne(n) ==
    /\ pi \in {"load", "start"} /\ n \in todo
    /\ todo' = todo \ {n}
    /\ CASE n \in DOMAIN reported                -> UNCHANGED <<reported, stderr>>
         [] n \notin DOMAIN reported /\ (adapter = "before" \/ (adapter = "after" /\ pi = "start")) ->
                report(n, IF n \in refuses THEN "bad" ELSE "ok")
         [] n \notin DOMAIN reported /\ adapter # "before" /\ pi = "load" ->
                UNCHANGED <<reported, stderr>>
         [] n \notin DOMAIN reported /\ adapter = "absent" /\ pi = "start" -> report(n, "bad")
    /\ UNCHANGED <<menu, stored, adapter, refuses, pi, markers, gate, late, outcome, named, deaths>>

\* The extensions are loaded: session_start tries again what has not been reported.
SessionStart ==
    /\ pi \in {"load", "start"} /\ todo = {}
    /\ pi' = IF pi = "load" THEN "start" ELSE "up"
    /\ todo' = IF pi = "load" THEN (IF stored # {} THEN stored ELSE Payload(menu)) ELSE {}
    /\ UNCHANGED <<menu, stored, adapter, refuses, reported, stderr, markers, gate, late, outcome,
                   named, deaths>>

PiDies ==
    /\ pi \in {"load", "start", "up"} /\ deaths < Deaths
    /\ pi' = "dead" /\ todo' = {} /\ deaths' = deaths + 1
    /\ UNCHANGED <<menu, stored, adapter, refuses, reported, stderr, markers, gate, late, outcome, named>>

stderr_loop ==
    /\ stderr # <<>>
    /\ stderr' = Tail(stderr)
    /\ markers' = IF Len(markers) < Cap THEN Append(markers, Head(stderr)) ELSE markers
    /\ UNCHANGED <<menu, stored, adapter, refuses, pi, todo, reported, gate, late, outcome, named, deaths>>

\* McpSessionManager over a snapshot of the markers.
Requested == IF stored # {} THEN stored ELSE Payload(menu)
Marked(lines, how) == {n \in Names : \E i \in DOMAIN lines : lines[i] = <<how, n>>}
Pending(lines) == Requested \ (Marked(lines, "ok") \cup Marked(lines, "bad"))

\* The gate's verdict; a session that is not let through is closed, which ends its pi.
Verdict(lines) ==
    /\ gate' = "off"
    /\ LET bad == Marked(lines, "bad")
       IN  CASE bad # {}  -> outcome' = "failed" /\ named' = bad
             [] bad = {} /\ Pending(lines) # {} -> outcome' = "pending" /\ named' = Pending(lines)
             [] bad = {} /\ Pending(lines) = {} -> outcome' = "open" /\ named' = {}
    /\ IF outcome' = "open" THEN stored' = Requested /\ UNCHANGED <<pi, todo>>
                            ELSE pi' = "dead" /\ todo' = {} /\ UNCHANGED stored
    /\ UNCHANGED <<menu, adapter, refuses, reported, stderr, markers, late, deaths>>

\* A poll: the pump answers with the markers, also for a pi whose end it has not noticed.
gate_mcp_registered ==
    /\ gate = "poll" /\ (Pending(markers) = {} \/ late)
    /\ Verdict(markers)

\* The pump is gone with its pi: the verdict is over the last snapshot, which any earlier one may be.
PumpGone ==
    /\ gate = "poll" /\ pi = "dead"
    /\ \E k \in 0 .. Len(markers) : Verdict(SubSeq(markers, 1, k))

Deadline_Never == FALSE /\ UNCHANGED vars
Deadline ==
    /\ Deadlines /\ gate = "poll" /\ ~late
    /\ late' = TRUE
    /\ UNCHANGED <<menu, stored, adapter, refuses, pi, todo, reported, stderr, markers, gate, outcome,
                   named, deaths>>

Registrar == SessionStart \/ \E n \in Names : registerOne(n)
Next == \/ NewSession \/ restore_session \/ Registrar \/ PiDies \/ stderr_loop
        \/ gate_mcp_registered \/ PumpGone \/ Deadline
Spec == Init /\ [][Next]_vars

\* The agent's loop polls, its clock runs, the reader reads and pi's extensions run.
FairSpec ==
    /\ Spec
    /\ WF_vars(gate_mcp_registered) /\ WF_vars(PumpGone) /\ WF_vars(Deadline)
    /\ WF_vars(stderr_loop) /\ WF_vars(Registrar)

-------------------------------------------------------------------------------
\* McpSessionManager and the registrar's sets.
TypeOK ==
    /\ menu \in Menus /\ stored \subseteq Names /\ todo \subseteq Names
    /\ pi \in {"off", "load", "start", "up", "dead"} /\ gate \in {"off", "poll"}
    /\ DOMAIN reported \subseteq Names /\ \A n \in DOMAIN reported : reported[n] \in {"ok", "bad"}
    /\ outcome \in {"none", "refused", "open", "failed", "pending"}
    /\ named \subseteq Names /\ Len(markers) <= Cap

\* gate_mcp_registered: a session opens, the first time and each time it is restored, only when
\* the registrar of that very pi has registered every server the client asked for.
OpenMeansAll ==
    [][ outcome' = "open" /\ outcome # "open" =>
            \A n \in NamesOf(menu) : n \in DOMAIN reported /\ reported[n] = "ok" ]_vars

\* failure_message: an error names servers that did fail, all of them unless time or pi ran out.
FailureNamesExactly ==
    LET bad == {n \in DOMAIN reported : reported[n] = "bad"}
    IN  outcome = "failed" => /\ named \subseteq bad
                              /\ named = bad \/ late \/ deaths > 0

\* gate_mcp_registered, both verdicts: an open session has what the client asked for, and an
\* error says truly what it has not.
GateIsHonest == OpenMeansAll /\ []FailureNamesExactly

\* The names of a timeout: servers the client asked for, none of which failed.
PendingAreAsked ==
    outcome = "pending" => named # {} /\ named \subseteq NamesOf(menu) /\ (late \/ deaths > 0)

\* gate_mcp_registered: session/new is always answered, whatever the registrar does.
GateEnds == gate = "poll" ~> gate = "off"
================================================================================

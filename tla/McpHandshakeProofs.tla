-------------------------- MODULE McpHandshakeProofs --------------------------
(***************************************************************************)
(* Proofs about McpHandshake, for any menus, servers, bound on the markers *)
(* and number of deaths of pi.  Whatever is on its way from the registrar  *)
(* to the gate is what the registrar of this very pi decided, and what the *)
(* gate waits for is what the client asked for: so a session opens only    *)
(* with every server registered, and an error names the right ones.        *)
(***************************************************************************)
EXTENDS McpHandshake, TLAPS

Verdicts == {"ok", "bad"}
Lines == Verdicts \X Names
Outcomes == {"none", "refused", "open", "failed", "pending"}

\* TypeOK, and the lines that are under way.
TypeInv ==
    /\ TypeOK
    /\ stderr \in Seq(Lines) /\ markers \in Seq(Lines)
    /\ deaths \in Nat /\ late \in BOOLEAN
    /\ adapter \in {"before", "after", "absent"}

\* The registrar reports each server once; a line says what it reported.
Says(lines) == \A i \in DOMAIN lines :
    lines[i][2] \in DOMAIN reported /\ reported[lines[i][2]] = lines[i][1]
Faithful == Says(stderr) /\ Says(markers)

\* A pi is started with the menu of the client and nothing else.
Asked ==
    /\ pi # "off" => check_mcp_specs(menu)
    /\ gate = "poll" => pi # "off"
    /\ stored # {} => stored = NamesOf(menu)
    /\ todo \subseteq NamesOf(menu) /\ DOMAIN reported \subseteq NamesOf(menu)

\* A pi that ends while the gate polls died by itself; a session that was not let
\* through has none.
Dead ==
    /\ gate = "poll" /\ pi = "dead" => deaths > 0
    /\ outcome \in {"failed", "pending"} => pi = "dead"
    /\ gate = "poll" => outcome = "none"

IndInv ==
    TypeInv /\ Faithful /\ Asked /\ Dead /\ FailureNamesExactly /\ PendingAreAsked

-------------------------------------------------------------------------------
LEMMA CapIsNat == Cap \in Nat
BY McpAssumption

LEMMA CheckedMenu ==
    ASSUME menu \in Menus, check_mcp_specs(menu)
    PROVE  Payload(menu) = NamesOf(menu) /\ NamesOf(menu) \subseteq Names
<1>1. \A i \in DOMAIN menu : menu[i].name # "" /\ menu[i].transport \in Transports
  BY DEF check_mcp_specs, normalize_mcp_servers
<1>2. \A i \in DOMAIN menu : menu[i].name \in Names
  BY <1>1, McpAssumption
<1> QED BY <1>1, <1>2 DEF Payload, NamesOf

LEMMA RequestedIsMenu ==
    ASSUME TypeInv, Asked, pi # "off"
    PROVE  Requested = NamesOf(menu) /\ NamesOf(menu) \subseteq Names
BY CheckedMenu DEF Asked, Requested, TypeInv, TypeOK

\* Appended and dropped lines.
LEMMA AppendSays ==
    ASSUME NEW lines \in Seq(Lines), NEW line \in Lines, Says(lines),
           line[2] \in DOMAIN reported, reported[line[2]] = line[1]
    PROVE  Says(Append(lines, line))
<1>1. DOMAIN Append(lines, line) = 1..(Len(lines) + 1) /\ DOMAIN lines = 1..Len(lines)
  OBVIOUS
<1>2. \A i \in 1..Len(lines) : Append(lines, line)[i] = lines[i]
  OBVIOUS
<1>3. Append(lines, line)[Len(lines) + 1] = line
  OBVIOUS
<1>4. \A i \in 1..(Len(lines) + 1) : i \in 1..Len(lines) \/ i = Len(lines) + 1
  OBVIOUS
<1> QED BY <1>1, <1>2, <1>3, <1>4 DEF Says

LEMMA HeadTail ==
    ASSUME NEW lines \in Seq(Lines), lines # <<>>, Says(lines)
    PROVE  /\ Head(lines) \in Lines /\ Tail(lines) \in Seq(Lines) /\ Says(Tail(lines))
           /\ Head(lines)[2] \in DOMAIN reported /\ reported[Head(lines)[2]] = Head(lines)[1]
<1>1. Head(lines) = lines[1] /\ 1 \in DOMAIN lines /\ Head(lines) \in Lines /\ Tail(lines) \in Seq(Lines)
  OBVIOUS
<1>2. \A i \in DOMAIN Tail(lines) : Tail(lines)[i] = lines[i + 1] /\ i + 1 \in DOMAIN lines
  OBVIOUS
<1> QED BY <1>1, <1>2 DEF Says

LEMMA PrefixSays ==
    ASSUME NEW lines \in Seq(Lines), NEW k \in 0..Len(lines), Says(lines)
    PROVE  SubSeq(lines, 1, k) \in Seq(Lines) /\ Says(SubSeq(lines, 1, k))
<1>1. SubSeq(lines, 1, k) \in Seq(Lines) /\ DOMAIN SubSeq(lines, 1, k) = 1..k
  OBVIOUS
<1>2. \A i \in 1..k : SubSeq(lines, 1, k)[i] = lines[i] /\ i \in DOMAIN lines
  OBVIOUS
<1> QED BY <1>1, <1>2 DEF Says

\* What a line marks is what the registrar reported.
LEMMA MarkedIsReported ==
    ASSUME NEW lines \in Seq(Lines), Says(lines), NEW how \in Verdicts, NEW n \in Marked(lines, how)
    PROVE  n \in Names /\ n \in DOMAIN reported /\ reported[n] = how
<1>1. PICK i \in DOMAIN lines : lines[i] = <<how, n>>
  BY DEF Marked
<1>2. n \in Names
  BY DEF Marked
<1> QED BY <1>1, <1>2 DEF Says

-------------------------------------------------------------------------------
(* The verdict                                                                 *)

LEMMA VerdictCases ==
    ASSUME NEW lines, Verdict(lines)
    PROVE  /\ gate' = "off"
           /\ UNCHANGED <<menu, adapter, refuses, reported, stderr, markers, late, deaths>>
           /\ \/ /\ Marked(lines, "bad") # {}
                 /\ outcome' = "failed" /\ named' = Marked(lines, "bad")
                 /\ pi' = "dead" /\ todo' = {} /\ stored' = stored
              \/ /\ Marked(lines, "bad") = {} /\ Pending(lines) # {}
                 /\ outcome' = "pending" /\ named' = Pending(lines)
                 /\ pi' = "dead" /\ todo' = {} /\ stored' = stored
              \/ /\ Marked(lines, "bad") = {} /\ Pending(lines) = {}
                 /\ outcome' = "open" /\ named' = {}
                 /\ pi' = pi /\ todo' = todo /\ stored' = Requested
BY DEF Verdict

\* A verdict over lines the registrar's reports stand behind.
LEMMA VerdictStep ==
    ASSUME IndInv, gate = "poll", NEW lines \in Seq(Lines), Says(lines), Verdict(lines),
           Pending(lines) = {} \/ late \/ deaths > 0
    PROVE  /\ IndInv'
           /\ outcome' = "open" => \A n \in NamesOf(menu) : n \in DOMAIN reported /\ reported[n] = "ok"
<1> DEFINE bad == {n \in DOMAIN reported : reported[n] = "bad"}
<1>0. /\ TypeInv /\ Faithful /\ Asked /\ pi # "off"
      /\ Requested = NamesOf(menu) /\ NamesOf(menu) \subseteq Names
      /\ DOMAIN reported \subseteq NamesOf(menu)
      /\ \A n \in DOMAIN reported : reported[n] \in Verdicts
  BY RequestedIsMenu DEF IndInv, Asked, TypeInv, TypeOK, Verdicts
<1>1. Marked(lines, "bad") \subseteq bad /\ Marked(lines, "bad") \subseteq Names
  BY MarkedIsReported DEF Verdicts
<1>2. \A n \in Marked(lines, "ok") : n \in DOMAIN reported /\ reported[n] = "ok"
  BY MarkedIsReported DEF Verdicts
<1>3. Pending(lines) \subseteq NamesOf(menu)
  BY <1>0 DEF Pending
<1>4. Pending(lines) = {} => bad \subseteq Marked(lines, "bad")
  BY <1>0, <1>2 DEF Pending
<1>5. Pending(lines) = {} /\ Marked(lines, "bad") = {} =>
        \A n \in NamesOf(menu) : n \in DOMAIN reported /\ reported[n] = "ok"
  BY <1>0, <1>2 DEF Pending
<1>6. /\ gate' = "off" /\ adapter' = adapter /\ menu' = menu /\ reported' = reported /\ stderr' = stderr
      /\ markers' = markers /\ late' = late /\ deaths' = deaths
      /\ outcome' \in Outcomes /\ named' \subseteq Names
      /\ pi' \in {pi, "dead"} /\ (todo' = todo \/ todo' = {})
      /\ stored' = stored \/ stored' = NamesOf(menu)
  BY VerdictCases, <1>0, <1>1, <1>3 DEF Outcomes
<1>7. TypeInv'
  BY <1>0, <1>6 DEF TypeInv, TypeOK, Outcomes
<1>8. Faithful'
  BY <1>0, <1>6 DEF Faithful, Says
<1>9. Asked'
  BY <1>0, <1>6 DEF Asked, NamesOf, check_mcp_specs, normalize_mcp_servers
<1>10. Dead'
  BY VerdictCases DEF Dead
<1>11. FailureNamesExactly'
  BY VerdictCases, <1>1, <1>4, <1>6 DEF FailureNamesExactly
<1>12. PendingAreAsked'
  BY VerdictCases, <1>3, <1>6 DEF PendingAreAsked, NamesOf
<1> QED BY VerdictCases, <1>5, <1>7, <1>8, <1>9, <1>10, <1>11, <1>12 DEF IndInv

\* The gate's own verdict and the one over the last snapshot of a pump that is gone.
LEMMA GateStep ==
    ASSUME IndInv, gate_mcp_registered \/ PumpGone
    PROVE  /\ IndInv'
           /\ outcome' = "open" => \A n \in NamesOf(menu) : n \in DOMAIN reported /\ reported[n] = "ok"
<1>0. markers \in Seq(Lines) /\ Says(markers)
  BY DEF IndInv, TypeInv, Faithful
<1>1. CASE gate_mcp_registered
  BY <1>0, <1>1, VerdictStep DEF gate_mcp_registered
<1>2. CASE PumpGone
  <2>1. PICK k \in 0..Len(markers) : Verdict(SubSeq(markers, 1, k))
    BY <1>2 DEF PumpGone
  <2>2. gate = "poll" /\ deaths > 0
    BY <1>2 DEF PumpGone, IndInv, Dead
  <2> QED BY <1>0, <2>1, <2>2, PrefixSays, VerdictStep
<1> QED BY <1>1, <1>2

-------------------------------------------------------------------------------
(* The other steps                                                             *)

LEMMA SpawnStep ==
    ASSUME IndInv, NEW specs, Spawn(specs), specs \subseteq NamesOf(menu), check_mcp_specs(menu),
           UNCHANGED <<menu, stored, adapter, refuses, deaths>>
    PROVE  IndInv'
<1>0. NamesOf(menu) \subseteq Names
  BY CheckedMenu DEF IndInv, TypeInv, TypeOK
<1>1. /\ menu' = menu /\ stored' = stored /\ deaths' = deaths
      /\ pi' = "load" /\ todo' = specs /\ DOMAIN reported' = {} /\ stderr' = <<>> /\ markers' = <<>>
      /\ gate' = "poll" /\ late' = FALSE /\ outcome' = "none" /\ named' = {}
  BY DEF Spawn
<1>2. stderr' \in Seq(Lines) /\ markers' \in Seq(Lines) /\ Len(markers') = 0
      /\ DOMAIN stderr' = {} /\ DOMAIN markers' = {}
  BY <1>1
<1>3. TypeInv'
  <2>1. Len(markers') <= Cap
    BY <1>2, CapIsNat
  <2>2. /\ menu' \in Menus /\ stored' \subseteq Names /\ deaths' \in Nat
        /\ adapter' \in {"before", "after", "absent"}
    BY <1>1 DEF IndInv, TypeInv, TypeOK
  <2>3. todo' \subseteq Names /\ named' \subseteq Names
    BY <1>0, <1>1
  <2>4. DOMAIN reported' \subseteq Names /\ \A n \in DOMAIN reported' : reported'[n] \in {"ok", "bad"}
    BY <1>1
  <2> QED BY <1>1, <1>2, <2>1, <2>2, <2>3, <2>4 DEF TypeInv, TypeOK
<1>4. Faithful'
  BY <1>2 DEF Faithful, Says
<1>5. Asked'
  BY <1>1 DEF IndInv, Asked, NamesOf, check_mcp_specs, normalize_mcp_servers
<1> QED BY <1>1, <1>3, <1>4, <1>5 DEF IndInv, Dead, FailureNamesExactly, PendingAreAsked

LEMMA NewSessionStep ==
    ASSUME IndInv, NewSession
    PROVE  IndInv'
<1>1. CASE check_mcp_specs(menu)
  <2>1. Payload(menu) \subseteq NamesOf(menu)
    BY DEF Payload, NamesOf
  <2> QED BY <1>1, <2>1, SpawnStep DEF NewSession
<1>2. CASE ~check_mcp_specs(menu)
  <2>1. /\ outcome' = "refused"
        /\ UNCHANGED <<pi, todo, reported, stderr, markers, gate, late, named>>
        /\ UNCHANGED <<menu, stored, adapter, refuses, deaths>> /\ pi = "off"
    BY <1>2 DEF NewSession
  <2>2. TypeInv' /\ Faithful'
    BY <2>1 DEF IndInv, TypeInv, TypeOK, Faithful, Says
  <2>3. Asked' /\ Dead'
    BY <2>1 DEF IndInv, Asked, Dead, NamesOf, check_mcp_specs, normalize_mcp_servers
  <2> QED BY <2>1, <2>2, <2>3 DEF IndInv, FailureNamesExactly, PendingAreAsked
<1> QED BY <1>1, <1>2

LEMMA RestoreStep ==
    ASSUME IndInv, restore_session
    PROVE  IndInv'
<1>1. Spawn(stored) /\ stored \subseteq NamesOf(menu) /\ check_mcp_specs(menu)
  BY DEF restore_session, IndInv, Asked
<1> QED BY <1>1, SpawnStep DEF restore_session

LEMMA ReportStep ==
    ASSUME IndInv, NEW n \in todo, n \notin DOMAIN reported, NEW how \in Verdicts,
           report(n, how), pi \in {"load", "start"}, todo' = todo \ {n},
           UNCHANGED <<menu, stored, adapter, refuses, pi, markers, gate, late, outcome, named, deaths>>
    PROVE  IndInv'
<1>0. /\ n \in Names /\ n \in NamesOf(menu) /\ TypeInv /\ Faithful /\ <<how, n>> \in Lines
      /\ \A k \in DOMAIN reported : reported[k] \in Verdicts
      /\ DOMAIN reported \subseteq Names
  BY DEF IndInv, TypeInv, TypeOK, Asked, Verdicts, Lines
<1>1. /\ DOMAIN reported' = DOMAIN reported \cup {n}
      /\ reported'[n] = how /\ \A k \in DOMAIN reported : reported'[k] = reported[k]
      /\ stderr' = Append(stderr, <<how, n>>) /\ markers' = markers
  BY DEF report
<1>2. stderr \in Seq(Lines) /\ stderr' \in Seq(Lines) /\ markers' \in Seq(Lines)
  BY <1>0, <1>1 DEF TypeInv
<1>3. TypeInv'
  BY <1>0, <1>1, <1>2 DEF TypeInv, TypeOK, Verdicts
<1>4. \A i \in DOMAIN stderr : stderr[i][2] \in DOMAIN reported' /\ reported'[stderr[i][2]] = stderr[i][1]
  BY <1>0, <1>1 DEF Faithful, Says
<1>5. Says(stderr)' 
  <2>1. DOMAIN stderr' = 1..(Len(stderr) + 1) /\ DOMAIN stderr = 1..Len(stderr) /\ Len(stderr) \in Nat
    BY <1>1, <1>2
  <2>2. \A i \in 1..Len(stderr) : stderr'[i] = stderr[i]
    BY <1>1, <1>2
  <2>3. stderr'[Len(stderr) + 1] = <<how, n>>
    BY <1>1, <1>2
  <2>4. \A i \in 1..(Len(stderr) + 1) : i \in 1..Len(stderr) \/ i = Len(stderr) + 1
    BY <2>1
  <2> QED BY <1>1, <1>4, <2>1, <2>2, <2>3, <2>4 DEF Says
<1>6. Says(markers)'
  BY <1>0, <1>1 DEF Faithful, Says
<1>7. Asked' /\ Dead'
  BY <1>0, <1>1 DEF IndInv, Asked, Dead, NamesOf, check_mcp_specs, normalize_mcp_servers
<1>8. outcome' \notin {"failed", "pending"}
  BY DEF IndInv, Dead
<1> QED BY <1>3, <1>5, <1>6, <1>7, <1>8 DEF IndInv, Faithful, FailureNamesExactly, PendingAreAsked

LEMMA RegisterStep ==
    ASSUME IndInv, NEW n \in Names, registerOne(n)
    PROVE  IndInv'
<1>0. /\ n \in todo /\ pi \in {"load", "start"} /\ todo' = todo \ {n}
      /\ UNCHANGED <<menu, stored, adapter, refuses, pi, markers, gate, late, outcome, named, deaths>>
  BY DEF registerOne
<1>1. \/ UNCHANGED <<reported, stderr>>
      \/ n \notin DOMAIN reported /\ \E how \in Verdicts : report(n, how)
  <2>1. CASE n \in DOMAIN reported \/ (adapter # "before" /\ pi = "load")
    BY <2>1 DEF registerOne
  <2>2. CASE n \notin DOMAIN reported /\ (adapter = "before" \/ (adapter = "after" /\ pi = "start"))
    <3>1. report(n, IF n \in refuses THEN "bad" ELSE "ok")
      BY <2>2 DEF registerOne
    <3> QED BY <2>2, <3>1 DEF Verdicts
  <2>3. CASE n \notin DOMAIN reported /\ adapter = "absent" /\ pi = "start"
    <3>1. report(n, "bad")
      BY <2>3 DEF registerOne
    <3> QED BY <2>3, <3>1 DEF Verdicts
  <2>4. adapter \in {"before", "after", "absent"}
    BY DEF IndInv, TypeInv
  <2> QED BY <1>0, <2>1, <2>2, <2>3, <2>4
<1>2. CASE UNCHANGED <<reported, stderr>>
  <2>1. TypeInv' /\ Faithful'
    BY <1>0, <1>2 DEF IndInv, TypeInv, TypeOK, Faithful, Says
  <2>2. Asked' /\ Dead'
    BY <1>0, <1>2 DEF IndInv, Asked, Dead, NamesOf, check_mcp_specs, normalize_mcp_servers
  <2> QED BY <1>0, <1>2, <2>1, <2>2 DEF IndInv, Dead, FailureNamesExactly, PendingAreAsked
<1> QED BY <1>0, <1>1, <1>2, ReportStep

LEMMA SessionStartStep ==
    ASSUME IndInv, SessionStart
    PROVE  IndInv'
<1>0. /\ pi \in {"load", "start"} /\ pi' \in {"start", "up"}
      /\ todo' = {} \/ todo' = Requested
      /\ UNCHANGED <<menu, stored, adapter, refuses, reported, stderr, markers, gate, late, outcome,
                     named, deaths>>
  BY DEF SessionStart, Requested
<1>1. Requested = NamesOf(menu) /\ NamesOf(menu) \subseteq Names
  BY <1>0, RequestedIsMenu DEF IndInv
<1>2. TypeInv' /\ Faithful'
  BY <1>0, <1>1 DEF IndInv, TypeInv, TypeOK, Faithful, Says
<1>3. Asked' /\ Dead'
  BY <1>0, <1>1 DEF IndInv, Asked, Dead, NamesOf, check_mcp_specs, normalize_mcp_servers
<1> QED BY <1>0, <1>2, <1>3 DEF IndInv, Dead, FailureNamesExactly, PendingAreAsked

LEMMA PiDiesStep ==
    ASSUME IndInv, PiDies
    PROVE  IndInv'
<1>0. /\ pi \in {"load", "start", "up"} /\ pi' = "dead" /\ todo' = {} /\ deaths' = deaths + 1
      /\ UNCHANGED <<menu, stored, adapter, refuses, reported, stderr, markers, gate, late, outcome, named>>
      /\ deaths \in Nat
  BY DEF PiDies, IndInv, TypeInv
<1>1. deaths' \in Nat /\ deaths' > 0
  BY <1>0
<1>2. TypeInv' /\ Faithful'
  BY <1>0, <1>1 DEF IndInv, TypeInv, TypeOK, Faithful, Says
<1>3. Asked' /\ Dead'
  BY <1>0, <1>1 DEF IndInv, Asked, Dead, NamesOf, check_mcp_specs, normalize_mcp_servers
<1> QED BY <1>0, <1>1, <1>2, <1>3 DEF IndInv, Dead, FailureNamesExactly, PendingAreAsked

LEMMA StderrStep ==
    ASSUME IndInv, stderr_loop
    PROVE  IndInv'
<1>0. /\ stderr # <<>> /\ stderr' = Tail(stderr)
      /\ markers' = IF Len(markers) < Cap THEN Append(markers, Head(stderr)) ELSE markers
      /\ UNCHANGED <<menu, stored, adapter, refuses, pi, todo, reported, gate, late, outcome, named, deaths>>
      /\ stderr \in Seq(Lines) /\ markers \in Seq(Lines) /\ Says(stderr) /\ Says(markers)
      /\ Len(markers) <= Cap /\ Cap \in Nat
  BY McpAssumption DEF stderr_loop, IndInv, TypeInv, TypeOK, Faithful
<1>1. /\ Head(stderr) \in Lines /\ stderr' \in Seq(Lines) /\ Says(Tail(stderr))
      /\ Head(stderr)[2] \in DOMAIN reported /\ reported[Head(stderr)[2]] = Head(stderr)[1]
  BY <1>0, HeadTail
<1>2. markers' \in Seq(Lines) /\ Len(markers') <= Cap
  BY <1>0, <1>1
<1>3. Says(stderr')
  BY <1>0, <1>1
<1>4. Says(markers')
  BY <1>0, <1>1, AppendSays
<1>5. TypeInv'
  BY <1>0, <1>1, <1>2 DEF IndInv, TypeInv, TypeOK
<1>6. Faithful'
  BY <1>0, <1>3, <1>4 DEF Faithful, Says
<1>7. Asked' /\ Dead'
  BY <1>0 DEF IndInv, Asked, Dead, NamesOf, check_mcp_specs, normalize_mcp_servers
<1> QED BY <1>0, <1>5, <1>6, <1>7 DEF IndInv, FailureNamesExactly, PendingAreAsked, NamesOf

LEMMA DeadlineStep ==
    ASSUME IndInv, Deadline
    PROVE  IndInv'
<1>0. /\ late' = TRUE
      /\ UNCHANGED <<menu, stored, adapter, refuses, pi, todo, reported, stderr, markers, gate, outcome,
                     named, deaths>>
  BY DEF Deadline
<1>1. TypeInv' /\ Faithful'
  BY <1>0 DEF IndInv, TypeInv, TypeOK, Faithful, Says
<1>2. Asked' /\ Dead'
  BY <1>0 DEF IndInv, Asked, Dead, NamesOf, check_mcp_specs, normalize_mcp_servers
<1> QED BY <1>0, <1>1, <1>2 DEF IndInv, FailureNamesExactly, PendingAreAsked, NamesOf

-------------------------------------------------------------------------------
LEMMA InitInv == Init => IndInv
<1> SUFFICES ASSUME Init PROVE IndInv
  OBVIOUS
<1>1. /\ stderr = <<>> /\ markers = <<>> /\ DOMAIN reported = {} /\ deaths = 0 /\ late = FALSE
  BY DEF Init
<1>2. stderr \in Seq(Lines) /\ markers \in Seq(Lines) /\ Len(markers) = 0
      /\ DOMAIN stderr = {} /\ DOMAIN markers = {}
  BY <1>1
<1>3. TypeInv
  <2>1. Len(markers) <= Cap
    BY <1>2, CapIsNat
  <2>2. /\ menu \in Menus /\ stored \subseteq Names /\ todo \subseteq Names
        /\ pi = "off" /\ gate = "off" /\ outcome = "none" /\ named \subseteq Names
    BY DEF Init
  <2>3. DOMAIN reported \subseteq Names /\ \A n \in DOMAIN reported : reported[n] \in {"ok", "bad"}
    BY <1>1
  <2>4. deaths \in Nat /\ late \in BOOLEAN
    BY <1>1
  <2>5. adapter \in {"before", "after", "absent"}
    BY DEF Init
  <2> QED BY <1>2, <2>1, <2>2, <2>3, <2>4, <2>5 DEF TypeInv, TypeOK
<1>4. Faithful
  BY <1>2 DEF Faithful, Says
<1> QED BY <1>1, <1>3, <1>4 DEF Init, IndInv, Asked, Dead, FailureNamesExactly, PendingAreAsked

LEMMA NextInv == IndInv /\ [Next]_vars => IndInv'
<1> SUFFICES ASSUME IndInv, [Next]_vars PROVE IndInv'
  OBVIOUS
<1>1. CASE UNCHANGED vars
  <2>1. TypeInv' /\ Faithful'
    BY <1>1 DEF vars, IndInv, TypeInv, TypeOK, Faithful, Says
  <2>2. Asked' /\ Dead'
    BY <1>1 DEF vars, IndInv, Asked, Dead, NamesOf, check_mcp_specs, normalize_mcp_servers
  <2> QED BY <1>1, <2>1, <2>2 DEF vars, IndInv, FailureNamesExactly, PendingAreAsked, NamesOf
<1>2. CASE Next
  BY <1>2, NewSessionStep, RestoreStep, SessionStartStep, RegisterStep, PiDiesStep, StderrStep,
     GateStep, DeadlineStep DEF Next, Registrar
<1> QED BY <1>1, <1>2

LEMMA Inductive == Spec => []IndInv
BY InitInv, NextInv, PTL DEF Spec

\* The gate's and the registrar's state keep their types, and the markers their
\* bound (mcp.rs, McpSessionManager; process.rs, the stderr reader).
THEOREM TypeCorrect == Spec => []TypeOK
<1>1. IndInv => TypeOK
  BY DEF IndInv, TypeInv
<1> QED BY <1>1, Inductive, PTL

\* failure_message: an error names servers that the registrar reported as failed,
\* all of them unless the deadline passed or pi died.
THEOREM FailuresAreNamed == Spec => []FailureNamesExactly
<1>1. IndInv => FailureNamesExactly
  BY DEF IndInv
<1> QED BY <1>1, Inductive, PTL

\* The servers a timeout names are servers the client asked for.
THEOREM PendingHolds == Spec => []PendingAreAsked
<1>1. IndInv => PendingAreAsked
  BY DEF IndInv
<1> QED BY <1>1, Inductive, PTL

\* gate_mcp_registered: a session opens, first or again, only when the registrar of
\* that pi registered every server the client asked for; for any menu, any bound on
\* the markers, any deaths, and whether or not the pump is still there.
THEOREM OpenIsEarned == Spec => OpenMeansAll
<1> DEFINE Earned == outcome' = "open" /\ outcome # "open" =>
              \A n \in NamesOf(menu) : n \in DOMAIN reported /\ reported[n] = "ok"
<1>1. ASSUME IndInv, [Next]_vars, outcome' = "open", outcome # "open"
      PROVE  gate_mcp_registered \/ PumpGone
  BY <1>1 DEF Next, NewSession, restore_session, Spawn, Registrar, SessionStart, registerOne,
              PiDies, stderr_loop, Deadline, vars
<1>2. IndInv /\ [Next]_vars => [Earned]_vars
  BY <1>1, GateStep
<1> QED BY <1>2, Inductive, PTL DEF Spec, OpenMeansAll

\* Both verdicts of gate_mcp_registered: what is open is whole, and an error names
\* servers that failed.
THEOREM GateHonest == Spec => GateIsHonest
BY OpenIsEarned, FailuresAreNamed, PTL DEF GateIsHonest
===============================================================================

----------------------------- MODULE SessionListing -----------------------------
(* session/list over pi's session files.  Every page reads the directory anew, *)
(* keeps the sessions of one project, sorts them by their last activity and    *)
(* returns the slice that starts at the cursor, an offset.  Between two pages  *)
(* pi may write to a session, and sessions come and go.                        *)
EXTENDS Integers, Sequences, FiniteSets, SequencesExt, FiniteSetsExt, Subsequences

CONSTANTS
    Sessions,   \* ids; each has one file
    Cwds,       \* projects
    LIST_PAGE_SIZE,
    Naive,      \* whether pi may write a timestamp without a zone
    Explicit,   \* the client names the project with every page
    Deletes,    \* whether sessions are deleted
    Clock,      \* bound: how many lines are written
    Memory      \* bound: how many of the sessions it is given the client remembers

ListingAssumption ==
    /\ LIST_PAGE_SIZE \in Nat \ {0} /\ {Clock, Memory} \subseteq Nat
    /\ IsFiniteSet(Sessions)
    /\ Naive \in BOOLEAN /\ Explicit \in BOOLEAN /\ Deletes \in BOOLEAN

VARIABLES
    files,      \* id -> [cwd, mtime, lines]: the lines after the header, [kind, at, zone]
    last_cwd,   \* last_session_cwd
    now,
    walk,       \* the client's listing: [pc, cwd, cursor]
    seen,       \* the sessions of its pages, in order
    touched,    \* ghost: the sessions written to since the walk began
    deleted     \* ghost: one was deleted since then
vars == <<files, last_cwd, now, walk, seen, touched, deleted>>

Line(kind, zone) == [kind |-> kind, at |-> now + 1, zone |-> zone]
Existing == DOMAIN files

\* The last line with a usable timestamp: of the messages, else of all; else the file's time.
Messages(ls) == {i \in DOMAIN ls : ls[i].kind = "message"}
Zoned(ls) == {i \in DOMAIN ls : ls[i].zone}
LastOf(ls, hits) == IF hits = {} THEN 0 ELSE ls[Max(hits)].at
pick_updated_at(id) ==
    LET ls      == files[id].lines
        message == LastOf(ls, Messages(ls) \cap Zoned(ls))
        any     == LastOf(ls, Zoned(ls))
    IN  IF message # 0 THEN message ELSE IF any # 0 THEN any ELSE files[id].mtime

\* Most recently active first: the latest time is the first session's.
list_pi_sessions_from ==
    LET times == {pick_updated_at(id) : id \in Existing}
        n     == Cardinality(times)
    IN  [i \in 1 .. n |-> CHOOSE id \in Existing : pick_updated_at(id) = Nth(times, n + 1 - i)]

\* A page.
Of(cwd) == LET all == list_pi_sessions_from
           IN  Subsequence(all, {i \in DOMAIN all : files[all[i]].cwd = cwd})
Page(all, offset) == SubSeq(all, offset + 1, Min({offset + LIST_PAGE_SIZE, Len(all)}))
HasNext_Boundary(all, offset) == offset + LIST_PAGE_SIZE <= Len(all)
HasNext(all, offset) == offset + LIST_PAGE_SIZE < Len(all)
NextOffset(offset) == offset + LIST_PAGE_SIZE

Init ==
    /\ \E cwds \in [Sessions -> Cwds], there \in SUBSET Sessions, at \in [Sessions -> 1 .. Cardinality(Sessions)] :
          /\ \A j, k \in Sessions : at[j] = at[k] => j = k
          /\ files = [id \in there |-> [cwd |-> cwds[id], mtime |-> at[id],
                                        lines |-> <<[kind |-> "message", at |-> at[id], zone |-> TRUE]>>]]
    /\ last_cwd \in Cwds /\ now = Cardinality(Sessions)
    /\ walk = [pc |-> "idle", cwd |-> "none", cursor |-> 0] /\ seen = <<>>
    /\ touched = {} /\ deleted = FALSE

\* session/list: the first page, then one for each cursor.  Without a cwd the last session's is taken.
handle_list_sessions ==
    /\ walk.pc \in {"idle", "more"}
    /\ \E cwd \in IF Explicit /\ walk.pc = "more" THEN {walk.cwd} ELSE IF Explicit THEN Cwds ELSE {last_cwd} :
          LET all == Of(cwd)
          IN  /\ LET got == seen \o Page(all, walk.cursor)
                 IN  seen' = SubSeq(got, 1, Min({Len(got), Memory}))
              /\ walk' = [pc |-> IF HasNext(all, walk.cursor) THEN "more" ELSE "done", cwd |-> cwd,
                          cursor |-> IF HasNext(all, walk.cursor) THEN NextOffset(walk.cursor) ELSE 0]
    /\ touched' = IF walk.pc = "idle" THEN {} ELSE touched
    /\ deleted' = (walk.pc # "idle" /\ deleted)
    /\ UNCHANGED <<files, last_cwd, now>>

\* (external) pi writes to a session: a message, or a line of another kind.
PiWrites(id) ==
    /\ now < Cardinality(Sessions) + Clock
    /\ now' = now + 1 /\ touched' = touched \cup {id}
    /\ \E kind \in {"message", "other"}, zone \in IF Naive THEN BOOLEAN ELSE {TRUE} :
          files' = [files EXCEPT ![id] = [cwd |-> files[id].cwd, mtime |-> now + 1,
                                          lines |-> Append(files[id].lines, Line(kind, zone))]]
    /\ UNCHANGED <<last_cwd, walk, seen, deleted>>

\* A new session of a project, which becomes the last one.
NewSession(id) ==
    /\ id \notin Existing /\ now < Cardinality(Sessions) + Clock
    /\ now' = now + 1 /\ touched' = touched \cup {id}
    /\ \E cwd \in Cwds :
          /\ files' = [k \in Existing \cup {id} |->
                          IF k = id THEN [cwd |-> cwd, mtime |-> now + 1, lines |-> <<Line("message", TRUE)>>]
                                    ELSE files[k]]
          /\ last_cwd' = cwd
    /\ UNCHANGED <<walk, seen, deleted>>

DeleteSession(id) ==
    /\ Deletes
    /\ files' = [k \in Existing \ {id} |-> files[k]]
    /\ deleted' = TRUE
    /\ UNCHANGED <<last_cwd, now, walk, seen, touched>>

Next ==
    \/ handle_list_sessions
    \/ \E id \in Sessions : NewSession(id) \/ (id \in Existing /\ (PiWrites(id) \/ DeleteSession(id)))
Spec == Init /\ [][Next]_vars

-------------------------------------------------------------------------------
Done == walk.pc = "done"
Quiet == touched = {} /\ ~deleted

\* The files and the client's walk.
TypeOK ==
    /\ Existing \subseteq Sessions /\ touched \subseteq Sessions /\ Range(seen) \subseteq Sessions
    /\ \A id \in Existing : files[id].cwd \in Cwds /\ files[id].mtime <= now
    /\ walk.pc \in {"idle", "more", "done"} /\ walk.cursor % LIST_PAGE_SIZE = 0

\* handle_list_sessions: with nothing written or deleted the pages are the project's sessions, each
\* once and in the order of one listing.
PagesAreTheList == Done /\ Quiet => seen = Of(walk.cwd)

\* handle_list_sessions: whatever is written or created meanwhile, a session that was left alone is
\* in one of the pages, unless another was deleted.
UntouchedAreListed ==
    Done /\ ~deleted => \A id \in Existing \ touched : files[id].cwd = walk.cwd => id \in Range(seen)

\* next_cursor: a page that was promised is not empty unless a session was deleted.
NoEmptyPage == walk.pc = "more" /\ ~deleted /\ Explicit => Page(Of(walk.cwd), walk.cursor) # <<>>

\* list_pi_sessions: the session whose last message is the most recent comes first.
MostRecentFirst ==
    LET all == list_pi_sessions_from
        At(id) == LastOf(files[id].lines, Messages(files[id].lines))
    IN  \A i \in DOMAIN all : \A j \in 1 .. i - 1 : At(all[j]) > At(all[i])

\* handle_list_sessions: the pages of one listing are of one project.
OneProject == \A i, j \in DOMAIN seen :
                  seen[i] \in Existing /\ seen[j] \in Existing => files[seen[i]].cwd = files[seen[j]].cwd

\* A walk over the pages shows the list, whole and newest first, though sessions are written and
\* created meanwhile (handle_list_sessions_params, pick_updated_at_from_tail).
ListingIsFaithful ==
    TypeOK /\ PagesAreTheList /\ UntouchedAreListed /\ NoEmptyPage /\ MostRecentFirst
================================================================================

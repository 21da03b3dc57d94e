------------------------------- MODULE Requests --------------------------------
(* What becomes of a client's requests: the messages and the response of its     *)
(* prompts (this module's own variables), the model and thinking level it sets,  *)
(* the prompts that are slash commands, the sessions it lists, and the times it  *)
(* is told.  They share no state: `part` picks one at the start, the others stay *)
(* as they begin.                                                                *)
EXTENDS MessageStream, Integers

CONSTANTS
    Parts,      \* the parts that are picked from
    Models, Map, Window, Enabled, First, Targets, Protocols, PiMoves, Lossy,
    MaxSets, MaxMoves, MaxUsage,                \* config
    Names, Bodies, Builtins, Lists, Dirs, Roots, Ways,                      \* commands
    Sessions, Cwds, LIST_PAGE_SIZE, Naive, Explicit, Deletes, Clock, Memory,   \* listing
    Low, High, Looked, DAY, Times, Offsets      \* calendar

VARIABLES
    part,
    protocol, truth, levels, handler, stamp, recent, window, reading, outbound, mode,
    options, usage, been, silent, sets, moves, reports,                      \* config
    way, list, cache, task, got, menu, changes,                             \* commands
    files, last_cwd, now, walk, seen, touched, deleted,                     \* listing
    year, month, day, days                                                  \* calendar

configVars == <<protocol, truth, levels, handler, stamp, recent, window, reading, outbound,
                mode, options, usage, been, silent, sets, moves, reports>>
slashVars == <<way, list, cache, task, got, menu, changes>>
listingVars == <<files, last_cwd, now, walk, seen, touched, deleted>>
calendarVars == <<year, month, day, days>>
requestVars == <<part, vars, configVars, slashVars, listingVars, calendarVars>>

Config == INSTANCE SessionConfig WITH pi <- truth, events <- levels, shown <- options, was <- been
Slash == INSTANCE SlashCommands
Listing == INSTANCE SessionListing
Calendars == INSTANCE Calendar

ASSUME RequestsAssumption ==
    /\ Config!ConfigAssumption /\ Slash!SlashAssumption
    /\ Listing!ListingAssumption /\ Calendars!CalendarAssumption

-----------------------------------------------------------------------------
\* A part that is not picked begins in one way.
RequestsInit ==
    /\ part \in Parts
    /\ Init
    /\ Config!Init /\ (part = "config" \/ protocol = CHOOSE p \in Protocols : TRUE)
    /\ Slash!Init
    /\ part = "commands" \/ (way = (CHOOSE w \in Ways : TRUE) /\ list = CHOOSE l \in Lists : TRUE)
    /\ Listing!Init
    /\ part = "listing" \/ (files = <<>> /\ last_cwd = CHOOSE c \in Cwds : TRUE)
    /\ Calendars!Init

RequestsNext ==
    \/ part = "stream" /\ Next /\ UNCHANGED <<part, configVars, slashVars, listingVars, calendarVars>>
    \/ part = "config" /\ Config!Next /\ UNCHANGED <<part, vars, slashVars, listingVars, calendarVars>>
    \/ part = "commands" /\ Slash!Next /\ UNCHANGED <<part, vars, configVars, listingVars, calendarVars>>
    \/ part = "listing" /\ Listing!Next /\ UNCHANGED <<part, vars, configVars, slashVars, calendarVars>>
    \/ part = "calendar" /\ Calendars!Next /\ UNCHANGED <<part, vars, configVars, slashVars, listingVars>>

RequestsSpec == RequestsInit /\ [][RequestsNext]_requestVars

-----------------------------------------------------------------------------
\* What the client shows of model, level and window is pi's (session config handlers).
ShownIsPis == part = "config" => Config!ShownIsPis
\* Prompts and the menu agree on what a slash command is (handle_prompt, get_commands).
CommandsAgree == part = "commands" => Slash!CommandsAgree
\* The pages are the list, each session once (handle_list_sessions_params).
ListingIsFaithful == part = "listing" => Listing!ListingIsFaithful
\* Timestamps are the calendar's and keep the order (sessions.rs, days_from_civil).
TimesAreTrue == part = "calendar" => Calendars!TimesAreTrue
================================================================================

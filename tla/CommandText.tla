----------------------------- MODULE CommandText -----------------------------
(* The text of a file command: its arguments are split at blanks and quotes,   *)
(* and its template is filled with them.  A user writes a line and a template  *)
(* character by character, and what they mean is kept beside what they wrote.  *)
EXTENDS Integers, Sequences, SequencesExt

CONSTANTS
    Letters,    \* characters of templates
    Chars,      \* characters of arguments
    MaxLine,    \* bound: characters of the line
    MaxBody,    \* bound: pieces of the template
    Empties,    \* the user may write an empty quoted argument
    Zeros       \* the author may write $0

\* A blank is "blank", a dollar sign "dollar", and so on; every other character is itself.
Digits == {"0", "1", "2"}
Quotes == {"single", "double"}
Others == {"blank", "dollar", "at"} \cup Quotes \cup Digits

TextAssumption ==
    /\ Letters \cap (Others \cup {"all", "10"}) = {} /\ Chars \cap ({"blank", "none"} \cup Quotes) = {}
    /\ MaxLine \in Nat /\ MaxBody \in Nat /\ Empties \in BOOLEAN /\ Zeros \in BOOLEAN

Value == [c \in Digits |-> CASE c = "0" -> 0 [] c = "1" -> 1 [] c = "2" -> 2]

VARIABLES
    line,       \* the arguments as written
    meant,      \* the arguments the user means, without the one being written
    word,       \* that argument
    within,     \* the quote the user is within, or "none"
    begun,      \* an argument is being written
    body,       \* the template as written
    filled,     \* the template's pieces: a letter, "dollar", "all" or a number
    slots       \* the template is being written
vars == <<line, meant, word, within, begun, body, filled, slots>>

-------------------------------------------------------------------------------
\* parse_command_args: the loop, a character at a time.
Fresh == [args |-> <<>>, current |-> <<>>, in_quote |-> "none"]
Flush(s) ==
    IF s.current = <<>> THEN s
    ELSE [args |-> Append(s.args, s.current), current |-> <<>>, in_quote |-> s.in_quote]
Push(s, ch) == [args |-> s.args, current |-> Append(s.current, ch), in_quote |-> s.in_quote]
Quote(s, quote) == [args |-> s.args, current |-> s.current, in_quote |-> quote]
Feed_AnyQuote(s, ch) ==
    CASE s.in_quote # "none" /\ ch \in Quotes          -> Quote(s, "none")
      [] s.in_quote # "none" /\ ch \notin Quotes       -> Push(s, ch)
      [] s.in_quote = "none" /\ ch \in Quotes          -> Quote(s, ch)
      [] s.in_quote = "none" /\ ch = "blank"               -> Flush(s)
      [] s.in_quote = "none" /\ ch \notin Quotes \cup {"blank"} -> Push(s, ch)
Feed(s, ch) ==
    CASE s.in_quote # "none" /\ ch = s.in_quote        -> Quote(s, "none")
      [] s.in_quote # "none" /\ ch # s.in_quote        -> Push(s, ch)
      [] s.in_quote = "none" /\ ch \in Quotes          -> Quote(s, ch)
      [] s.in_quote = "none" /\ ch = "blank"               -> Flush(s)
      [] s.in_quote = "none" /\ ch \notin Quotes \cup {"blank"} -> Push(s, ch)
parse_command_args(text) ==
    LET Fed[n \in 0 .. Len(text)] == IF n = 0 THEN Fresh ELSE Feed(Fed[n - 1], text[n])
    IN  Flush(Fed[Len(text)]).args

\* substitute_args: `$@` everywhere.  A dollar sign is held back until the next character is known.
Joined(args) == FlattenSeq([i \in DOMAIN args |-> IF i = 1 THEN args[i] ELSE <<"blank">> \o args[i]])
Released(s) == IF s.held THEN Append(s.done, "dollar") ELSE s.done
Replace(s, ch, args) ==
    CASE s.held /\ ch = "at" -> [done |-> s.done \o Joined(args), held |-> FALSE]
      [] ch = "dollar"       -> [done |-> Released(s), held |-> TRUE]
      [] OTHER               -> [done |-> Append(Released(s), ch), held |-> FALSE]
AllArguments(text, args) ==
    LET Replaced[n \in 0 .. Len(text)] ==
            IF n = 0 THEN [done |-> <<>>, held |-> FALSE] ELSE Replace(Replaced[n - 1], text[n], args)
    IN  Released(Replaced[Len(text)])

\* Then `$N` from left to right over what that gave: a dollar sign and the digits behind it.  The
\* index is one less than the number, and zero for zero too.
Positional(args, number) ==
    LET index == IF number = 0 THEN 1 ELSE number
    IN  IF index \in DOMAIN args THEN args[index] ELSE <<>>
Settled(s, args) ==
    CASE s.after = "text"   -> s.done
      [] s.after = "dollar" -> Append(s.done, "dollar")
      [] s.after = "digits" -> s.done \o Positional(args, s.number)
Substitute(s, ch, args) ==
    CASE ch \in Digits /\ s.after # "text" -> [done |-> s.done, after |-> "digits", number |-> s.number * 10 + Value[ch]]
      [] ch = "dollar" -> [done |-> Settled(s, args), after |-> "dollar", number |-> 0]
      [] OTHER         -> [done |-> Append(Settled(s, args), ch), after |-> "text", number |-> 0]
substitute_args(content, args) ==
    LET text == AllArguments(content, args)
        Substituted[n \in 0 .. Len(text)] ==
            IF n = 0 THEN [done |-> <<>>, after |-> "text", number |-> 0]
            ELSE Substitute(Substituted[n - 1], text[n], args)
    IN  Settled(Substituted[Len(text)], args)

\* expand_slash_command, for a command that is known.
expand_slash_command == substitute_args(body, parse_command_args(line))

-------------------------------------------------------------------------------
Init ==
    /\ line = <<>> /\ meant = <<>> /\ word = <<>> /\ within = "none" /\ begun = FALSE
    /\ body = <<>> /\ filled = <<>> /\ slots = FALSE

\* A shell takes a pair of quotes with nothing in it for an argument.
Complete == begun => word # <<>> \/ (Empties /\ within = "none")

\* The user's line: a character of a word, a quote that opens or closes, a blank.
Write(ch) ==
    /\ ~slots /\ Len(line) < MaxLine
    /\ line' = Append(line, ch)
    /\ CASE ch \in Quotes /\ within = "none" -> within' = ch /\ begun' = TRUE /\ UNCHANGED <<meant, word>>
         [] ch = within -> within' = "none" /\ UNCHANGED <<meant, word, begun>>
         [] ch = "blank" /\ within = "none" -> /\ Complete
                                               /\ meant' = IF begun THEN Append(meant, word) ELSE meant
                                               /\ word' = <<>> /\ begun' = FALSE /\ UNCHANGED within
         [] OTHER -> word' = Append(word, ch) /\ begun' = TRUE /\ UNCHANGED <<meant, within>>
    /\ UNCHANGED <<body, filled, slots>>

\* The author's template: a letter, a dollar, the arguments, or one of them by its number.
Numbers == IF Zeros THEN {"0", "1", "2", "10"} ELSE {"1", "2", "10"}
Pieces == Numbers \cup Letters \cup {"dollar", "all"}
Written == [what \in Pieces |-> CASE what = "all" -> <<"dollar", "at">>
                                  [] what = "10"  -> <<"dollar", "1", "0">>
                                  [] what \in Digits -> <<"dollar", what>>
                                  [] what \in Letters \cup {"dollar"} -> <<what>>]
Compose(what) ==
    /\ Complete /\ Len(filled) < MaxBody
    /\ slots' = TRUE /\ body' = body \o Written[what] /\ filled' = Append(filled, what)
    /\ UNCHANGED <<line, meant, word, within, begun>>

Next == \/ \E ch \in Chars \cup Quotes \cup {"blank"} : Write(ch)
        \/ \E what \in Pieces : Compose(what)
Spec == Init /\ [][Next]_vars

-------------------------------------------------------------------------------
\* parse_command_args: the arguments are those a shell's user means by the line, of which quotes
\* may join or part the blanks.
Intended == IF begun THEN Append(meant, word) ELSE meant
ArgsAreMeant == Complete => parse_command_args(line) = Intended

\* substitute_args: each piece of the template stands for itself, for all arguments or for one of
\* them, and a missing one for nothing; only arguments that `$@` puts in are looked at again.
Index(what) == CASE what = "1" -> 1 [] what = "2" -> 2 [] what = "10" -> 10 [] what = "0" -> 0
Stands(what) == CASE what = "all" -> Joined(Intended)
                  [] what \in Numbers -> IF Index(what) \in DOMAIN Intended THEN Intended[Index(what)] ELSE <<>>
                  [] what \in Letters \cup {"dollar"} -> <<what>>
TemplateIsFilled ==
    ("all" \in Range(filled) => \A i \in DOMAIN Intended : Range(Intended[i]) \cap Digits = {})
    => expand_slash_command = FlattenSeq([i \in DOMAIN filled |-> Stands(filled[i])])

\* The arguments are those the user quoted, and each stands where the template's author put it
\* (parse_command_args, substitute_args).
TextIsMeant == ArgsAreMeant /\ TemplateIsFilled
===============================================================================

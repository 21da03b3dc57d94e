---------------------------- MODULE ModelPatterns ----------------------------
(* enabledModels: the glob patterns that say which models a session offers.    *)
(* An author writes a pattern piece by piece, and a model's id is any text;    *)
(* what the matcher says of the two is compared with what the pieces mean.     *)
EXTENDS Integers, Sequences, SequencesExt, FiniteSets

CONSTANTS
    Alphabet,   \* the characters of ids, a sequence in the order of the characters
    Provider,   \* the provider of the model: a sequence of characters
    Pieces,     \* the pieces the author uses
    MaxPieces,  \* bound: pieces of the pattern
    MaxId       \* bound: characters of the id

\* A star is "star", a question mark "question", a bracket "open" or "close", and so on; "high"
\* stands for the word of a thinking level, which follows a colon.
Wild == {"some", "any"}
Classes == {"either", "range", "except"}
Kinds == {"some", "any", "one", "either", "range", "except", "quoted", "bracket"}
Written ==
    [what \in Pieces |-> CASE what = "some"    -> <<"star">>
                           [] what = "any"     -> <<"star", "star">>
                           [] what = "one"     -> <<"question">>
                           [] what = "either"  -> <<"open", "escape", "a", "b", "close">>
                           [] what = "range"   -> <<"open", "a", "dash", "c", "close">>
                           [] what = "except"  -> <<"open", "not", "a", "close">>
                           [] what = "quoted"  -> <<"escape", "star">>
                           [] what = "bracket" -> <<"open">>
                           [] what \notin Kinds -> <<what>>]

VARIABLES pattern, levelled, model_id
vars == <<pattern, levelled, model_id>>

-------------------------------------------------------------------------------
Characters == Range(Alphabet)
Place(c) == CHOOSE i \in DOMAIN Alphabet : Alphabet[i] = c
Between(first, last) == {c \in Characters : first \in Characters /\ last \in Characters
                                            /\ Place(first) <= Place(c) /\ Place(c) <= Place(last)}

\* From a to c there is nothing but a, b and c.
PatternAssumption ==
    /\ MaxPieces \in Nat /\ MaxId \in Nat
    /\ Alphabet \in Seq(Characters) /\ Characters \cap Kinds = {}
    /\ Pieces \subseteq Kinds \cup (Characters \ {"star", "question", "open", "escape", "high"})
    /\ Provider \in Seq(Characters) /\ Provider # <<>>
    /\ "range" \in Pieces => /\ {"a", "c"} \subseteq Characters
                             /\ Between("a", "c") = {"a", "b", "c"} \cap Characters

\* char_class_match: where the class at position i ends, or 0, and what it matches.
ClassEnd(p, i) == LET ends == {j \in i + 1 .. Len(p) : p[j] = "close"}
                  IN  IF ends = {} THEN 0 ELSE CHOOSE j \in ends : \A k \in ends : j <= k
Negated(p, i) == p[i + 1] \in {"not", "caret"}
ClassStart(p, i) == IF Negated(p, i) THEN i + 2 ELSE i + 1
Closed(p, i) == ClassEnd(p, i) # 0 /\ ClassStart(p, i) # ClassEnd(p, i)
Members(p, i) ==
    LET end == ClassEnd(p, i)
        From[at \in i + 1 .. end + 2] ==
            CASE at >= end -> {}
              [] at + 1 < end /\ p[at] = "escape" -> {p[at + 1]} \cup From[at + 2]
              [] at + 2 < end /\ p[at] # "escape" /\ p[at + 1] = "dash" -> Between(p[at], p[at + 2]) \cup From[at + 3]
              [] OTHER -> {p[at]} \cup From[at + 1]
    IN  From[ClassStart(p, i)]
char_class_match(p, i, c) == IF Negated(p, i) THEN c \notin Members(p, i) ELSE c \in Members(p, i)

\* glob_matches_at: where a star may go on, and whether one character fits.
Stars(p, i) == CHOOSE n \in 1 .. Len(p) - i + 1 :
                   /\ \A k \in 0 .. n - 1 : p[i + k] = "star"
                   /\ i + n > Len(p) \/ p[i + n] # "star"
Reach_Crosses(p, v, i, j) == Len(v) + 1
Reach(p, v, i, j) ==
    LET slashes == {k \in j .. Len(v) : v[k] = "slash"}
    IN  IF Stars(p, i) > 1 \/ slashes = {} THEN Len(v) + 1
        ELSE CHOOSE k \in slashes : \A l \in slashes : k <= l
Width(p, i) == CASE p[i] = "open" /\ Closed(p, i)   -> ClassEnd(p, i) - i + 1
                 [] p[i] = "escape" /\ i < Len(p) -> 2
                 [] OTHER                         -> 1
Fits(p, i, c) == CASE p[i] = "question"                -> c # "slash"
                   [] p[i] = "open" /\ Closed(p, i)    -> char_class_match(p, i, c)
                   [] p[i] = "escape" /\ i < Len(p)    -> c = p[i + 1]
                   [] OTHER                            -> c = p[i]
glob_matches(v, p) ==
    LET At[i \in 1 .. Len(p) + 1] == [j \in 1 .. Len(v) + 1 |->
            IF i > Len(p) THEN j > Len(v)
            ELSE IF p[i] = "star" THEN \E k \in j .. Reach(p, v, i, j) : At[i + Stars(p, i)][k]
            ELSE j <= Len(v) /\ Fits(p, i, v[j]) /\ At[i + Width(p, i)][j + 1]]
    IN  At[1][1]

Levelled(v) == Len(v) > 1 /\ v[Len(v)] = "high" /\ v[Len(v) - 1] = "colon"
strip_thinking_suffix(v) == IF Levelled(v) THEN SubSeq(v, 1, Len(v) - 2) ELSE v

Pattern == FlattenSeq([i \in DOMAIN pattern |-> Written[pattern[i]]])
           \o IF levelled THEN <<"colon", "high">> ELSE <<>>
model_matches_enabled_pattern ==
    LET model == strip_thinking_suffix(model_id)
        p == strip_thinking_suffix(Pattern)
    IN  /\ model # <<>> /\ p # <<>>
        /\ glob_matches(Provider \o <<"slash">> \o model, p) \/ glob_matches(model, p)

-------------------------------------------------------------------------------
Init == pattern = <<>> /\ levelled \in BOOLEAN /\ model_id = <<>>

\* The author's pattern: two stars in a row are one piece, and a bracket that stands for itself is
\* never closed.
Compose(what) ==
    /\ model_id = <<>> /\ Len(pattern) < MaxPieces
    /\ pattern # <<>> /\ Last(pattern) \in Wild => what \notin Wild
    /\ "bracket" \in Range(pattern) => what \notin Classes \cup {"close"}
    /\ pattern' = Append(pattern, what)
    /\ UNCHANGED <<levelled, model_id>>
\* The model's id.
Read(c) ==
    /\ Len(model_id) < MaxId /\ model_id' = Append(model_id, c)
    /\ UNCHANGED <<pattern, levelled>>

Next == (\E what \in Pieces : Compose(what)) \/ (\E c \in Characters : Read(c))
Spec == Init /\ [][Next]_vars

-------------------------------------------------------------------------------
\* What a piece stands for: a text.
Stands(what, text) ==
    CASE what = "some"    -> "slash" \notin Range(text)
      [] what = "any"     -> TRUE
      [] what = "one"     -> Len(text) = 1 /\ text # <<"slash">>
      [] what = "either"  -> text \in {<<"a">>, <<"b">>}
      [] what = "range"   -> text \in {<<"a">>, <<"b">>, <<"c">>}
      [] what = "except"  -> Len(text) = 1 /\ text # <<"a">>
      [] what = "quoted"  -> text = <<"star">>
      [] what = "bracket" -> text = <<"open">>
      [] what \notin Kinds -> text = <<what>>
\* The text can be cut so that each piece stands for its part.
Meant(text) ==
    LET n == Len(pattern)
    IN  \E cut \in [0 .. n -> 0 .. Len(text)] :
            /\ cut[0] = 0 /\ cut[n] = Len(text)
            /\ \A i \in 1 .. n : cut[i - 1] <= cut[i] /\ Stands(pattern[i], SubSeq(text, cut[i - 1] + 1, cut[i]))

\* model_matches_enabled_pattern: a pattern enables the models whose id, or id after the provider, it
\* describes, whatever thinking level either names.
PatternMeansIt ==
    LET levels == Len(model_id) > 1 /\ SubSeq(model_id, Len(model_id) - 1, Len(model_id)) = <<"colon", "high">>
        model == IF levels THEN SubSeq(model_id, 1, Len(model_id) - 2) ELSE model_id
    IN  pattern # <<>> /\ model # <<>> =>
            (model_matches_enabled_pattern <=> Meant(model) \/ Meant(Provider \o <<"slash">> \o model))
===============================================================================

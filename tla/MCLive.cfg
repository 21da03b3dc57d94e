\* A channel of one, a silent client, commands at once and one after another.
SPECIFICATION Spec
CONSTANTS
    t = t
    err = err
    n = n
    None = None
INVARIANTS
    ClientKnows
PROPERTIES
    SettledIsAnswered
    SilenceIsSurvived
    CommandsEnd
\* The turns are over, the requests answered, the commands served.
CHECK_DEADLOCK FALSE

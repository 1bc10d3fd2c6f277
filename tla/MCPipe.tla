------------------------------- MODULE MCPipe -------------------------------
(* A pipe, and programs that read from one in whatever pieces it gives     *)
(* them.  side says which of the two moves; they share no state.           *)
EXTENDS Pipe, Filters

Chars(S) == [char : S, star : BOOLEAN]
UpToTwoAtoms ==
    [start : BOOLEAN, end : BOOLEAN,
     atoms : {<<>>} \cup {<<x>> : x \in Chars({"a", "."})}
             \cup {<<x, y>> : x \in Chars({"a", "."}), y \in Chars({"a", "b"})}]

(* Several lines, empty ones, one without a newline, words that blanks     *)
(* part, and a line too long for a buffer of GREPBUF = 5.                  *)
SmallTexts ==
    {<<"a", "b", "nl", "b", "a", "nl">>, <<"nl", "a", "nl", "nl", "b">>,
     <<"a", "sp", "b", "nl", "sp", "a">>, <<"b", "nl", "a", "b", "a", "b", "nl">>}

VARIABLE side

NoFilter == Started("none", <<>>, <<>>)

MCInit ==
    /\ Init
    /\ \/ side = "pipe" /\ flt = NoFilter
       \/ side = "filter" /\ FiltersInit

MCNext ==
    \/ side = "pipe" /\ Next /\ UNCHANGED <<flt, side>>
    \/ side = "filter" /\ FiltersNext /\ UNCHANGED <<vars, side>>

MCSpec == MCInit /\ [][MCNext]_<<vars, flt, side>> /\ PipeFairness
=============================================================================

----------------------------- MODULE KeyValueFile -----------------------------
(***************************************************************************)
(* One key of a .env or .properties file is set to a secret, again and     *)
(* again: render_key_value in targets.rs.                                  *)
(*                                                                         *)
(* A file is a sequence of lines.  A line is a key and its value in one of *)
(* three forms, or something else: a comment, a blank.  To the program the *)
(* file is for, a value may go on in the next line (an open quote, a       *)
(* backslash at the end); render_key_value takes every line by itself.     *)
(*                                                                         *)
(* A value is the text that stands in the file.  A secret is encoded, in   *)
(* another way for each style: its text is the style with the secret, and  *)
(* what another program makes of that text is left open.                   *)
(***************************************************************************)
EXTENDS Naturals, Sequences, FiniteSets

CONSTANTS
    Keys,       \* keys a file may have
    Values,     \* what a line may hold
    Unfit,      \* secrets with a line end or a NUL in them
    Opening,    \* secrets whose quoting goes on in the next line to that program: it
                \* takes the backslash of an escaped quote literally
    MaxLines    \* bound: lines of a file before the first secret is written

ASSUME LinesAssumption == Unfit \subseteq Values /\ Opening \subseteq Values /\ MaxLines \in Nat

Styles == {"dotenv", "properties"}

VARIABLES
    style,      \* the style of the file, "none" before it is chosen
    lines,      \* its lines
    ended,      \* the last line has its line end
    written     \* the secret of the last call, and whether it was accepted

textVars == <<style, lines, ended, written>>

Nobody == [key |-> "", value |-> "", done |-> FALSE]
Found(value)   == [as |-> "found", of |-> value]
Encoded(value) == [as |-> style, of |-> value]
Other == [key |-> "", value |-> Found(""), form |-> "other", goesOn |-> FALSE]
Settings(texts) ==
    [key : Keys, value : texts, form : {"equals", "export", "space"}, goesOn : BOOLEAN]

TextInit ==
    /\ style = "none"
    /\ lines = <<>> /\ ended = TRUE
    /\ written = Nobody

-----------------------------------------------------------------------------
(* Plausible bugs: each replaces the definition it names, to show that the *)
(* properties notice.                                                      *)

AppendsToLastLine(line) ==                                  \* Appended
    IF ended \/ lines = <<>>
    THEN Append(lines, line)
    ELSE [lines EXCEPT ![Len(lines)] = [@ EXCEPT !.value = Found("run on")]]

-----------------------------------------------------------------------------
\* The key render_key_value finds in a line: behind "export " in a .env file, and
\* before a blank in a .properties file, where "export" is a key like any other.
Candidate(line) ==
    CASE line.form = "equals" -> line.key
      [] line.form = "export" -> IF style = "dotenv" THEN line.key ELSE "export"
      [] line.form = "space" /\ style = "properties" -> line.key
      [] OTHER -> ""

Matches(key) == {i \in DOMAIN lines : Candidate(lines[i]) = key}

Setting(key, value, form) ==
    [key |-> key, value |-> Encoded(value), form |-> form,
     goesOn |-> style = "dotenv" /\ value \in Opening]

\* What begins with "export " is written with it again, in either style.
FormOf(line) ==
    IF line.form = "export" \/ (line.form = "space" /\ line.key = "export")
    THEN "export" ELSE "equals"

\* A last line without its line end gets one first.
Appended(line) == Append(lines, line)

\* Any file a binding may name.
ChooseFile ==
    /\ style = "none"
    /\ style' \in Styles
    /\ \E n \in 0..MaxLines : 
        lines' \in [1..n -> Settings({Found(v) : v \in Values \ Unfit}) \cup {Other}]
    /\ ended' \in BOOLEAN /\ (lines' = <<>> => ended')
    /\ UNCHANGED written

Replace(key, value) ==
    \E i \in Matches(key) :
        /\ Matches(key) = {i}
        /\ lines' = [lines EXCEPT ![i] = Setting(key, value, FormOf(@))]
        /\ UNCHANGED ended

AppendNew(key, value) ==
    /\ Matches(key) = {}
    /\ lines' = Appended(Setting(key, value, "equals"))
    /\ ended' = TRUE

\* A secret of several lines and a key that is there twice are refused.
Refused(key, value) == value \in Unfit \/ Cardinality(Matches(key)) > 1

RenderKeyValue(key, value) ==
    /\ style # "none"
    /\ written' = [key |-> key, value |-> value, done |-> ~Refused(key, value)]
    /\ IF Refused(key, value)
       THEN UNCHANGED <<lines, ended>>
       ELSE Replace(key, value) \/ AppendNew(key, value)
    /\ UNCHANGED style

TextNext ==
    \/ ChooseFile
    \/ \E key \in Keys, value \in Values : RenderKeyValue(key, value)

TextSpec == TextInit /\ [][TextNext]_textVars

-----------------------------------------------------------------------------
(* The program the file is for.                                            *)

\* The line at i begins a setting, rather than going on with one.
Begins(text, i) == i = 1 \/ ~text[i - 1].goesOn

\* The line that sets a key: the last one counts.
LineOf(text, key) ==
    LET at == {i \in DOMAIN text : Begins(text, i) /\ Candidate(text[i]) = key}
    IN {text[i] : i \in {j \in at : \A k \in at : k <= j}}

Whole(text) == \A i \in DOMAIN text : ~text[i].goesOn

-----------------------------------------------------------------------------
(* Properties.                                                             *)

\* "Structured renderers preserve unrelated fields" (design.md:40): a secret that
\* is accepted leaves every line without its key as it was and where it was; its key
\* then has one line, where the encoded secret stands, so that no next secret is
\* refused as ambiguous; and when no value of the file goes on in the next line, the
\* program finds every other key set as before.  A refused one changes nothing.
OthersAreKept ==
    [][LET key == written'.key
           Foreign(text) ==
               {<<i, text[i]>> : i \in {j \in DOMAIN text : Candidate(text[j]) # key}}
           Holding == {i \in DOMAIN lines' : Candidate(lines'[i]) = key}
       IN IF written'.done
          THEN /\ Foreign(lines') = Foreign(lines)
               /\ \E i \in DOMAIN lines' :
                     Holding = {i} /\ lines'[i].value = Encoded(written'.value)
               /\ Whole(lines) /\ Whole(lines') =>
                    \A other \in Keys \ {key} : LineOf(lines', other) = LineOf(lines, other)
          ELSE style # "none" => lines' = lines]_<<lines, written>>
=============================================================================

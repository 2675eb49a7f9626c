------------------------------ MODULE CodeSearch ------------------------------
(* code.search: SearchCode and excerptAround of                            *)
(* src/desktop/internal/api/ipc/codeservice.go.  The walk visits the files *)
(* of a tree in order, skips what it cannot read and what is binary, and   *)
(* ends early at the cap on hits; each hit carries an excerpt of its line. *)
(*                                                                         *)
(* A line is a match, a miss, or too long for the scanner's buffer, which  *)
(* ends the scan of its file.  Columns count runes from 1.                 *)
EXTENDS Naturals, Sequences, FiniteSets

CONSTANTS
    HitCap,         \* searchHitCap
    LineCap,        \* searchLineCap
    ContextBefore,  \* searchContextBefore
    MaxFiles,       \* bound: files in the tree
    MaxLines,       \* bound: lines in a file
    MaxRunes        \* bound: runes in a line

ASSUME CapsAreOrdered ==
    /\ HitCap \in Nat \ {0} /\ LineCap \in Nat /\ ContextBefore \in Nat
    /\ ContextBefore < LineCap
    /\ MaxFiles \in Nat /\ MaxLines \in Nat /\ MaxRunes \in Nat

VARIABLES
    files,      \* the files, in the order of the walk
    match,      \* the shape of a matching line: its runes, and those before the match
    spot,       \* the next line: its file and its number
    hits,       \* the hits returned so far
    truncated,  \* the cap ended the walk early
    walking     \* the walk goes on

searchVars == <<files, match, spot, hits, truncated, walking>>

LineKinds == {"match", "miss", "huge"}
Texts == [text : {TRUE}, lines : UNION {[1 .. n -> LineKinds] : n \in 0 .. MaxLines}]
Binary == [text |-> FALSE, lines |-> <<>>]

SearchInit ==
    /\ files \in UNION {[1 .. n -> Texts \cup {Binary}] : n \in 0 .. MaxFiles}
    /\ \E runes \in 1 .. MaxRunes : \E start \in 0 .. runes - 1 :
         match = [runes |-> runes, start |-> start]
    /\ spot = <<1, 1>> /\ hits = <<>> /\ truncated = FALSE /\ walking = TRUE

-----------------------------------------------------------------------------
\* excerptAround of a longer line: a window around the match, marked where
\* it is cut, and the column of the match in it.
Window(length, start) ==
    LET wanted == IF start < ContextBefore THEN 0 ELSE start - ContextBefore
        from == IF wanted + LineCap > length THEN length - LineCap ELSE wanted
    IN  [from |-> from, runes |-> LineCap,
         column |-> start - from + 1 + (IF from > 0 THEN 1 ELSE 0),
         lead |-> from > 0, tail |-> from + LineCap < length]

\* excerptAround: a line within the cap passes through.
Excerpt(length, start) ==
    IF length <= LineCap
    THEN [from |-> 0, runes |-> length, column |-> start + 1, lead |-> FALSE, tail |-> FALSE]
    ELSE Window(length, start)

\* The rune of the line that column c of an excerpt shows.
RuneAt(e, c) == e.from + c - 1 - (IF e.lead THEN 1 ELSE 0)

-----------------------------------------------------------------------------
CurrentFile == files[spot[1]]
InTree == spot[1] <= Len(files)
NextFile == spot' = <<spot[1] + 1, 1>>

\* Mutant: a full list of hits ends the walk, and says nothing.
StopsSilently == hits' = hits /\ truncated' = truncated /\ walking' = FALSE /\ UNCHANGED spot

\* The cap is reached: the rest of the tree is not looked at.
Stops == hits' = hits /\ truncated' = TRUE /\ walking' = FALSE /\ UNCHANGED spot

\* A file that cannot be opened or whose head has a NUL is skipped.
SkipFile ==
    /\ walking /\ InTree /\ spot[2] = 1
    /\ IF Len(hits) >= HitCap THEN Stops
       ELSE ~ CurrentFile.text /\ NextFile /\ UNCHANGED <<hits, truncated, walking>>
    /\ UNCHANGED <<files, match>>

\* The scanner is at its end, or at a line too long for it.
EndsScan == spot[2] > Len(CurrentFile.lines) \/ CurrentFile.lines[spot[2]] = "huge"

Hit == [file |-> spot[1], line |-> spot[2], excerpt |-> Excerpt(match.runes, match.start)]

SearchLine ==
    /\ walking /\ InTree /\ CurrentFile.text
    /\ (spot[2] = 1 => Len(hits) < HitCap)
    /\ IF EndsScan THEN NextFile /\ UNCHANGED <<hits, truncated, walking>>
       ELSE IF Len(hits) >= HitCap THEN Stops
       ELSE /\ spot' = <<spot[1], spot[2] + 1>>
            /\ hits' = IF CurrentFile.lines[spot[2]] = "match" THEN Append(hits, Hit) ELSE hits
            /\ UNCHANGED <<truncated, walking>>
    /\ UNCHANGED <<files, match>>

EndWalk ==
    /\ walking /\ ~ InTree /\ walking' = FALSE
    /\ UNCHANGED <<files, match, spot, hits, truncated>>

SearchNext == SkipFile \/ SearchLine \/ EndWalk
SearchSpec == SearchInit /\ [][SearchNext]_searchVars

-----------------------------------------------------------------------------
\* Every variable has its type.
SearchTypeOK ==
    /\ spot \in (1 .. MaxFiles + 1) \X (1 .. MaxLines + 1)
    /\ match.start \in 0 .. match.runes - 1 /\ match.runes \in 1 .. MaxRunes
    /\ Len(hits) <= HitCap
    /\ \A i \in DOMAIN hits : hits[i].file \in 1 .. MaxFiles /\ hits[i].line \in 1 .. MaxLines
    /\ truncated \in BOOLEAN /\ walking \in BOOLEAN

\* The lines a reader of the tree would call hits, up to the scanner's buffer.
Reachable(f) == {l \in DOMAIN files[f].lines :
                    /\ files[f].text /\ files[f].lines[l] = "match"
                    /\ \A k \in 1 .. l : files[f].lines[k] # "huge"}
AllHits == {hit \in (DOMAIN files) \X (1 .. MaxLines) : hit[2] \in Reachable(hit[1])}

(* A result without the mark is all the hits of the lines the scanner can  *)
(* hold, in order and once each, and a marked one is full (codeservice.go: *)
(* "callers can tell a partial result set from a complete one").           *)
UnmarkedIsComplete ==
    /\ ~ walking /\ ~ truncated => {<<hits[i].file, hits[i].line>> : i \in DOMAIN hits} = AllHits
    /\ truncated => Len(hits) = HitCap
    /\ \A i, j \in DOMAIN hits : i < j =>
         \/ hits[i].file < hits[j].file
         \/ hits[i].file = hits[j].file /\ hits[i].line < hits[j].line

(* Wherever a match starts in a line, the excerpt of its hit shows it at   *)
(* the column the hit names, and no more runes than the cap and two marks. *)
ExcerptShowsMatch ==
    \A i \in DOMAIN hits :
        LET e == hits[i].excerpt IN
        /\ RuneAt(e, e.column) = match.start
        /\ match.start \in e.from .. e.from + e.runes - 1
        /\ e.from + e.runes <= match.runes /\ e.runes <= LineCap
        /\ e.lead = (e.from > 0) /\ e.tail = (e.from + e.runes < match.runes)

\* The two together: what code.search answers.
SearchIsHonest == UnmarkedIsComplete /\ ExcerptShowsMatch

==============================================================================

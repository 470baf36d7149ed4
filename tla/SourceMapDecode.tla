-------------------------- MODULE SourceMapDecode --------------------------
(***************************************************************************)
(* Reading a source map and naming a minified frame by it                  *)
(* (server/app/sourcemaps.py: decode_vlq, parse_source_map, SourceMap,     *)
(* _symbolicate_frame).                                                    *)
(*                                                                         *)
(* A base64 character is its value, 0 to 63, or -1 for any other; mappings *)
(* are lines of segments of characters, split at ";" and ",".              *)
(***************************************************************************)
EXTENDS Integers, Sequences, FiniteSets

CONSTANTS
    CONTEXT_WINDOW,
    Segments,           \* segments a compiler may write: [gen, src, line, col, name]
    Sources,            \* the map's sources, from 0: [path, length], the path "" if the
                        \* map has none, the length 0 lines if it has no content
    SymbolNames,        \* the map's names, from 0; "" if not a string
    Vendored,           \* the paths under node_modules
    MinifiedFrames      \* frames of compiled code

VARIABLE
    program             \* a compiled program: lines of segments

NoName == -1
NoNumber == -1      \* a line or column of a frame that is absent or no integer
Unmapped == [src |-> -1, line |-> -1, col |-> -1, name |-> NoName]

\* A segment's place in a source, and the name written there; src is -1 where the
\* generated code comes from nowhere.
IsSegment(seg) ==
    \/ seg \in [gen : Nat, src : Nat, line : Nat, col : Nat, name : Nat \cup {NoName}]
    \/ seg \in [gen : Nat, src : {-1}, line : {-1}, col : {-1}, name : {NoName}]

ASSUME DecodeAssumption ==
    /\ CONTEXT_WINDOW \in Nat
    /\ \A seg \in Segments : IsSegment(seg)
    /\ \A n \in DOMAIN Sources : Sources[n].length \in Nat
    /\ \A frame \in MinifiedFrames :
            frame.lineno \in Nat \cup {NoNumber} /\ frame.colno \in Nat \cup {NoNumber}

-----------------------------------------------------------------------------
(* decode_vlq.                                                             *)

VLQ_MASK == 31
VLQ_CONTINUATION == 32

Signed(acc) == IF acc % 2 = 1 THEN -(acc \div 2) ELSE acc \div 2

\* Before the first character of a number.
FirstDigit(values, valid) ==
    [values |-> values, acc |-> 0, weight |-> 1, have_bits |-> FALSE, valid |-> valid]

\* One character: acc holds the low digits read so far, weight the next one's.
DecodeDigit(st, digit) ==
    LET acc == st.acc + (digit % VLQ_CONTINUATION) * st.weight
    IN  IF digit < 0 THEN [st EXCEPT !.valid = FALSE]
        ELSE IF digit > VLQ_MASK
        THEN [values |-> st.values, acc |-> acc, weight |-> 32 * st.weight,
              have_bits |-> TRUE, valid |-> st.valid]
        ELSE FirstDigit(Append(st.values, Signed(acc)), st.valid)

\* The state after each character, from 0.
DigitRun(segment) ==
    LET after[n \in 0 .. Len(segment)] ==
            IF n = 0 THEN FirstDigit(<<>>, TRUE) ELSE DecodeDigit(after[n - 1], segment[n])
    IN  after

decode_vlq(segment) ==
    LET end == DigitRun(segment)[Len(segment)]
    IN  [values |-> end.values, valid |-> end.valid /\ ~end.have_bits]

-----------------------------------------------------------------------------
(* parse_source_map.                                                       *)

Start == [gen |-> 0, src |-> 0, line |-> 0, col |-> 0, name |-> 0]

\* Fields two to five run on through the whole file, the column restarts on a line.
ColumnAtLineStart_RunsOn(at) == at.gen
ColumnAtLineStart(at) == 0

\* The fields of one segment: with four, a position in a source; with five, a name too.
Advance(at, f) ==
    [gen |-> at.gen + f[1],
     src |-> IF Len(f) < 4 THEN at.src ELSE at.src + f[2],
     line |-> IF Len(f) < 4 THEN at.line ELSE at.line + f[3],
     col |-> IF Len(f) < 4 THEN at.col ELSE at.col + f[4],
     name |-> IF Len(f) < 5 THEN at.name ELSE at.name + f[5]]

ParseSegment(st, f) ==
    LET at == Advance(st.at, f)
        seg == IF Len(f) = 4 THEN [at EXCEPT !.name = NoName] ELSE at
    IN  IF f = <<>> THEN st
        ELSE [at |-> at, row |-> IF Len(f) < 4 THEN st.row ELSE Append(st.row, seg)]

\* The state after each segment of a line, from 0.
LineRun(at, fields) ==
    LET after[n \in 0 .. Len(fields)] ==
            IF n = 0 THEN [at |-> [at EXCEPT !.gen = ColumnAtLineStart(at)], row |-> <<>>]
            ELSE ParseSegment(after[n - 1], fields[n])
    IN  after

ParseLine(at, fields) == LineRun(at, fields)[Len(fields)]

\* Where each line of a file leaves off, from 0.
FileRun(file) ==
    LET reached[l \in 0 .. Len(file)] ==
            IF l = 0 THEN Start ELSE ParseLine(reached[l - 1], file[l]).at
    IN  reached

\* row.sort: segments of one column stay in order.
Rank(row, n) ==
    Cardinality({k \in DOMAIN row : row[k].gen < row[n].gen \/ (row[k].gen = row[n].gen /\ k <= n)})
ByColumn(row) == [k \in DOMAIN row |-> row[CHOOSE n \in DOMAIN row : Rank(row, n) = k]]

\* One segment that cannot be decoded rejects the map.
parse_source_map(mappings) ==
    LET decoded == [l \in DOMAIN mappings |->
                        [n \in DOMAIN mappings[l] |-> decode_vlq(mappings[l][n])]]
        file == [l \in DOMAIN decoded |->
                        [n \in DOMAIN decoded[l] |-> decoded[l][n].values]]
    IN  [lines |-> [l \in DOMAIN file |-> ByColumn(ParseLine(FileRun(file)[l - 1], file[l]).row)],
         valid |-> \A l \in DOMAIN decoded : \A n \in DOMAIN decoded[l] : decoded[l][n].valid]

-----------------------------------------------------------------------------
(* SourceMap.                                                              *)

\* Lines and columns count from 0.
lookup(lines, gen_line, gen_col) ==
    LET row == IF gen_line + 1 \in DOMAIN lines THEN lines[gen_line + 1] ELSE <<>>
        starting == {n \in DOMAIN row : \A k \in 1 .. n : row[k].gen <= gen_col}
        chosen == CHOOSE n \in starting : \A k \in starting : k <= n
    IN  IF starting = {} THEN Unmapped
        ELSE [src |-> row[chosen].src, line |-> row[chosen].line,
              col |-> row[chosen].col, name |-> row[chosen].name]

\* The numbers of the lines shown: the one that failed, those before and after it.
source_context(length, orig_line) ==
    IF orig_line \notin 0 .. length - 1 THEN [at |-> {}, pre |-> {}, post |-> {}]
    ELSE [at |-> {orig_line},
          pre |-> {n \in 0 .. orig_line - 1 : n >= orig_line - CONTEXT_WINDOW},
          post |-> {n \in orig_line + 1 .. length - 1 : n <= orig_line + CONTEXT_WINDOW}]

\* Frames count lines and columns from 1; column 0 means unknown.  What the map does not
\* say stays as it came: the path, the name, the lines shown.
_symbolicate_frame(frame, lines) ==
    LET resolved == lookup(lines, frame.lineno - 1, IF frame.colno > 0 THEN frame.colno - 1 ELSE 0)
        source == Sources[resolved.src]
        original_path == IF source.path = "" THEN frame.filename ELSE source.path
        name == IF resolved.name \in DOMAIN SymbolNames THEN SymbolNames[resolved.name] ELSE ""
        context == source_context(source.length, resolved.line)
    IN  IF \/ frame.lineno = NoNumber \/ frame.colno = NoNumber
           \/ resolved = Unmapped \/ resolved.src \notin DOMAIN Sources
        THEN frame
        ELSE [raw |-> <<frame.filename, frame.lineno>>,
              filename |-> original_path,
              lineno |-> resolved.line + 1,
              colno |-> resolved.col + 1,
              function |-> IF name = "" THEN frame.function ELSE name,
              in_app |-> frame.in_app /\ original_path \notin Vendored,
              context |-> IF context.at = {} THEN frame.context ELSE context]

-----------------------------------------------------------------------------
(* A program is compiled segment by segment.                               *)

NewSegment(seg) ==
    LET l == Len(program)
        n == Len(program[l])
    IN  /\ n > 0 => program[l][n].gen <= seg.gen
        /\ program' = [program EXCEPT ![l] = Append(@, seg)]

NewLine == program' = Append(program, <<>>)

MapInit == program = << <<>> >>

MapNext == NewLine \/ \E seg \in Segments : NewSegment(seg)

MapSpec == MapInit /\ [][MapNext]_program

-----------------------------------------------------------------------------
(* The format, as a compiler writes it (Source Map revision 3).            *)

\* n without its low k digits.
Rests(n) == LET rest[k \in 0 .. n + 1] == IF k = 0 THEN n ELSE rest[k - 1] \div 32 IN rest

Digits(n) ==
    LET size == CHOOSE k \in 1 .. n + 1 :
                    Rests(n)[k] = 0 /\ \A j \in 1 .. k - 1 : Rests(n)[j] # 0
    IN  [k \in 1 .. size |-> (Rests(n)[k - 1] % 32) + (IF k < size THEN VLQ_CONTINUATION ELSE 0)]

EncodeNumber(n) == Digits(IF n < 0 THEN 2 * (-n) + 1 ELSE 2 * n)

Bound(seg) == seg.src >= 0
Named(seg) == Bound(seg) /\ seg.name # NoName

Places == UNION {{l} \X DOMAIN program[l] : l \in DOMAIN program}
At(p) == program[p[1]][p[2]]
BoundPlaces == {p \in Places : Bound(At(p))}
NamedPlaces == {p \in Places : Named(At(p))}

Earlier(p, q) == p[1] < q[1] \/ (p[1] = q[1] /\ p[2] < q[2])

\* The segment at the last of some places before p.
LastBefore(places, p) ==
    LET before == {q \in places : Earlier(q, p)}
    IN  IF before = {} THEN [src |-> 0, line |-> 0, col |-> 0, name |-> 0]
        ELSE At(CHOOSE q \in before : \A r \in before : r = q \/ Earlier(r, q))

\* Each number is written as the difference from the last one of its kind.
EncodeSegment(l, n) ==
    LET seg == program[l][n]
        bound == LastBefore(BoundPlaces, <<l, n>>)
        column == EncodeNumber(seg.gen - (IF n = 1 THEN 0 ELSE program[l][n - 1].gen))
        origin == column \o EncodeNumber(seg.src - bound.src)
                         \o EncodeNumber(seg.line - bound.line)
                         \o EncodeNumber(seg.col - bound.col)
    IN  IF ~Bound(seg) THEN column
        ELSE IF ~Named(seg) THEN origin
        ELSE origin \o EncodeNumber(seg.name - LastBefore(NamedPlaces, <<l, n>>).name)

Encode == [l \in DOMAIN program |-> [n \in DOMAIN program[l] |-> EncodeSegment(l, n)]]

SegmentsOf(gen_line) == IF gen_line + 1 \in DOMAIN program THEN program[gen_line + 1] ELSE <<>>

\* The segments of a line that start at or before a column.
Begun(gen_line, gen_col) ==
    {n \in DOMAIN SegmentsOf(gen_line) : SegmentsOf(gen_line)[n].gen <= gen_col}

\* The place in a source of the last of some segments.
PlaceOfLast(segs, chosen) ==
    LET seg == segs[CHOOSE n \in chosen : \A k \in chosen : k <= n]
    IN  IF chosen = {} THEN Unmapped
        ELSE [src |-> seg.src, line |-> seg.line, col |-> seg.col, name |-> seg.name]

\* Where the generated column of a line comes from: a segment holds up to the next one,
\* bound to a source or not.
Origin(gen_line, gen_col) == PlaceOfLast(SegmentsOf(gen_line), Begun(gen_line, gen_col))

\* Generated code from nowhere, on a line where code with a source may come before it.
FromNowhere(gen_line, gen_col) ==
    Begun(gen_line, gen_col) # {} /\ Origin(gen_line, gen_col) = Unmapped

\* The last place in a source that the line has up to the column.
BoundBefore(gen_line, gen_col) ==
    LET segs == SegmentsOf(gen_line)
    IN  PlaceOfLast(segs, {n \in Begun(gen_line, gen_col) : Bound(segs[n])})

\* A map with a number cut short, or with a character that is no digit, is rejected whole.
SpoiltIsRejected ==
    \A l \in DOMAIN program : \A n \in DOMAIN program[l] : \A char \in {-1, 32} :
        ~parse_source_map([Encode EXCEPT ![l][n] = Append(@, char)]).valid

\* A frame is reported at a place, with the lines around it; one without a place in the
\* map's sources is left as it came.
ReportedAt(frame, out, place) ==
    LET source == Sources[place.src]
        shown == out.context.pre \cup out.context.at \cup out.context.post
        Known(text, own) == IF text = "" THEN own ELSE text
    IN  IF place = Unmapped \/ place.src \notin DOMAIN Sources THEN out = frame
        ELSE /\ out.filename = Known(source.path, frame.filename)
             /\ out.raw = <<frame.filename, frame.lineno>>
             /\ out.lineno - 1 = place.line /\ out.colno - 1 = place.col
             /\ out.function = (IF place.name \in DOMAIN SymbolNames
                                THEN Known(SymbolNames[place.name], frame.function)
                                ELSE frame.function)
             /\ out.in_app <=> frame.in_app /\ out.filename \notin Vendored
             /\ IF place.line < source.length
                THEN shown = {n \in 0 .. source.length - 1 :
                                 n - place.line \in -CONTEXT_WINDOW .. CONTEXT_WINDOW}
                ELSE out.context = frame.context

\* A frame is reported where it was written.  Except that code from nowhere is reported
\* where the code before it on its line was written, if any: the parser drops the segments
\* that would end those, "since they cannot yield an original position".
FrameIsOriginal(frame, out) ==
    LET gen_line == frame.lineno - 1
        gen_col == IF frame.colno = 0 THEN 0 ELSE frame.colno - 1
    IN  IF NoNumber \in {frame.lineno, frame.colno} THEN out = frame
        ELSE ReportedAt(frame, out, IF FromNowhere(gen_line, gen_col)
                                    THEN BoundBefore(gen_line, gen_col)
                                    ELSE Origin(gen_line, gen_col))

\* Every frame of compiled code, in and out of the map's range, is reported at the place it
\* was compiled from, whatever the compiler wrote before and after it, with the exception
\* of FrameIsOriginal for code that was compiled from nothing; one before the first segment
\* of its line, or on a line the map does not have, is left as it came; and a spoilt map
\* names no frame at all.
MapsAreRead ==
    LET map == parse_source_map(Encode)
    IN  /\ map.valid
        /\ SpoiltIsRejected
        /\ \A frame \in MinifiedFrames :
              FrameIsOriginal(frame, _symbolicate_frame(frame, map.lines))
=============================================================================

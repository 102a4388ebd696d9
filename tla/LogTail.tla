-------------------------------- MODULE LogTail --------------------------------
(***************************************************************************)
(* tasks/logs.go: FetchLogLines, which answers a log request with the last *)
(* lines of a file that its owner goes on writing to, or truncates.        *)
(*                                                                         *)
(* There are two readers.  Of a small file all lines are scanned and the   *)
(* last ones kept; a large one is read backwards in chunks, byte by byte,  *)
(* until there are enough lines, each of which is then reversed.  Both     *)
(* fill a buffer and work through it a byte at a time, and the file may    *)
(* change between two fillings.  A file is a sequence of bytes here, each  *)
(* a member of Byte: that is what the two readers disagree about.          *)
(*                                                                         *)
(* Abstracted: whether the path is allowed and the file can be opened is a *)
(* choice; "x" and "y" stand for all other bytes, "hi" "lo" for characters *)
(* of two bytes.                                                           *)
(***************************************************************************)
EXTENDS Integers, FiniteSets, SequencesExt

CONSTANTS
    InitialFiles,   \* what the file may hold
    Limits,         \* the numbers of lines that are asked for
    MaxLines,       \* the most one may ask for (10000)
    SmallSize,      \* files below this are scanned (1 MB)
    BufferSize,     \* bytes read at once (4096)
    TokenLimit,     \* bufio.Scanner's limit for a line (64 kB)
    Appended,       \* bytes the owner may append
    MaxWrites       \* bound: appends and truncations during a request

Byte == {"x", "y", "LF", "CR", "hi", "lo"}

ASSUME FilesAssumption == InitialFiles \subseteq Seq(Byte) /\ Appended \subseteq Byte
ASSUME SizesAssumption ==
    /\ Limits \subseteq Nat
    /\ {MaxLines, SmallSize, BufferSize, TokenLimit} \subseteq Nat \ {0}
    /\ MaxWrites \in Nat

VARIABLES
    file,       \* the file
    n,          \* lines asked for
    pc,         \* where FetchLogLines is
    pos,        \* the reader's offset in the file
    buffer,     \* what was read there and is not worked through yet
    found,      \* lines complete so far and the line being collected
    answer,     \* what was answered
    writes,     \* appends and truncations so far
    opened,     \* history: the file when its size was taken
    reader,     \* history: the reader that was chosen
    cut,        \* history: the file was truncated during the request
    refilled    \* history: and written to again

vars == <<file, n, pc, pos, buffer, found, answer, writes, opened, reader, cut, refilled>>

Nothing == [lines |-> <<>>, line |-> <<>>]
NoAnswer == [status |-> "none", lines |-> <<>>]

Init ==
    /\ file \in InitialFiles
    /\ n \in Limits
    /\ pc = "asked" /\ pos = 0 /\ buffer = <<>> /\ found = Nothing /\ answer = NoAnswer
    /\ writes = 0 /\ opened = <<>> /\ reader = "none"
    /\ cut = FALSE /\ refilled = FALSE

-----------------------------------------------------------------------------
(* Lines.                                                                  *)

\* The last k elements of s.
LastOf(s, k) == IF Len(s) <= k THEN s ELSE SubSeq(s, Len(s) - k + 1, Len(s))

WithoutCR(line) == IF line # <<>> /\ Last(line) = "CR" THEN Front(line) ELSE line

\* Seeded fault: a CR ends a line as well.
ScanBoth(seen, byte) ==
    IF byte \in {"LF", "CR"} THEN [lines |-> Append(seen.lines, seen.line), line |-> <<>>]
    ELSE [seen EXCEPT !.line = Append(@, byte)]

\* bufio.ScanLines on the next byte.
Scan(seen, byte) ==
    IF byte = "LF" THEN [lines |-> Append(seen.lines, WithoutCR(seen.line)), line |-> <<>>]
    ELSE [seen EXCEPT !.line = Append(@, byte)]

\* readLastNLines on the byte before: empty lines are skipped and every CR is dropped.
Collect(seen, byte) ==
    CASE byte = "LF" /\ seen.line # <<>> ->
            [lines |-> <<seen.line>> \o seen.lines, line |-> <<>>]
      [] byte \notin {"LF", "CR"} -> [seen EXCEPT !.line = Append(@, byte)]
      [] OTHER -> seen

\* A character of two bytes begins at s[i].
Pair(s, i) == i \in 1..Len(s) - 1 /\ s[i] = "hi" /\ s[i + 1] = "lo"

\* reverseString, applied to bytes that were collected backwards.  []rune keeps
\* the two bytes of a character in order; a byte that is not part of a character
\* becomes the replacement character "?".
ReverseString(s) ==
    [j \in 1..Len(s) |->
        LET i == Len(s) + 1 - j IN
        CASE Pair(s, i) -> "lo"
          [] Pair(s, i - 1) -> "hi"
          [] s[i] \in {"hi", "lo"} /\ ~Pair(s, i) /\ ~Pair(s, i - 1) -> "?"
          [] OTHER -> s[i]]

-----------------------------------------------------------------------------
(* FetchLogLines and tailFile.                                             *)

Answer(status, lines) ==
    /\ answer' = [status |-> status, lines |-> lines]
    /\ pc' = "answered"
    /\ found' = Nothing /\ pos' = 0 /\ buffer' = <<>>

\* The path is not allowed, the number of lines is not either, or the file cannot
\* be opened.
Deny ==
    /\ pc = "asked"
    /\ Answer("denied", <<>>)
    /\ UNCHANGED <<file, n, writes, opened, reader, cut, refilled>>

\* The size taken here decides who reads, and where the one for large files begins.
Open ==
    /\ pc = "asked" /\ n \in 1..MaxLines
    /\ opened' = file
    /\ IF Len(file) < SmallSize
       THEN pc' = "all" /\ reader' = "all" /\ pos' = 0
       ELSE pc' = "last" /\ reader' = "last" /\ pos' = Len(file)
    /\ UNCHANGED <<file, n, buffer, found, answer, writes, cut, refilled>>

-----------------------------------------------------------------------------
(* readAllLines.                                                           *)

TooLong == Len(found.line) >= TokenLimit

ReadForward ==
    /\ pc = "all" /\ buffer = <<>> /\ pos < Len(file) /\ ~TooLong
    /\ LET end == IF pos + BufferSize <= Len(file) THEN pos + BufferSize ELSE Len(file) IN
         /\ buffer' = SubSeq(file, pos + 1, end)
         /\ pos' = end
    /\ UNCHANGED <<file, n, pc, found, answer, writes, opened, reader, cut, refilled>>

ScanByte ==
    /\ pc = "all" /\ buffer # <<>> /\ ~TooLong
    /\ found' = Scan(found, Head(buffer))
    /\ buffer' = Tail(buffer)
    /\ UNCHANGED <<file, n, pc, pos, answer, writes, opened, reader, cut, refilled>>

\* The end of the file, wherever it is by now.  What follows the last LF is a line.
EndOfFile ==
    /\ pc = "all" /\ buffer = <<>> /\ pos >= Len(file) /\ ~TooLong
    /\ LET rest == IF found.line = <<>> THEN <<>> ELSE <<WithoutCR(found.line)>> IN
         Answer("ok", LastOf(found.lines \o rest, n))
    /\ UNCHANGED <<file, n, writes, opened, reader, cut, refilled>>

ScanFails ==
    /\ pc = "all" /\ TooLong
    /\ Answer("line too long", <<>>)
    /\ UNCHANGED <<file, n, writes, opened, reader, cut, refilled>>

-----------------------------------------------------------------------------
(* readLastNLines.                                                         *)

\* Seeded fault: the offset stays where it is.
StartStays == pos

\* The chunk before pos begins here.
ChunkStart == IF pos < BufferSize THEN 0 ELSE pos - BufferSize

Reads == pc = "last" /\ buffer = <<>> /\ Len(found.lines) < n /\ pos > 0

\* Seeded fault: the line that a chunk begins in the middle of is lost.
ReadBackwardAnew ==
    /\ Reads /\ pos <= Len(file)
    /\ buffer' = SubSeq(file, ChunkStart + 1, pos)
    /\ pos' = ChunkStart
    /\ found' = [found EXCEPT !.line = <<>>]
    /\ UNCHANGED <<file, n, pc, answer, writes, opened, reader, cut, refilled>>

ReadBackward ==
    /\ Reads /\ pos <= Len(file)
    /\ buffer' = SubSeq(file, ChunkStart + 1, pos)
    /\ pos' = ChunkStart
    /\ UNCHANGED <<file, n, pc, found, answer, writes, opened, reader, cut, refilled>>

\* Seeded fault: the error is ignored and the reader goes on with what is there.
ReadShort ==
    /\ Reads /\ pos > Len(file)
    /\ buffer' = SubSeq(file, ChunkStart + 1, Len(file))
    /\ pos' = ChunkStart
    /\ UNCHANGED <<file, n, pc, found, answer, writes, opened, reader, cut, refilled>>

\* ReadAt returns an error when it cannot fill the buffer: the file has shrunk.
ReadFails ==
    /\ Reads /\ pos > Len(file)
    /\ Answer("read error", <<>>)
    /\ UNCHANGED <<file, n, writes, opened, reader, cut, refilled>>

\* Seeded fault: the rest of the buffer is collected after the last line, too.
CollectOn ==
    /\ pc = "last" /\ buffer # <<>>
    /\ found' = Collect(found, Last(buffer))
    /\ buffer' = Front(buffer)
    /\ UNCHANGED <<file, n, pc, pos, answer, writes, opened, reader, cut, refilled>>

\* Nothing more of the buffer is looked at once there are enough lines.
CollectByte ==
    /\ pc = "last" /\ buffer # <<>> /\ Len(found.lines) < n
    /\ found' = Collect(found, Last(buffer))
    /\ buffer' = Front(buffer)
    /\ UNCHANGED <<file, n, pc, pos, answer, writes, opened, reader, cut, refilled>>

\* Enough lines, or the start of the file, whose line has no LF before it.
Finish ==
    /\ pc = "last" /\ (Len(found.lines) >= n \/ (pos = 0 /\ buffer = <<>>))
    /\ LET all == IF found.line = <<>> THEN found.lines ELSE <<found.line>> \o found.lines
       IN  Answer("ok", [i \in DOMAIN all |-> ReverseString(all[i])])
    /\ UNCHANGED <<file, n, writes, opened, reader, cut, refilled>>

-----------------------------------------------------------------------------
(* The owner of the file.  What it did before the size was taken is part   *)
(* of what the file may hold; what it does after the answer is no matter.  *)

Reading == pc \in {"all", "last"} /\ writes < MaxWrites

AppendByte ==
    /\ Reading
    /\ \E byte \in Appended : file' = Append(file, byte)
    /\ writes' = writes + 1
    /\ refilled' = cut
    /\ UNCHANGED <<n, pc, pos, buffer, found, answer, opened, reader, cut>>

Truncate ==
    /\ Reading /\ file # <<>>
    /\ file' = <<>>
    /\ writes' = writes + 1
    /\ cut' = TRUE
    /\ UNCHANGED <<n, pc, pos, buffer, found, answer, opened, reader, refilled>>

-----------------------------------------------------------------------------
FetchStep ==
    \/ Deny \/ Open
    \/ ReadForward \/ ScanByte \/ EndOfFile \/ ScanFails
    \/ ReadBackward \/ ReadFails \/ CollectByte \/ Finish

Answered == pc = "answered" /\ UNCHANGED vars

Next == FetchStep \/ AppendByte \/ Truncate \/ Answered

Spec == Init /\ [][Next]_vars /\ WF_vars(FetchStep)

-----------------------------------------------------------------------------
(* Properties.                                                             *)

Line == Seq(Byte \cup {"?"})

TypeOK ==
    /\ file \in Seq(Byte) /\ opened \in Seq(Byte)
    /\ n \in Limits
    /\ pc \in {"asked", "all", "last", "answered"}
    /\ reader \in {"none", "all", "last"}
    /\ pos \in 0..Len(opened) + MaxWrites
    /\ buffer \in Seq(Byte) /\ Len(buffer) <= BufferSize
    /\ found \in [lines : Seq(Seq(Byte)), line : Seq(Byte)]
    /\ answer.status \in {"none", "denied", "line too long", "read error", "ok"}
    /\ answer.lines \in Seq(Line) /\ (answer.status = "ok" => Len(answer.lines) <= n)
    /\ writes \in 0..MaxWrites /\ {cut, refilled} \subseteq BOOLEAN

(* What the lines of a file are, without regard to how they are read.      *)

\* The k-th of a set of positions, and what f has at these positions.
Rank(P, e) == Cardinality({x \in P : x <= e})
Nth(P, k) == CHOOSE e \in P : Rank(P, e) = k
Pick(f, P) == [k \in 1..Cardinality(P) |-> f[Nth(P, k)]]

\* A line ends before an LF, or with the file; it reaches back to the LF before.
Ends(f) == {e \in 1..Len(f) + 1 : e = Len(f) + 1 \/ f[e] = "LF"}
Span(f, e) == {i \in 1..e - 1 : \A j \in i..e - 1 : f[j] # "LF"}
LineEnds(f) == {e \in Ends(f) : e <= Len(f) \/ Span(f, e) # {}}
LinesOf(f) ==
    [k \in 1..Cardinality(LineEnds(f)) |-> Pick(f, Span(f, Nth(LineEnds(f), k)))]
TextLines(f) == [k \in DOMAIN LinesOf(f) |-> WithoutCR(LinesOf(f)[k])]

\* The lines that are left when every CR and every empty line is taken out.
Visible(f, e) == {i \in Span(f, e) : f[i] # "CR"}
VisibleEnds(f) == {e \in Ends(f) : Visible(f, e) # {}}
VisibleLines(f) ==
    [k \in 1..Cardinality(VisibleEnds(f)) |-> Pick(f, Visible(f, Nth(VisibleEnds(f), k)))]

\* The last k lines of all, or all of them.
IsLastOf(lines, all, k) ==
    /\ Len(lines) = IF Len(all) < k THEN Len(all) ELSE k
    /\ \A i \in DOMAIN lines : lines[i] = all[Len(all) - Len(lines) + i]

\* A small file that only grows is answered with the last lines it has when its
\* end is reached, unless one of its lines exceeds the scanner's limit: then with
\* an error, even if that line was not asked for.
ScannedTail ==
    answer.status \in {"ok", "line too long"} /\ reader = "all" /\ ~cut =>
        /\ answer.status = "ok" =>
              /\ IsLastOf(answer.lines, TextLines(file), n)
              /\ \A i \in DOMAIN LinesOf(file) : Len(LinesOf(file)[i]) < TokenLimit
        /\ answer.status = "line too long" =>
              \E i \in DOMAIN LinesOf(file) : Len(LinesOf(file)[i]) >= TokenLimit

\* A large file is answered with the last non-empty lines it had when its size was
\* taken, without any CR, and with as many of them; those of single-byte characters
\* are right.  Appending changes nothing, and after a truncation, as long as the
\* file is not filled again, the answer is still right or an error.
CollectedTail ==
    answer.status = "ok" /\ reader = "last" /\ ~refilled =>
        LET all == VisibleLines(opened)
            tail == LastOf(all, n)
        IN  /\ Len(answer.lines) = Len(tail)
            /\ \A i \in DOMAIN tail :
                  ToSet(tail[i]) \cap {"hi", "lo"} = {} => answer.lines[i] = tail[i]

Plain(f) ==
    /\ ToSet(f) \cap {"hi", "lo"} = {}
    /\ \A i \in DOMAIN f : f[i] = "CR" => i < Len(f) /\ f[i + 1] = "LF"
    /\ \A i \in DOMAIN TextLines(f) : TextLines(f)[i] # <<>>

\* Which reader is chosen makes no difference to a log of plain text: no empty
\* lines, no CR but before LF, single-byte characters.
PlainTail ==
    answer.status = "ok" /\ ~cut =>
        LET f == IF reader = "all" THEN file ELSE opened
        IN  Plain(f) => IsLastOf(answer.lines, TextLines(f), n)

\* Every request is answered: both readers come to an end of the file.
FetchEnds == <>(pc = "answered")
=============================================================================

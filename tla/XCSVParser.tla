------------------------------- MODULE XCSVParser -------------------------------
(***************************************************************************)
(* XCSVParser (util/XCSVParser.cpp): lines split into plain and quoted     *)
(* fields, and the table of fields that is asked for rows, columns and     *)
(* strings.  A character is a separator, a quote or another one.           *)
(***************************************************************************)
EXTENDS Integers, Sequences, FiniteSets, FiniteSetsExt, SequencesExt

CONSTANTS
    Separator, Quote,   \* m_sFieldSep and the quotation mark
    Others,             \* characters that mean nothing
    MaxField,           \* bound: characters of a field
    MaxColumns,         \* bound: fields of a row
    MaxRows             \* bound: rows of all files

CSVAssumption ==
    /\ Separator # Quote /\ {Separator, Quote} \cap Others = {}
    /\ {MaxField, MaxColumns, MaxRows} \subseteq Nat

VARIABLES
    vLines,     \* m_vLines
    maxColumn,  \* m_iMaxColumn
    written     \* history: the rows of the files that were parsed

vars == << vLines, maxColumn, written >>

Init == vLines = <<>> /\ maxColumn = 0 /\ written = <<>>

--------------------------------------------------------------------------------
(***************************************************************************)
(* Splitting: a field, and the place of the separator that ends it.        *)
(***************************************************************************)
\* The field from i up to the next separator, or the end of the line.
advplain(s, i) ==
    LET j == Min({k \in i..Len(s) : s[k] = Separator} \cup {Len(s) + 1})
    IN  [fld |-> SubSeq(s, i, j - 1), next |-> j]

QuoteEnds(s, i) ==      \* mutant: two quotes are not one
    LET adv[j \in 1..(Len(s) + 2)] ==
          IF j > Len(s) THEN [fld |-> <<>>, next |-> j]
          ELSE IF s[j] = Quote THEN advplain(s, j + 1)
          ELSE [adv[j + 1] EXCEPT !.fld = << s[j] >> \o @]
    IN  adv[i]
\* The field from i up to the closing quote, with what follows it plainly; two
\* quotes stand for one.
advquoted(s, i) ==
    LET adv[j \in 1..(Len(s) + 2)] ==
          IF j > Len(s) THEN [fld |-> <<>>, next |-> j]
          ELSE IF s[j] # Quote THEN [adv[j + 1] EXCEPT !.fld = << s[j] >> \o @]
          ELSE IF j < Len(s) /\ s[j + 1] = Quote THEN [adv[j + 2] EXCEPT !.fld = << Quote >> \o @]
          ELSE advplain(s, j + 1)
    IN  adv[i]

\* The fields of a line; an empty line has none.
split(s) ==
    LET from[i \in 1..(Len(s) + 1)] ==
          LET a == IF i <= Len(s) /\ s[i] = Quote THEN advquoted(s, i + 1) ELSE advplain(s, i)
          IN  << a.fld >> \o (IF a.next <= Len(s) THEN from[a.next + 1] ELSE <<>>)
    IN  IF s = <<>> THEN <<>> ELSE from[1]

--------------------------------------------------------------------------------
(***************************************************************************)
(* The files: rows of fields, as a spreadsheet writes them.                *)
(***************************************************************************)
Fields == BoundedSeq(Others \cup {Separator, Quote}, MaxField)
Rows == UNION {[1..n -> Fields] : n \in 1..MaxColumns}

\* A field may be quoted, and must be if it has a special character; so must an
\* empty one that is alone in its row.
Quoted(f) == << Quote >> \o FlattenSeq([i \in DOMAIN f |->
                 IF f[i] = Quote THEN << Quote, Quote >> ELSE << f[i] >>]) \o << Quote >>
Written(f, alone) ==
    {Quoted(f)} \cup (IF Range(f) \cap {Separator, Quote} # {} \/ (alone /\ f = <<>>) THEN {} ELSE {f})
Line(w) == FlattenSeq([i \in DOMAIN w |-> IF i = 1 THEN w[i] ELSE << Separator >> \o w[i]])
Lines(row) ==
    {Line(w) : w \in {x \in [DOMAIN row -> UNION {Written(row[i], Len(row) = 1) : i \in DOMAIN row}] :
                        \A i \in DOMAIN row : x[i] \in Written(row[i], Len(row) = 1)}}

\* parseFile, and its loop line by line.  The rows of earlier files stay, m_iMaxColumn
\* is of the last file.
parseFile ==
    /\ maxColumn' = 0
    /\ UNCHANGED << vLines, written >>

getline(row) ==
    /\ Len(vLines) < MaxRows
    /\ \E line \in Lines(row) :
          LET field == split(line)
          IN  /\ vLines' = Append(vLines, field)
              /\ maxColumn' = IF maxColumn < Len(field) THEN Len(field) ELSE maxColumn
    /\ written' = Append(written, row)

Next == parseFile \/ \E row \in Rows : getline(row)

Spec == Init /\ [][Next]_vars

--------------------------------------------------------------------------------
(***************************************************************************)
(* What is asked of the table.  Rows and columns count from 0; -1 stands   *)
(* for any, and for none.                                                  *)
(***************************************************************************)
getData(row, column) ==
    IF row + 1 \in DOMAIN vLines /\ column + 1 \in DOMAIN vLines[row + 1]
    THEN vLines[row + 1][column + 1] ELSE <<>>

Least(S) == IF S = {} THEN -1 ELSE Min(S)
Holds(name, row, column) ==
    column + 1 \in DOMAIN vLines[row + 1] /\ vLines[row + 1][column + 1] = name

getRowByString(name, column) ==
    Least({row \in 0..(Len(vLines) - 1) :
             \E c \in IF column = -1 THEN 0..(Len(vLines[row + 1]) - 1) ELSE {column} :
                 Holds(name, row, c)})

\* In the first row that has it.  A row that is not there must not be asked for.
getColumnByString(name, row) ==
    LET r == IF row = -1 THEN getRowByString(name, -1) ELSE row
    IN  IF r = -1 THEN -1
        ELSE Least({column \in 0..(Len(vLines[r + 1]) - 1) : Holds(name, r, column)})

--------------------------------------------------------------------------------
TypeOK ==
    /\ vLines \in Seq(Seq(Fields)) /\ Len(vLines) <= MaxRows
    /\ maxColumn \in 0..MaxColumns

\* Whatever separators and quotes the fields hold and whether or not they were
\* quoted, the table is the rows that were written: each field is where it was, and
\* is found in the first row and column that have it.
FieldsFound ==
    /\ TypeOK
    /\ Len(vLines) = Len(written)
    /\ \A r \in DOMAIN written :
          /\ Len(vLines[r]) = Len(written[r])
          /\ \A c \in DOMAIN written[r] :
                LET name == written[r][c]
                    row == getRowByString(name, -1)
                    column == getColumnByString(name, -1)
                IN  /\ getData(r - 1, c - 1) = name
                    /\ row \in 0..(r - 1) /\ getData(row, column) = name
                    /\ getRowByString(name, c - 1) \in row..(r - 1)
                    /\ getColumnByString(name, r - 1) \in 0..(c - 1)
================================================================================

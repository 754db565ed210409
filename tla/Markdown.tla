------------------------------ MODULE Markdown ------------------------------
(* html_markdown(): task statements are turned into HTML line by line.  What *)
(* is open between two lines is kept in five flags; the tags written are     *)
(* followed here beside the flags, to see whether they nest.  Of a line only *)
(* what the code tests is kept, so a text of any length has a finite model.  *)
EXTENDS Naturals

\* What a line is for the code's tests, and whether it ends in a carriage
\* return: a formula's delimiters alone on a line (two dollars, or a backslash
\* and a bracket), a code fence, ..., a delimiter with more behind it, a text.
Kinds == {"dollars", "lbracket", "rbracket", "fence", "blank", "separator",
          "row", "heading", "item", "formula", "text"}
Lines == [kind : Kinds, cr : BOOLEAN]
End == [kind |-> "end", cr |-> FALSE]

\* The elements that stay open over lines: <p>, <ul>, <table><tbody>,
\* <pre><code> and the <div> of a formula.
Elements == {"p", "ul", "table", "code", "math"}

VARIABLES
    flags,   \* in_paragraph, in_list, in_table, in_code and in_math_block
    line,    \* the line at the cursor, End behind the last one
    next,    \* the one after it
    open,    \* the elements whose tags have been written and not yet closed
    within,  \* for an open element those that were open when it was opened
    bad,     \* a tag has been closed that was not the innermost open one
    done     \* the page is written

markdownVars == <<flags, line, next, open, within, bad, done>>

MarkdownTypeOK ==
    /\ flags \subseteq Elements
    /\ line \in Lines \cup {End}
    /\ next \in Lines \cup {End}
    /\ open \subseteq Elements
    /\ within \in [Elements -> SUBSET Elements]
    /\ bad \in BOOLEAN
    /\ done \in BOOLEAN

MarkdownInit ==
    /\ flags = {}
    /\ line \in Lines \cup {End}
    /\ next \in IF line = End THEN {End} ELSE Lines \cup {End}
    /\ open = {}
    /\ within = [e \in Elements |-> {}]
    /\ bad = FALSE
    /\ done = FALSE

-----------------------------------------------------------------------------
\* The carriage return stays on the line, since the loop that should remove it
\* looks at the byte behind the last one.  So a delimiter is not alone on its
\* line, a row does not end in a bar, and nothing is blank.
KindWithReturn(kind) ==
    CASE kind \in {"dollars", "lbracket"} -> "formula"
      [] kind \in {"rbracket", "blank", "separator", "row"} -> "text"
      [] OTHER -> kind
Kind(l) == IF l.cr THEN KindWithReturn(l.kind) ELSE l.kind

IsRow(l) == Kind(l) \in {"row", "separator"}

\* The look ahead does remove the carriage return.
NextIsSeparator == next.kind = "separator"

\* The order in which elements are closed, when several are.
Rank == [p |-> 1, ul |-> 2, table |-> 3, code |-> 4, math |-> 5]

\* Closing tags do not match if one is written that is not open, or before
\* that of an element opened inside it.
Mismatch(closed) ==
    \/ ~(closed \subseteq open)
    \/ \E e \in closed, f \in open :
          e \in within[f] /\ (f \in closed => Rank[e] < Rank[f])

\* The tags that close the elements of the first set are written, and then
\* those that open the elements of the second.
Write(closed, opened) ==
    /\ bad' = (bad \/ Mismatch(closed))
    /\ open' = (open \ closed) \cup opened
    /\ within' = [e \in Elements |-> IF e \in opened THEN open \ closed
                                     ELSE within[e]]

\* The flags follow the tags.
Tags(closed, opened) ==
    /\ Write(closed, opened)
    /\ flags' = (flags \ closed) \cup opened

\* A line that is not a row ends the table, before anything else is done.
TableEnd == IF IsRow(line) THEN {} ELSE flags \cap {"table"}

\* What a block ends before it begins.
Flow == flags \cap {"p", "ul"}

-----------------------------------------------------------------------------
(* The branches for one line, in their order.                                *)

\* A formula goes on up to a line that is a delimiter.
MathLine ==
    /\ "math" \in flags
    /\ Tags(TableEnd \cup IF Kind(line) \in {"dollars", "rbracket"} THEN {"math"} ELSE {}, {})

\* Mutant of MathStart: a formula does not end the list before it.
MathStartInList ==
    /\ "math" \notin flags
    /\ Kind(line) \in {"dollars", "lbracket"}
    /\ Tags(TableEnd \cup (flags \cap {"p"}), {"math"})

\* A formula begins, even inside a code block.
MathStart ==
    /\ "math" \notin flags
    /\ Kind(line) \in {"dollars", "lbracket"}
    /\ Tags(TableEnd \cup Flow, {"math"})

Fence ==
    /\ "math" \notin flags
    /\ Kind(line) = "fence"
    /\ Tags(TableEnd \cup Flow \cup (flags \cap {"code"}), {"code"} \ flags)

CodeLine ==
    /\ "math" \notin flags /\ "code" \in flags
    /\ Kind(line) \notin {"dollars", "lbracket", "fence"}
    /\ Tags(TableEnd, {})

\* Outside formulas and code, for lines that begin neither.
Plain ==
    /\ flags \cap {"math", "code"} = {}
    /\ Kind(line) \notin {"dollars", "lbracket", "fence"}

Blank ==
    /\ Plain
    /\ Kind(line) = "blank"
    /\ Tags(TableEnd \cup Flow, {})

\* A row begins a table if a separator comes next.
TableStart ==
    /\ Plain
    /\ IsRow(line) /\ "table" \notin flags /\ NextIsSeparator
    /\ Tags(Flow, {"table"})

\* A row of a table has balanced tags, and a separator none.
TableRow ==
    /\ Plain
    /\ IsRow(line) /\ "table" \in flags
    /\ Tags({}, {})

Heading ==
    /\ Plain
    /\ Kind(line) = "heading"
    /\ Tags(TableEnd \cup Flow, {})

Item ==
    /\ Plain
    /\ Kind(line) = "item"
    /\ Tags(TableEnd \cup (flags \cap {"p"}), {"ul"} \ flags)

\* Any other line, a row without a table included, is text of a paragraph.
Text ==
    /\ Plain
    /\ \/ Kind(line) \in {"rbracket", "formula", "text"}
       \/ IsRow(line) /\ "table" \notin flags /\ ~NextIsSeparator
    /\ Tags(TableEnd \cup (flags \cap {"ul"}), {"p"} \ flags)

Advance ==
    /\ line' = next
    /\ next' \in IF next = End THEN {End} ELSE Lines \cup {End}

Line ==
    /\ line # End
    /\ \/ MathLine \/ MathStart \/ Fence \/ CodeLine \/ Blank
       \/ TableStart \/ TableRow \/ Heading \/ Item \/ Text
    /\ Advance
    /\ UNCHANGED done

\* Behind the last line everything is closed.
Finish ==
    /\ line = End /\ ~done
    /\ Tags(flags, {})
    /\ done' = TRUE
    /\ UNCHANGED <<line, next>>

MarkdownNext == Line \/ Finish
MarkdownSpec == MarkdownInit /\ [][MarkdownNext]_markdownVars

-----------------------------------------------------------------------------
(* Properties.                                                               *)

\* The page keeps its shape whatever a statement contains: every tag written is
\* closed, innermost first.  The one text that breaks it begins a formula
\* inside a code block and ends before the formula does.
WellNested ==
    /\ done => open = {}
    /\ bad => done /\ within["math"] = {"code"}
=============================================================================

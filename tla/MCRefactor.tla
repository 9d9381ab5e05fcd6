---------------------------- MODULE MCRefactor -----------------------------
EXTENDS Refactor

CONSTANTS a, c, t

\* Line 2 of a is a separator, line 3 the doc comment of the symbol in line 4, line 5 is blank.
MCAbove == {<<a, 3>>}
MCBelow == {<<a, 5>>}
MCSeparators == {<<a, 2>>}

FromTo(from, to) == [from |-> from, to |-> to]
Number(from, to) == [symbol |-> FALSE, from |-> from, to |-> to]
Symbol(from, to) == [symbol |-> TRUE, from |-> from, to |-> to]
Extract(raw, symbol, copy, updates) ==
    [extract |-> TRUE, raw |-> raw, create |-> t, source |-> a, copy |-> copy, remove |-> <<symbol>>,
     updates |-> updates]
Explicit(create, source, remove, updates) ==
    [extract |-> FALSE, raw |-> FALSE, create |-> create, source |-> source, copy |-> FromTo(1, 1),
     remove |-> remove, updates |-> updates]
Edit(f, action, line, end, size) ==
    [file |-> f, action |-> action, line |-> line, end |-> end, size |-> size, repeats |-> 0, to |-> 0]
Replace(f, line) == Edit(f, "replace", line, 0, 1)
Move(f, line, end, to) == [Edit(f, "move", line, end, 0) EXCEPT !.to = to]
Repeating(u) == [u EXCEPT !.repeats = 1]

\* Two symbols to extract to one target, the second between comments that are removed but not
\* copied, and one extracted raw, a removal with an update of another file and one with an update
\* behind it, and a creation over a file; updates of each action, some with an end_line.
MCOperations == {
    Extract(FALSE, Symbol(1, 1), FromTo(1, 1), {Edit(c, "insert_before", 1, 0, 1)}),
    Extract(FALSE, Symbol(4, 4), FromTo(4, 4), {}),
    Extract(TRUE, Symbol(3, 4), FromTo(4, 4), {Move(c, 1, 2, 4)}),
    Explicit(None, a, <<Number(1, 2)>>, {Repeating(Edit(c, "replace", 2, 3, 2))}),
    Explicit(t, a, <<Number(3, 3)>>, {Replace(a, 4)}),
    Explicit(c, None, << >>, {Edit(a, "replace_body", 3, 4, 1), Edit(t, "insert_after", 1, 0, 1)})}
=============================================================================

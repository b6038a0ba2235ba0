------------------------------ MODULE UseDedup ------------------------------
(***************************************************************************)
(* remove_duplicate_use_items of src/fix_remaining.py: one pass over the   *)
(* lines of a Rust file that drops a `use` line, or the items of a braced  *)
(* `use` line, whose final item name an earlier `use` line of the file     *)
(* already imported.  The set of imported names is one for the whole file, *)
(* and it records an item by its name, not by the name it is bound to.     *)
(*                                                                         *)
(* A line is a record: a `use path::Item [as Alias];`, a braced            *)
(* `use path::{A [as Alias], B};`, the opening `mod m {` and the closing   *)
(* `}` of an inline module, or a line of code that refers to one           *)
(* identifier.  The string handling of the function (strip, the `use`      *)
(* regular expression, the split on `::` and on whitespace) is modelled by *)
(* what it extracts from such a line.                                      *)
(***************************************************************************)
EXTENDS Naturals, Sequences, SequencesExt

CONSTANTS
    Paths,      \* module paths, e.g. {"p", "q"}
    Items,      \* item names, e.g. {"X", "Y"}
    Aliases,    \* names an item can be imported as, e.g. {"Z"}
    NoAlias,    \* model value: the item is bound to its own name
    MaxLines,   \* lines in a file
    MaxPasses   \* runs of the script over the same file

ASSUME UseDedupAssumption ==
    /\ Items \cap Aliases = {}
    /\ NoAlias \notin Items \cup Aliases
    /\ MaxLines \in Nat
    /\ MaxPasses \in Nat

VARIABLES orig, lines, passes

vars == <<orig, lines, passes>>

-----------------------------------------------------------------------------
(* Lines and files.                                                        *)

Item == [n : Items, a : Aliases \cup {NoAlias}]

UseLines ==
    [k : {"use"}, path : Paths, brace : {FALSE}, items : {<<i>> : i \in Item}]
      \cup [k : {"use"}, path : Paths, brace : {TRUE},
            items : {ij \in Item \X [n : Items, a : {NoAlias}] : ij[1].n # ij[2].n}]

Lines ==
    UseLines \cup {[k |-> "mod"], [k |-> "close"]}
      \cup [k : {"code"}, id : Items \cup Aliases]

\* The depth of inline modules before line j.
Depth(f, j) ==
    LET opens == {i \in 1 .. j - 1 : f[i].k = "mod"}
        closes == {i \in 1 .. j - 1 : f[i].k = "close"}
    IN Cardinality(opens) - Cardinality(closes)

\* Files whose inline modules are closed and not nested.
Inputs ==
    {f \in UNION {[1 .. n -> Lines] : n \in 1 .. MaxLines} :
        /\ \A j \in 1 .. Len(f) + 1 : Depth(f, j) \in {0, 1}
        /\ Depth(f, Len(f) + 1) = 0}

-----------------------------------------------------------------------------
(* The function.                                                           *)

Names(l) == {l.items[i].n : i \in DOMAIN l.items}

\* The braced branch of the loop: keep the items whose name is new; when
\* some were dropped, rebuild the line as `use base::{A, B};` from the names
\* alone.
DedupBraced(acc, l) ==
    LET new == SelectSeq(l.items, LAMBDA i : i.n \notin acc.imported)
        acc2 == [acc EXCEPT !.imported = @ \cup Names(l)]
    IN IF new = <<>> THEN acc2
       ELSE IF Len(new) < Len(l.items)
       THEN [acc2 EXCEPT !.result =
               Append(@, [l EXCEPT !.items =
                            [i \in DOMAIN new |-> [n |-> new[i].n, a |-> NoAlias]]])]
       ELSE [acc2 EXCEPT !.result = Append(@, l)]

\* Mutant of DedupLine: a plain line's item is recorded before the test.
DedupLineAddFirst(acc, l) ==
    IF l.k # "use" THEN [acc EXCEPT !.result = Append(@, l)]
    ELSE IF ~l.brace
    THEN LET acc2 == [acc EXCEPT !.imported = @ \cup {l.items[1].n}]
         IN IF l.items[1].n \in acc2.imported THEN acc2
            ELSE [acc2 EXCEPT !.result = Append(@, l)]
    ELSE DedupBraced(acc, l)

\* One iteration of the loop over lines, on [imported, result]: a plain
\* line is dropped when its item name was imported before.
DedupLine(acc, l) ==
    IF l.k # "use" THEN [acc EXCEPT !.result = Append(@, l)]
    ELSE IF ~l.brace
    THEN IF l.items[1].n \in acc.imported THEN acc
         ELSE [imported |-> acc.imported \cup {l.items[1].n},
               result |-> Append(acc.result, l)]
    ELSE DedupBraced(acc, l)

remove_duplicate_use_items(f) ==
    FoldLeft(DedupLine, [imported |-> {}, result |-> <<>>], f).result

-----------------------------------------------------------------------------
(* A run of fix_remaining's process_file.  Its other fixers match `let`,   *)
(* format!( or `fn`, none of which these files contain.                    *)

Init ==
    /\ orig \in Inputs
    /\ lines = orig
    /\ passes = 0

ProcessRemaining ==
    /\ passes < MaxPasses
    /\ lines' = remove_duplicate_use_items(lines)
    /\ passes' = passes + 1
    /\ UNCHANGED orig

Next == ProcessRemaining

Spec == Init /\ [][Next]_vars

-----------------------------------------------------------------------------
(* Properties.                                                             *)

\* The module a line belongs to: the last open `mod` before it, or 0.
Scope(f, j) ==
    IF Depth(f, j) = 0 THEN 0
    ELSE Max({i \in 1 .. j - 1 : f[i].k = "mod"})

Bound(i) == IF i.a = NoAlias THEN i.n ELSE i.a

\* What the identifier of line j refers to: the <<path, item>> pairs that
\* `use` lines of its own module bind to that identifier.
Resolve(f, j) ==
    {<<f[u].path, f[u].items[k].n>> :
        <<u, k>> \in {uk \in (DOMAIN f) \X {1, 2} :
            /\ f[uk[1]].k = "use" /\ Scope(f, uk[1]) = Scope(f, j)
            /\ uk[2] \in DOMAIN f[uk[1]].items
            /\ Bound(f[uk[1]].items[uk[2]]) = f[j].id}}

\* The indices of the code lines, in order; the function never drops one.
CodeLines(f) == SetToSortSeq({i \in DOMAIN f : f[i].k = "code"}, <)

\* Every line of code whose identifier resolved to exactly one import before
\* the scripts ran resolves to that import after them: the deduplication
\* never drops an import some code needs (remove_duplicate_use_items).
ImportsResolve ==
    LET before == CodeLines(orig)
        after == CodeLines(lines)
    IN \A c \in DOMAIN before :
          Cardinality(Resolve(orig, before[c])) = 1
             => Resolve(lines, after[c]) = Resolve(orig, before[c])

\* A file of one module whose imports bind every item to its own name.
Flat(f) ==
    \A i \in DOMAIN f :
        /\ f[i].k # "mod"
        /\ f[i].k = "use" => \A k \in DOMAIN f[i].items : f[i].items[k].a = NoAlias

\* On such a file, deduplicating by the item's name is sound: every line of
\* code still resolves to the import it resolved to (remove_duplicate_use_items).
FlatPreserved == Flat(orig) => ImportsResolve

=============================================================================

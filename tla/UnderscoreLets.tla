--------------------------- MODULE UnderscoreLets ---------------------------
(***************************************************************************)
(* The renaming of underscore-prefixed let bindings by the build-repair    *)
(* scripts: fix_let_underscore_in_file of src/fix_final.py and             *)
(* fix_underscore_variables of src/fix_remaining.py.  Both find every      *)
(* `let [mut] _x =` with one regular expression and, when `x` occurs later *)
(* in the file, cut `_x` out and splice `x` in at the match's character    *)
(* offsets.  fix_final walks the matches from the last to the first;       *)
(* fix_remaining walks them from the first, on offsets taken from the file *)
(* before any edit.                                                        *)
(*                                                                         *)
(* A file is a sequence of one-character strings, because the scripts work *)
(* on character offsets; it is always the rendering of a short program of  *)
(* let statements and uses over the names in Names, so that the regular    *)
(* expressions are evaluated by what they match on that alphabet.  The     *)
(* ghost variable orig keeps the program the file was rendered from.       *)
(***************************************************************************)
EXTENDS PyStrings

CONSTANTS
    Names,      \* one-letter variable names, e.g. {"a", "b"}
    MaxStmts,   \* statements in a file
    MaxPasses,  \* runs of the scripts over the same file, in any order
    Scripts     \* the scripts that are run: a subset of {"final", "remaining"}

ASSUME LetsAssumption ==
    /\ Names \subseteq {"a", "b", "c"}
    /\ MaxStmts \in Nat \ {0}
    /\ MaxPasses \in Nat
    /\ Scripts \subseteq {"final", "remaining"}

VARIABLES
    orig,   \* the program the file was rendered from
    text,   \* the file
    ran     \* the scripts run over it so far, in order

vars == <<orig, text, ran>>

-----------------------------------------------------------------------------
(* Characters and programs.                                                *)

KwLet == <<"l", "e", "t">>
KwMut == <<"m", "u", "t">>

\* A statement: `let [mut] _x=1;`, `let [mut] x=1;` or the use `x;`.
Stmts ==
    [kind : {"letu"}, mut : BOOLEAN, x : Names]
      \cup [kind : {"letp"}, mut : {FALSE}, x : Names]
      \cup [kind : {"use"}, mut : {FALSE}, x : Names]

RenderStmt(s) ==
    IF s.kind = "use" THEN <<s.x, ";">>
    ELSE KwLet \o <<" ">> \o (IF s.mut THEN KwMut \o <<" ">> ELSE <<>>)
           \o (IF s.kind = "letu" THEN <<"_", s.x>> ELSE <<s.x>>)
           \o <<"=", "1", ";">>

Render(prog) == FoldLeft(LAMBDA acc, s : acc \o RenderStmt(s), <<>>, prog)

Inputs == UNION {[1 .. n -> Stmts] : n \in 1 .. MaxStmts}

-----------------------------------------------------------------------------
(* The regular expressions of the two scripts.                            *)

\* re.search(rf'(?<![a-z_]){w}(?![a-z0-9_])', s)
UsedLook(s, w) ==
    \E i \in 1 .. Len(s) :
        /\ At(s, i, w)
        /\ i = 1 \/ s[i - 1] \notin Lower \cup {"_"}
        /\ i + Len(w) > Len(s) \/ s[i + Len(w)] \notin WordChars

\* A match of r'\blet\s+(mut\s+)?(_[a-z][a-z0-9_]*)\s*=' starting at i, as
\* [s2 |-> start(2), e2 |-> end(2), end |-> end(), pl |-> group(2)[1:]].
LetMatch(t, i) ==
    LET j == Span(t, i + 3, Space)
        v == IF At(t, j, KwMut) /\ Span(t, j + 3, Space) > j + 3
             THEN Span(t, j + 3, Space) ELSE j
        e == Span(t, v + 2, IdentChars)
        w == Span(t, e, Space)
    IN [ok |-> /\ At(t, i, KwLet)
               /\ i = 1 \/ t[i - 1] \notin WordChars
               /\ j > i + 3
               /\ v + 1 <= Len(t) /\ t[v] = "_" /\ t[v + 1] \in Lower
               /\ w <= Len(t) /\ t[w] = "=",
        s2 |-> v - 1, e2 |-> e - 1, end |-> w, pl |-> Slice(t, v, e - 1)]

\* list(let_pattern.finditer(content)): the matches in the order of the text.
LetMatches(t) ==
    LET pos == SetToSortSeq({i \in 1 .. Len(t) : LetMatch(t, i).ok}, <)
    IN [k \in DOMAIN pos |-> LetMatch(t, pos[k])]

\* content[:match.start(2)] + plain_var + content[match.end(2):]
Splice(c, m) == Slice(c, 0, m.s2) \o m.pl \o Slice(c, m.e2, Len(c))

-----------------------------------------------------------------------------
(* The two scripts.                                                        *)

\* One iteration of fix_final's loop: rename when the plain name occurs
\* as a word after the match.
FinalStep(c, m) ==
    IF UsedWord(Slice(c, m.end, Len(c)), m.pl) THEN Splice(c, m) ELSE c

\* Mutant of fix_let_underscore_in_file: the matches are walked forwards.
FixLetForward(t) == FoldLeft(FinalStep, t, LetMatches(t))

\* fix_let_underscore_in_file: the matches from the last to the first.
fix_let_underscore_in_file(t) == FoldLeft(FinalStep, t, Reverse(LetMatches(t)))

\* Mutant of RemainingStep: the use is searched for in the whole file.
RemainingStepWholeFile(c, m) ==
    IF UsedLook(c, m.pl) THEN Splice(c, m) ELSE c

\* One iteration of fix_remaining's loop, with its look-around search.
RemainingStep(c, m) ==
    IF UsedLook(Slice(c, m.end, Len(c)), m.pl) THEN Splice(c, m) ELSE c

\* fix_underscore_variables: finditer runs over the string it was given,
\* so the matches are those of the unedited file, walked forwards.  The
\* fixed replacements that follow it name value, writes_count, flush_count
\* and result, which no file over Names contains.
fix_underscore_variables(t) == FoldLeft(RemainingStep, t, LetMatches(t))

-----------------------------------------------------------------------------
(* A run of a script's process_file over the file.  The other fixers       *)
(* process_file calls match format!(, snake-case names, DbError, std type  *)
(* names, `fn` or `use`, none of which a file over Names contains.         *)

Init ==
    /\ orig \in Inputs
    /\ text = Render(orig)
    /\ ran = <<>>

ProcessFinal ==
    /\ "final" \in Scripts
    /\ Len(ran) < MaxPasses
    /\ text' = fix_let_underscore_in_file(text)
    /\ ran' = Append(ran, "final")
    /\ UNCHANGED orig

ProcessRemaining ==
    /\ "remaining" \in Scripts
    /\ Len(ran) < MaxPasses
    /\ text' = fix_underscore_variables(text)
    /\ ran' = Append(ran, "remaining")
    /\ UNCHANGED orig

Next == ProcessFinal \/ ProcessRemaining

Spec == Init /\ [][Next]_vars

-----------------------------------------------------------------------------
(* Properties.                                                             *)

\* The rename the scripts' docstrings describe: `let [mut] _x` becomes
\* `let [mut] x` exactly when x is used in a later statement.
Reference(prog) ==
    [i \in DOMAIN prog |->
        IF /\ prog[i].kind = "letu"
           /\ \E j \in i + 1 .. Len(prog) :
                 prog[j].kind \in {"letp", "use"} /\ prog[j].x = prog[i].x
        THEN [prog[i] EXCEPT !.kind = "letp"]
        ELSE prog[i]]

\* After any runs of the scripts, the file is the original program with
\* exactly the used underscore lets renamed, and nothing else of it
\* changed (fix_let_underscore_in_file, fix_underscore_variables).
RenameCorrect == ran # <<>> => text = Render(Reference(orig))

\* Once fix_final has run first, the file is the reference rename, and it
\* stays so under any later run of either script: the reverse walk keeps
\* every offset valid, and neither script then finds a used underscore let
\* (fix_let_underscore_in_file, then either script again).
FinalRenameCorrect ==
    ran # <<>> /\ ran[1] = "final" => text = Render(Reference(orig))

\* fix_remaining's offsets go stale only after a rename shortened the file:
\* a file in which at most one let needs renaming is repaired exactly as
\* the reference says, by either script in any order
\* (fix_underscore_variables, fix_let_underscore_in_file).
SingleRenameCorrect ==
    LET renamed == {i \in DOMAIN orig : Reference(orig)[i] # orig[i]}
    IN ran # <<>> /\ Cardinality(renamed) <= 1 => text = Render(Reference(orig))

=============================================================================

---------------------------- MODULE ParamRenames ----------------------------
(***************************************************************************)
(* The renaming of underscore-prefixed function parameters by the build-   *)
(* repair scripts: fix_fn_param_underscore of src/fix_final.py and         *)
(* fix_function_param_underscores of src/fix_remaining.py.  Both find each *)
(* `fn name(...)` with a regular expression, and for each parameter `_x:`  *)
(* whose function body uses `x`, rewrite the parameter list to `x:`.       *)
(* fix_final splices the rewritten signature back at the match's offsets;  *)
(* fix_remaining replaces the first occurrence of the original parameter   *)
(* text from the function's start.  Both take the matches and the          *)
(* signature text from the file as it was before any edit.                 *)
(*                                                                         *)
(* A file is the rendering of up to MaxFns functions `fn f(_a:T,b:T){a;}`  *)
(* over the names in Names; orig keeps the program it was rendered from.   *)
(***************************************************************************)
EXTENDS PyStrings

CONSTANTS
    Names,      \* one-letter parameter names, e.g. {"a", "b"}
    MaxFns,     \* functions in a file
    MaxPasses,  \* runs of the scripts over the same file
    Scripts     \* the scripts that are run: a subset of {"final", "remaining"}

ASSUME ParamsAssumption ==
    /\ Names \subseteq {"a", "b", "c"}
    /\ MaxFns \in 1 .. 3
    /\ MaxPasses \in Nat
    /\ Scripts \subseteq {"final", "remaining"}

VARIABLES
    orig,   \* the program the file was rendered from
    text,   \* the file
    ran     \* the scripts run over it so far, in order

vars == <<orig, text, ran>>

-----------------------------------------------------------------------------
(* Programs.                                                               *)

Params == [u : BOOLEAN, x : Names]
\* One or two parameters of distinct names; a body of up to two uses `x;`.
ParamLists == {<<p>> : p \in Params} \cup {pq \in Params \X Params : pq[1].x # pq[2].x}
Bodies == {<<>>} \cup {<<x>> : x \in Names} \cup {xy \in Names \X Names : xy[1] # xy[2]}
Fns == [params : ParamLists, body : Bodies]
Inputs == UNION {[1 .. n -> Fns] : n \in 1 .. MaxFns}

FnName == <<"f", "g", "h">>

RenderParam(p) == (IF p.u THEN <<"_">> ELSE <<>>) \o <<p.x, ":", "T">>

RenderFn(i, f) ==
    <<"f", "n", " ", FnName[i], "(">>
      \o FoldLeft(LAMBDA acc, k : acc \o (IF k = 1 THEN <<>> ELSE <<",">>)
                                      \o RenderParam(f.params[k]),
                  <<>>, [k \in DOMAIN f.params |-> k])
      \o <<")", "{">>
      \o FoldLeft(LAMBDA acc, x : acc \o <<x, ";">>, <<>>, f.body)
      \o <<"}">>

Render(prog) ==
    FoldLeft(LAMBDA acc, i : acc \o RenderFn(i, prog[i]), <<>>,
             [i \in DOMAIN prog |-> i])

-----------------------------------------------------------------------------
(* The regular expressions of the two scripts.                            *)

\* re.findall(r'(_[a-z][a-z0-9_]*)\s*:', s): the underscore names that a
\* colon follows, left to right (on these files a match never starts
\* inside an identifier, so a scan for leading underscores finds them).
UParams(s) ==
    LET ends(q) == Span(s, q + 2, IdentChars)
        at == {q \in 1 .. Len(s) - 1 :
                 /\ s[q] = "_" /\ s[q + 1] \in Lower
                 /\ q = 1 \/ s[q - 1] \notin IdentChars
                 /\ Span(s, ends(q), Space) <= Len(s)
                 /\ s[Span(s, ends(q), Space)] = ":"}
        qs == SetToSortSeq(at, <)
    IN [k \in DOMAIN qs |-> SubSeq(s, qs[k], ends(qs[k]) - 1)]

\* fix_final's r'(fn\s+\w+\s*(?:<[^>]*>)?\s*\([^)]*_[a-z][a-z0-9_]*\s*:[^)]*\))'
\* at 1-based i, as [start |-> start(), end |-> end(), sig |-> group(1)]; no
\* file has generics, so the optional <...> never matches.
FinalFnMatch(t, i) ==
    LET j == Span(t, i + 2, Space)
        k == Span(t, j, WordChars)
        l == Span(t, k, Space)
        r == Find(t, <<")">>, l)
    IN [ok |-> /\ At(t, i, <<"f", "n">>)
               /\ j > i + 2 /\ k > j
               /\ l <= Len(t) /\ t[l] = "("
               /\ r # -1
               /\ UParams(Slice(t, l, r)) # <<>>,
        start |-> i - 1, end |-> r + 1, sig |-> Slice(t, i - 1, r + 1)]

\* fix_remaining's r'fn\s+\w+[^{]*\(([^)]*)\)[^{]*\{' at 1-based i, as
\* [start |-> start(), end |-> end(), params |-> group(1)]: the last `(`
\* before the first `{` whose `)` also comes before that `{`.
RemFnMatch(t, i) ==
    LET j == Span(t, i + 2, Space)
        k == Span(t, j, WordChars)
        b == Find(t, <<"{">>, k - 1)
        opens == {p \in k .. b : t[p] = "(" /\ Find(t, <<")">>, p) \in 0 .. b - 1}
        p == IF opens = {} THEN 0 ELSE Max(opens)
    IN [ok |-> At(t, i, <<"f", "n">>) /\ j > i + 2 /\ k > j /\ b # -1 /\ opens # {},
        start |-> i - 1, end |-> b + 1,
        params |-> Slice(t, p, Find(t, <<")">>, p))]

\* finditer of each script's pattern: the matches in the order of the text.
FinalMatches(t) ==
    LET pos == SetToSortSeq({i \in 1 .. Len(t) : FinalFnMatch(t, i).ok}, <)
    IN [n \in DOMAIN pos |-> FinalFnMatch(t, pos[n])]

RemMatches(t) ==
    LET pos == SetToSortSeq({i \in 1 .. Len(t) : RemFnMatch(t, i).ok}, <)
    IN [n \in DOMAIN pos |-> RemFnMatch(t, pos[n])]

Colon(w) == w \o <<":">>

-----------------------------------------------------------------------------
(* The two scripts.                                                        *)

\* Mutant of FinalParamStep: the body is the rest of the file from the brace.
FinalParamStepRestOfFile(c, m, up) ==
    LET bs == Find(c, <<"{">>, m.end)
    IN IF bs # -1 /\ UsedWord(Slice(c, bs, Len(c)), Tail(up))
       THEN Slice(c, 0, m.start) \o PyReplace(m.sig, Colon(up), Colon(Tail(up)))
              \o Slice(c, m.end, Len(c))
       ELSE c

\* The inner iteration of fix_fn_param_underscore for parameter up of match
\* m: the body is found from m's end in the edited file, and the signature
\* rewritten from m's text is spliced in at m's offsets.
FinalParamStep(c, m, up) ==
    LET bs == Find(c, <<"{">>, m.end)
        body == Slice(c, bs, BraceEnd(c, bs + 1))
    IN IF bs # -1 /\ UsedWord(body, Tail(up))
       THEN Slice(c, 0, m.start) \o PyReplace(m.sig, Colon(up), Colon(Tail(up)))
              \o Slice(c, m.end, Len(c))
       ELSE c

fix_fn_param_underscore(t) ==
    FoldLeft(LAMBDA c, m : FoldLeft(LAMBDA c2, up : FinalParamStep(c2, m, up),
                                    c, UParams(m.sig)),
             t, FinalMatches(t))

\* Mutant of RemParamStep: the rewritten parameters are spliced in at the
\* function's start instead of where the parameters are.
RemParamStepAtStart(c, m, up) ==
    LET body == Slice(c, m.end, BraceEnd(c, m.end))
    IN IF UsedWord(body, Tail(up))
       THEN Slice(c, 0, m.start) \o PyReplace(m.params, Colon(up), Colon(Tail(up)))
              \o Slice(c, m.start + Len(m.params), Len(c))
       ELSE c

\* The inner iteration of fix_function_param_underscores: the body runs
\* from m's end, and the first occurrence of m's parameter text from the
\* function's start is replaced by its rewritten form.
RemParamStep(c, m, up) ==
    LET body == Slice(c, m.end, BraceEnd(c, m.end))
    IN IF UsedWord(body, Tail(up))
       THEN Slice(c, 0, m.start)
              \o PyReplaceFirst(Slice(c, m.start, Len(c)), m.params,
                                PyReplace(m.params, Colon(up), Colon(Tail(up))))
       ELSE c

fix_function_param_underscores(t) ==
    FoldLeft(LAMBDA c, m : FoldLeft(LAMBDA c2, up : RemParamStep(c2, m, up),
                                    c, UParams(m.params)),
             t, RemMatches(t))

-----------------------------------------------------------------------------
(* A run of a script's process_file over the file.  The other fixers it    *)
(* calls before these match let, format!(, snake-case names, DbError, std  *)
(* type names or `use`, none of which these files contain.                 *)

Init ==
    /\ orig \in Inputs
    /\ text = Render(orig)
    /\ ran = <<>>

ProcessFinal ==
    /\ "final" \in Scripts
    /\ Len(ran) < MaxPasses
    /\ text' = fix_fn_param_underscore(text)
    /\ ran' = Append(ran, "final")
    /\ UNCHANGED orig

ProcessRemaining ==
    /\ "remaining" \in Scripts
    /\ Len(ran) < MaxPasses
    /\ text' = fix_function_param_underscores(text)
    /\ ran' = Append(ran, "remaining")
    /\ UNCHANGED orig

Next == ProcessFinal \/ ProcessRemaining

Spec == Init /\ [][Next]_vars

-----------------------------------------------------------------------------
(* Properties.                                                             *)

\* The rename the scripts' docstrings describe: a parameter `_x` becomes
\* `x` exactly when its own function's body uses x.
Reference(prog) ==
    [i \in DOMAIN prog |->
        [prog[i] EXCEPT !.params =
            [k \in DOMAIN @ |->
                IF @[k].u /\ \E n \in DOMAIN prog[i].body : prog[i].body[n] = @[k].x
                THEN [@[k] EXCEPT !.u = FALSE] ELSE @[k]]]]

\* The (function, parameter) pairs the reference renames.
ToRename(prog) ==
    {<<i, k>> \in (DOMAIN prog) \X {1, 2} :
        k \in DOMAIN prog[i].params /\ Reference(prog)[i].params[k] # prog[i].params[k]}

\* The programs that differ from prog only in underscore parameters that
\* lost their underscore.
Renamings(prog) ==
    {[i \in DOMAIN prog |->
        [prog[i] EXCEPT !.params =
            [k \in DOMAIN @ |-> IF <<i, k>> \in R THEN [@[k] EXCEPT !.u = FALSE] ELSE @[k]]]] :
      R \in SUBSET {<<i, k>> \in (DOMAIN prog) \X {1, 2} :
                      k \in DOMAIN prog[i].params /\ prog[i].params[k].u}}

\* The file is the original program up to parameters that lost their
\* underscore: no brace, parenthesis, parameter or statement is lost or
\* duplicated.
WellFormed == \E p \in Renamings(orig) : text = Render(p)

\* As long as only fix_remaining has run, the file stays the original
\* program up to parameters that lost their underscore, however stale the
\* offsets its replace from the function's start works with
\* (fix_function_param_underscores).  fix_final has no such guarantee: its
\* splice at offsets of the unedited file loses a brace once an earlier
\* function's signature got shorter.
RemainingWellFormed == (\A n \in DOMAIN ran : ran[n] = "remaining") => WellFormed

\* A file in which no underscore parameter is used by its function is left
\* byte for byte as it was, by either script and any number of runs: the
\* body a parameter is looked up in is its own function's
\* (fix_fn_param_underscore, fix_function_param_underscores).
NoNeedNoChange == ToRename(orig) = {} => text = Render(orig)

=============================================================================

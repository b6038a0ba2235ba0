------------------------------ MODULE PyStrings ------------------------------
(***************************************************************************)
(* Python's str operations and the regular-expression classes the build-   *)
(* repair scripts under src/ use, on strings represented as sequences of   *)
(* one-character strings.  Offsets are 0-based as in Python; a slice or a  *)
(* search past the end is clamped as Python clamps it.                     *)
(***************************************************************************)
EXTENDS Integers, Sequences, SequencesExt

Lower == {"a", "b", "c", "d", "e", "f", "g", "h", "i", "j", "k", "l", "m",
          "n", "o", "p", "q", "r", "s", "t", "u", "v", "w", "x", "y", "z"}
Upper == {"A", "B", "C", "D", "E", "F", "G", "H", "I", "J", "K", "L", "M",
          "N", "O", "P", "Q", "R", "S", "T", "U", "V", "W", "X", "Y", "Z"}
Digits == {"0", "1", "2", "3", "4", "5", "6", "7", "8", "9"}

\* \w, [a-z0-9_] and \s.
WordChars == Lower \cup Upper \cup Digits \cup {"_"}
IdentChars == Lower \cup Digits \cup {"_"}
Space == {" ", "\n"}

\* content[a:b], clamped at the end of the string.
Slice(t, a, b) ==
    LET hi == IF b > Len(t) THEN Len(t) ELSE b
    IN IF a >= hi THEN <<>> ELSE SubSeq(t, a + 1, hi)

\* w occurs in t at 1-based position i.
At(t, i, w) == i >= 1 /\ i + Len(w) - 1 <= Len(t) /\ SubSeq(t, i, i + Len(w) - 1) = w

\* The first 1-based position at or after i whose character is not in S
\* (i itself when i is past the end).
Span(t, i, S) ==
    CHOOSE j \in i .. IF i > Len(t) THEN i ELSE Len(t) + 1 :
        /\ j > Len(t) \/ t[j] \notin S
        /\ \A k \in i .. j - 1 : t[k] \in S

\* t.find(w, start): the 0-based offset of the first occurrence, or -1.
Find(t, w, start) ==
    LET at == {i \in (start + 1) .. Len(t) : At(t, i, w)}
    IN IF at = {} THEN -1 ELSE Min(at) - 1

\* t.replace(w, r, 1)
PyReplaceFirst(t, w, r) ==
    LET i == Find(t, w, 0)
    IN IF i = -1 THEN t ELSE Slice(t, 0, i) \o r \o Slice(t, i + Len(w), Len(t))

\* t.replace(w, r): every occurrence, left to right, without overlaps.
PyReplace(t, w, r) ==
    LET at == {i \in 1 .. Len(t) : At(t, i, w)}
        \* the occurrences a left-to-right scan replaces
        kept[i \in 0 .. Len(t)] ==
            IF i = 0 THEN {}
            ELSE IF i \in at /\ \A k \in kept[i - 1] : k + Len(w) <= i
                 THEN kept[i - 1] \cup {i} ELSE kept[i - 1]
        piece(i) == IF i \in kept[Len(t)] THEN r
                    ELSE IF \E k \in kept[Len(t)] : k < i /\ i < k + Len(w)
                         THEN <<>> ELSE <<t[i]>>
    IN FoldLeft(LAMBDA acc, i : acc \o piece(i), <<>>, [i \in 1 .. Len(t) |-> i])

\* re.search(rf'\b{w}\b', s) for a word w.
UsedWord(s, w) ==
    \E i \in 1 .. Len(s) :
        /\ At(s, i, w)
        /\ i = 1 \/ s[i - 1] \notin WordChars
        /\ i + Len(w) > Len(s) \/ s[i + Len(w)] \notin WordChars

\* The number of occurrences of the character ch in t[a..b] (1-based).
CountChar(t, a, b, ch) == Cardinality({k \in a .. b : t[k] = ch})

\* The loop that finds a function's closing brace: starting at the 0-based
\* offset p just after an opening brace with brace_count = 1, the offset
\* after the brace that brings the count to 0, or len(content).
BraceEnd(t, p) ==
    LET ends == {q \in (p + 1) .. Len(t) :
                    1 + CountChar(t, p + 1, q, "{") - CountChar(t, p + 1, q, "}") = 0}
    IN IF p >= Len(t) THEN p ELSE IF ends = {} THEN Len(t) ELSE Min(ends)

=============================================================================

---------------------------- MODULE LogPattern -----------------------------
(***************************************************************************)
(* LogFormatter::init (src/src/log.cpp:213-319): the parser that turns a   *)
(* log pattern such as "[%d{%Y-%m-%d}]%T%m%n" into format items.  A        *)
(* pattern is a sequence of one-character strings; the outer loop over i   *)
(* and the inner scan over n are RECURSIVE operators that follow the code  *)
(* statement by statement, with its 0-based indices.                       *)
(*                                                                         *)
(* Logger decides a configured formatter's isError() with it; formatters   *)
(* are written as tokens (literal text, or a directive with or without a   *)
(* {format}) and rendered to characters.                                   *)
(***************************************************************************)
EXTENDS Naturals, Sequences

CONSTANTS
    Alpha,      \* the characters isalpha() accepts, among those used
    Names       \* directive names with a FormatItem (s_format_items), as sequences

\* m_pattern[k] and m_pattern.substr(pos, len), 0-based.
At(p, k) == p[k + 1]
SubStr(p, pos, len) == SubSeq(p, pos + 1, pos + len)

\* The entries of vec: <<str, fmt, type>>, type 1 for a directive.
Entry(s, f, type) == [s |-> s, fmt |-> f, type |-> type]
PatternError == <<"<<pattern_error>>">>

\* Lines 258-262 and 271-274: push the pending literal text, if any.
Flush(vec, nstr) == IF nstr # <<>> THEN Append(vec, Entry(nstr, <<>>, 0)) ELSE vec

\* Lines 235-257: scan the directive that starts at i; returns where the
\* scan stopped, fmt_status, the name read before '{' and the format.
\* The test on line 236 reads m_pattern[i] (the '%') where m_pattern[n]
\* was meant; it is kept as written.
RECURSIVE Scan(_, _, _, _, _, _)
Scan(p, i, n, st, fb, str) ==
    LET stop(m, s, f) == [n |-> m, st |-> s, str |-> str, fmt |-> f] IN
    IF n >= Len(p) THEN stop(n, st, <<>>)
    ELSE IF st = 0 /\ At(p, n) \notin Alpha /\ At(p, n) # "{" /\ At(p, i) # "}"
    THEN stop(n, st, <<>>)
    ELSE IF st = 0 /\ At(p, n) = "{"
    THEN Scan(p, i, n + 1, 1, n, SubStr(p, i + 1, n - i - 1))
    ELSE IF st = 1 /\ At(p, n) = "}"
    THEN stop(n + 1, 2, SubStr(p, fb + 1, n - fb - 1))
    ELSE Scan(p, i, n + 1, st, fb, str)

\* Lines 216-282: the outer loop; returns vec.
RECURSIVE Parse(_, _, _, _)
Parse(p, i, nstr, vec) ==
    IF i >= Len(p) THEN Flush(vec, nstr)
    ELSE IF At(p, i) # "%" THEN Parse(p, i + 1, nstr \o <<At(p, i)>>, vec)
    ELSE IF i + 1 < Len(p) /\ At(p, i + 1) = "%"
    THEN Parse(p, i + 1, nstr \o <<"%">>, vec)
    ELSE LET r == Scan(p, i, i + 1, 0, 0, <<>>) IN
         IF r.st = 0
         THEN Parse(p, r.n, <<>>,
                    Append(Flush(vec, nstr), Entry(SubStr(p, i + 1, r.n - i - 1), <<>>, 1)))
         ELSE IF r.st = 1
         THEN Parse(p, i + 1, nstr, Append(vec, Entry(PatternError, <<>>, 0)))
         ELSE Parse(p, r.n, <<>>, Append(Flush(vec, nstr), Entry(r.str, r.fmt, 1)))

\* Lines 301-317: m_items; a directive without a FormatItem becomes the
\* text "<<error_format %name>>".
Item(e) ==
    IF e.type = 0 THEN [kind |-> "text", s |-> e.s, fmt |-> <<>>]
    ELSE IF e.s \in Names THEN [kind |-> "item", s |-> e.s, fmt |-> e.fmt]
    ELSE [kind |-> "text", s |-> <<"<<error_format %">> \o e.s \o <<">>">>, fmt |-> <<>>]

\* LogFormatter::init on m_pattern: the items and m_error.
FormatterInit(p) ==
    LET vec == Parse(p, 0, <<>>, <<>>) IN
    [items |-> [k \in 1..Len(vec) |-> Item(vec[k])],
     error |-> \E k \in 1..Len(vec) :
                  \/ vec[k].s = PatternError /\ vec[k].type = 0
                  \/ vec[k].type = 1 /\ vec[k].s \notin Names]

-----------------------------------------------------------------------------
(* Patterns written as tokens.                                             *)

\* A token: literal text, or a directive with its format ("braces" FALSE
\* for a directive written without {}).
Text(s) == [tag |-> "text", s |-> s]
Directive(name, braces, f) == [tag |-> "dir", name |-> name, braces |-> braces, fmt |-> f]

Render(t) ==
    IF t.tag = "text" THEN t.s
    ELSE <<"%">> \o t.name \o (IF t.braces THEN <<"{">> \o t.fmt \o <<"}">> ELSE <<>>)

RECURSIVE RenderAll(_)
RenderAll(ts) == IF ts = <<>> THEN <<>> ELSE Render(Head(ts)) \o RenderAll(Tail(ts))

=============================================================================

------------------------------- MODULE Yuarel -------------------------------
(***************************************************************************)
(* The parser of URIs (src/yuarel.c).  A string is a sequence of tokens:   *)
(* the characters the parser looks for, and the text between them.  The    *)
(* parser writes a '\0' over each separator it finds and returns pointers  *)
(* into the caller's string; the strings these point to are what the       *)
(* operators below give.                                                   *)
(***************************************************************************)
EXTENDS Integers, Sequences, FiniteSets

NullString == <<"NULL">>   \* a NULL pointer; not a token of any string
IsString(s) == s \in Seq({s[i] : i \in DOMAIN s} \ {"NULL"})

strchr(s, c) ==
    IF \E i \in DOMAIN s : s[i] = c
    THEN CHOOSE i \in DOMAIN s : s[i] = c /\ \A j \in 1 .. i - 1 : s[j] # c
    ELSE 0

\* What the '\0' leaves of the string, and the string behind it.
find_and_terminate(s, c) ==
    LET i == strchr(s, c)
    IN IF i = 0 THEN [left |-> s, next |-> NullString]
       ELSE [left |-> SubSeq(s, 1, i - 1), next |-> SubSeq(s, i + 1, Len(s))]

find_fragment(u) == find_and_terminate(u, "#")
find_query(u) == find_and_terminate(u, "?")
find_path(u) ==
    LET p == find_and_terminate(u, "/") IN IF p.next = NullString THEN u ELSE p.next

yuarel_parse_QueryFirst(u) ==  \* mutant: the query is cut off before the fragment
    LET query == find_query(u)
        fragment == find_fragment(query.left)
    IN [fragment |-> fragment.next, query |-> query.next, path |-> find_path(fragment.left)]
yuarel_parse(u) ==
    LET fragment == find_fragment(u)
        query == find_query(fragment.left)
    IN [fragment |-> fragment.next, query |-> query.next, path |-> find_path(query.left)]

Param(s) ==
    LET cut == find_and_terminate(s, "=") IN [key |-> cut.left, val |-> cut.next]

\* The parameters found; <<>> stands for the -1 of a query that is missing or empty.
\* The last of max_params parameters takes all that is left.
yuarel_parse_query(query, delimiter, max_params) ==
    LET rest[i \in 0 .. max_params] ==   \* what is left after i delimiters
            IF i = 0 THEN query
            ELSE IF rest[i - 1] = NullString THEN NullString
            ELSE find_and_terminate(rest[i - 1], delimiter).next
        found == Cardinality({i \in 0 .. max_params - 1 : rest[i] # NullString})
        piece(i) == IF i = found THEN rest[i - 1]
                    ELSE find_and_terminate(rest[i - 1], delimiter).left
    IN IF query = NullString \/ query = <<>> THEN <<>>
       ELSE [i \in 1 .. found |-> Param(piece(i))]

-----------------------------------------------------------------------------
(* What a caller may rely on.                                                *)

Preceded(c, s) == IF s = NullString THEN <<>> ELSE <<c>> \o s
Joined(params, delimiter) ==
    LET join[i \in 0 .. Len(params)] ==
            IF i = 0 THEN <<>>
            ELSE join[i - 1] \o (IF i = 1 THEN <<>> ELSE <<delimiter>>)
                 \o params[i].key \o Preceded("=", params[i].val)
    IN join[Len(params)]

\* Nothing of the URI but what precedes the first slash of its path is lost or moved,
\* and each part ends where it should: no '?' or '#' in a path, no '#' in a query, no
\* '=' in a key and no delimiter in any parameter but the last of a full array.
ParsesExactly(u, delimiter, max_params) ==
    LET url == yuarel_parse(u)
        params == yuarel_parse_query(url.query, delimiter, max_params)
        dropped == SubSeq(u, 1, Len(u) - Len(url.path \o Preceded("?", url.query)
                                             \o Preceded("#", url.fragment)))
    IN /\ dropped \o url.path \o Preceded("?", url.query) \o Preceded("#", url.fragment) = u
       /\ dropped # <<>> => strchr(dropped, "/") = Len(dropped)
       /\ strchr(url.path, "?") = 0 /\ strchr(url.path, "#") = 0
       /\ strchr(url.query, "#") = 0
       /\ url.query # NullString => Joined(params, delimiter) = url.query
       /\ Len(params) <= max_params
       /\ \A i \in DOMAIN params :
             /\ strchr(params[i].key, "=") = 0
             /\ i < max_params => strchr(params[i].key \o params[i].val, delimiter) = 0
=============================================================================

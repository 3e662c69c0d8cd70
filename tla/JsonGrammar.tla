---------------------------- MODULE JsonGrammar ----------------------------
(***************************************************************************)
(* A reference definition of the documents that parse accepts, and of the  *)
(* value each of them denotes, written from the shape of a JSON text and   *)
(* not from the parser.  A piece of a text is what stands between two of   *)
(* its positions, position i being the one after the i-th token, and       *)
(* Meaning(w, o) maps each piece of the tokens w, and the sort of thing it *)
(* may be read as, to the SET of what it then denotes under the            *)
(* parse_options o: empty when it is none.                                 *)
(***************************************************************************)
EXTENDS JsonTree

\* The tokens that are not white space or comments, among the first n and among them all.
SignificantUpTo(ts) ==
    LET kept[n \in 0 .. Len(ts)] ==
            IF n = 0 THEN <<>>
            ELSE IF ts[n].kind \in {"whitespace", "comment"} THEN kept[n - 1]
            ELSE Append(kept[n - 1], ts[n])
    IN  kept

Significant(ts) == SignificantUpTo(ts)[Len(ts)]

\* ms is a sequence of pairs <<key, value>> whose keys are distinct.
ObjectOf(ms) ==
    LET ValueOf(k) == ms[CHOOSE i \in DOMAIN ms : ms[i][1] = k][2]
    IN  [p \in {<<>>} \cup UNION {Below(Key(ms[i][1]), ms[i][2]) : i \in DOMAIN ms} |->
            IF p = <<>> THEN EmptyObject[<<>>] ELSE ValueOf(Head(p)[2])[Tail(p)]]

DistinctKeys(ms) == \A i, j \in DOMAIN ms : ms[i][1] = ms[j][1] => i = j

\* A scalar that the options o decode.
Readable(t, o) ==
    /\ t.kind \in ScalarKinds
    /\ t.kind = "string" => o.string_encoding \notin t.refused_by
    /\ t.kind = "number" => o.number_encoding \notin t.refused_by

\* The piece of w between i and j has a first token of kind a and a last one of kind b.
Brackets(w, i, j, a, b) == i + 2 <= j /\ w[i + 1].kind = a /\ w[j].kind = b

\* What a piece can be read as: a value, a member of an object, and lists of them, not
\* empty, with separators in between.
Sorts == {"value", "member", "values", "members"}

\* What is listed before the element that begins at k in the piece that begins at i.
Listed(w, m, list, i, k) ==
    IF k = i THEN {<<>>} ELSE IF w[k].kind = "separator" THEN m[<<list, i, k - 1>>] ELSE {}

Extended(lists, elements) == {Append(l, e) : l \in lists, e \in elements}

\* Where the last element of a list from i to j may begin.
Starts(w, i, j) == {k \in i .. j - 1 : k = i \/ w[k].kind = "separator"}

Lists(w, m, list, element, i, j) ==
    UNION {Extended(Listed(w, m, list, i, k), m[<<element, k, j>>]) : k \in Starts(w, i, j)}

\* What brackets may enclose: nothing, a list, and where the options allow it a list with a
\* separator after it.
Enclosed(w, o, m, list, i, j) ==
    (IF i = j THEN {<<>>} ELSE m[<<list, i, j>>])
    \cup IF i < j /\ w[j].kind = "separator" /\ o.comma_policy = "allow_trailing"
         THEN m[<<list, i, j - 1>>] ELSE {}

\* The values of a piece, and its members: pairs of a key and a value.
ValuesOf(w, o, m, i, j) ==
    CASE j = i + 1 -> IF Readable(w[j], o) THEN {Leaf(Label(w[j].kind, w[j].means))} ELSE {}
      [] Brackets(w, i, j, "array_begin", "array_end") ->
           {ArrayOf(vs) : vs \in Enclosed(w, o, m, "values", i + 1, j - 1)}
      [] Brackets(w, i, j, "object_begin", "object_end") ->
           {ObjectOf(ms) : ms \in {ms \in Enclosed(w, o, m, "members", i + 1, j - 1) :
                                     DistinctKeys(ms)}}
      [] OTHER -> {}

MembersOfPiece(w, o, m, i, j) ==
    IF Brackets(w, i, i + 2, "string", "object_key_delimiter") /\ i + 2 < j
       /\ Readable(w[i + 1], o)
    THEN {<<w[i + 1].means, v>> : v \in m[<<"value", i + 2, j>>]} ELSE {}

\* What a piece denotes, m being what the shorter ones denote.
Denotes(w, o, m, sort, i, j) ==
    CASE sort = "value"   -> ValuesOf(w, o, m, i, j)
      [] sort = "member"  -> MembersOfPiece(w, o, m, i, j)
      [] sort = "values"  -> Lists(w, m, "values", "value", i, j)
      [] sort = "members" -> Lists(w, m, "members", "member", i, j)

Pieces(w) == Sorts \X (0 .. Len(w)) \X (0 .. Len(w))

Meaning(w, o) ==
    LET m[x \in Pieces(w)] == Denotes(w, o, m, x[1], x[2], x[3]) IN m

-----------------------------------------------------------------------------

\* A value that passes the checks on the whole document.
Admissible(v, o) ==
    /\ o.require_document => KindOf(v) \in ContainerKinds
    /\ o.max_structure_depth > 0 =>
          \A p \in DOMAIN v : IsContainer(v[p]) => Len(p) + 1 < o.max_structure_depth

\* The values that the input ts denotes: one document and, if the whole input is to be
\* parsed, only NULs after it; otherwise nothing after the last token of the document.
Documents(ts, o) ==
    LET s == Significant(ts)
        NulsAfter(i) == \A j \in i + 1 .. Len(s) : s[j].nul
        ends == IF o.complete_parse
                THEN {i \in DOMAIN s : NulsAfter(i)}
                ELSE IF ts = <<>> \/ ts[Len(ts)].kind \in {"whitespace", "comment"}
                     THEN {} ELSE {Len(s)}
        values == UNION {Meaning(s, o)[<<"value", 0, i>>] : i \in ends}
    IN  IF ~o.comments /\ \E i \in DOMAIN ts : ts[i].kind = "comment"
        THEN {}
        ELSE {v \in values : Admissible(v, o)}
=============================================================================

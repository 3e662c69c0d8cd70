----------------------------- MODULE JsonReader -----------------------------
(***************************************************************************)
(* A reader that goes over the significant tokens of an input once, from   *)
(* left to right, stops at the first error and keeps what the containers   *)
(* that are open hold so far.  It stands between the reference grammar and *)
(* the parser: a function of the tokens, it has no calls, no recovery, no  *)
(* white space, and no end of the input.                                   *)
(***************************************************************************)
EXTENDS JsonGrammar

\* A state of the reader: what it expects next, the containers that are open, outermost
\* first, and at the end the value it has read.
Expects(site, s) == [at |-> site, stack |-> s, val |-> Null]
Ended(v) == [at |-> "end", stack |-> <<>>, val |-> v]
Failed == [at |-> "error", stack |-> <<>>, val |-> Null]

\* A container that has just been opened.
Opening(fn, out) == [fn |-> fn, trailing |-> FALSE, key |-> "", out |-> out]

\* The container f with one more element or member.
Grown(f, v) ==
    IF f.fn = "array" THEN [f EXCEPT !.trailing = FALSE, !.out = PushBack(@, v)]
    ELSE [f EXCEPT !.out = PutMember(@, f.key, v)]

\* A value is complete, and the containers s are open.
Absorb(s, v) ==
    IF s = <<>> THEN Ended(v)
    ELSE IF Last(s).fn = "array"
         THEN Expects("item_end", Append(Front(s), Grown(Last(s), v)))
    ELSE IF HasKey(Last(s).out, Last(s).key) THEN Failed
         ELSE Expects("member_end", Append(Front(s), Grown(Last(s), v)))

\* The innermost container ends.
Closed(s) == Absorb(Front(s), Last(s).out)

ClosedEarly(o, s) ==
    IF Last(s).trailing /\ o.comma_policy # "allow_trailing" THEN Failed ELSE Closed(s)

\* The innermost container goes on, after a separator.
Separated(f) == [f EXCEPT !.trailing = TRUE]
GoesOn(site, s) == Expects(site, Append(Front(s), Separated(Last(s))))

\* The first token of a value.
BeginsValue(o, s, t) ==
    CASE t.kind \in ScalarKinds ->
           IF Readable(t, o) THEN Absorb(s, Leaf(Label(t.kind, t.means))) ELSE Failed
      [] t.kind = "array_begin" -> Expects("item", Append(s, Opening("array", EmptyArray)))
      [] t.kind = "object_begin" -> Expects("key", Append(s, Opening("object", EmptyObject)))
      [] OTHER -> Failed

\* The key of a member.
Named(f, k) == [f EXCEPT !.trailing = FALSE, !.key = k]
BeginsMember(o, s, t) ==
    IF t.kind = "string" /\ Readable(t, o)
    THEN Expects("colon", Append(Front(s), Named(Last(s), t.means)))
    ELSE Failed

\* The reader in state c takes the token t.
Takes(o, c, t) ==
    CASE c.at = "value" -> BeginsValue(o, c.stack, t)
      [] c.at = "item" -> IF t.kind = "array_end" THEN ClosedEarly(o, c.stack)
                          ELSE BeginsValue(o, c.stack, t)
      [] c.at = "item_end" -> IF t.kind = "array_end" THEN Closed(c.stack)
                              ELSE IF t.kind = "separator" THEN GoesOn("item", c.stack)
                              ELSE Failed
      [] c.at = "key" -> IF t.kind = "object_end" THEN ClosedEarly(o, c.stack)
                         ELSE BeginsMember(o, c.stack, t)
      [] c.at = "colon" -> IF t.kind = "object_key_delimiter" THEN Expects("value", c.stack)
                           ELSE Failed
      [] c.at = "member_end" -> IF t.kind = "object_end" THEN Closed(c.stack)
                                ELSE IF t.kind = "separator" THEN GoesOn("key", c.stack)
                                ELSE Failed
      [] c.at = "end" -> IF o.complete_parse /\ t.nul THEN c ELSE Failed
      [] OTHER -> Failed

\* Its states after each of the tokens w, and after the last.
Reading(w, o) ==
    LET c[n \in 0 .. Len(w)] ==
            IF n = 0 THEN Expects("value", <<>>) ELSE Takes(o, c[n - 1], w[n])
    IN  c

Read(w, o) == Reading(w, o)[Len(w)]

-----------------------------------------------------------------------------
(* What the input has besides its significant tokens. *)

HasRefusedComment(ts, o) == ~o.comments /\ \E i \in DOMAIN ts : ts[i].kind = "comment"
EndsInAToken(ts) == ts # <<>> /\ ts[Len(ts)].kind \notin {"whitespace", "comment"}

\* What an input has to fulfil to have a document, besides the checks on its value.
Hopeful(ts, o) == ~HasRefusedComment(ts, o) /\ Read(Significant(ts), o) # Failed
=============================================================================

---------------------------- MODULE ParserGrammar ----------------------------
(***************************************************************************)
(* The parser against the reference grammar, and the reader between them.  *)
(***************************************************************************)
EXTENDS ParserRefinement, JsonReader

\* A call that ends agrees with the grammar: it returns the value its input denotes
\* when the input is a document under its options, and otherwise it throws (or, in
\* failure mode ignore, is marked unsuccessful).  This is the whole of parse_generic,
\* parse_array, parse_object and post_parse, and with complete_parse off it also says
\* that a call takes no token after its own document.
AgreesWithGrammar ==
    pc = "done" =>
        LET docs == Documents(Taken, opts)
        IN  IF outcome = "returned" /\ successful THEN val \in docs ELSE docs = {}

-----------------------------------------------------------------------------
(* Tokens that complete an input. *)

Token(kind, text, means) ==
    [kind |-> kind, text |-> text, means |-> means, refused_by |-> {},
     size |-> 1, lines |-> 0, tail |-> 0, nul |-> FALSE]

RBracket == Token("array_end", "]", "")
RBrace   == Token("object_end", "}", "")
Colon    == Token("object_key_delimiter", ":", "")
Nothing  == Token("null", "null", "")
NewKey   == Token("string", "''", "")

\* What ends the containers s, the innermost first.
Closer(f) == IF f.fn = "array" THEN RBracket ELSE RBrace
Closers(s) == [i \in DOMAIN s |-> Closer(s[Len(s) + 1 - i])]

\* What ends the value that is being read.
Missing ==
    CASE pc \in {"value", "item"} -> <<Nothing>>
      [] pc = "key" -> <<NewKey, Colon, Nothing>>
      [] pc = "colon" -> <<Colon, Nothing>>
      [] OTHER -> <<>>

\* A key has been read that its object already has.
PendingDuplicate ==
    \E i \in DOMAIN stack :
        /\ stack[i].fn = "object" /\ HasKey(stack[i].out, stack[i].key)
        /\ i < Len(stack) \/ pc \in {"colon", "value", "return"}

\* The call is successful so far, the input has not ended, and the keys are distinct, that
\* of the member which completes an object included.
NothingWrongYet ==
    /\ outcome = "running" /\ successful /\ ~complete /\ got = "none"
    /\ ~PendingDuplicate
    /\ pc = "key" => ~HasKey(Top.out, NewKey.means)

\* An error is noticed at the first token that makes the input hopeless: as long as there
\* is none, what the call has handled can be completed to a document.  (The two errors
\* parse_object and post_parse report late are left out: a duplicate key, seen after its
\* value, and the checks on the whole value.)
ErrorsAreNoticedAtOnce ==
    NothingWrongYet =>
        Documents(Significant(Handled) \o Missing \o Closers(stack),
                  [opts EXCEPT !.max_structure_depth = 0, !.require_document = FALSE]) # {}

-----------------------------------------------------------------------------
(* Why it holds. *)

\* The state of the reader that the point reached in parse.cpp and the frames amount to.
Reached ==
    CASE pc = "return" -> Absorb(stack, val)
      [] pc \in {"trailing", "finish", "done"} -> Ended(val)
      [] OTHER -> Expects(pc, stack)

\* The parser is where the reader is after the tokens it has handled, and nothing that the
\* reader does not look at is wrong with the input.
InStep ==
    /\ Read(Significant(Handled), opts) = Reached
    /\ ~HasRefusedComment(Taken, opts)
    /\ pc = "return" \/ (pc \in {"finish", "done"} /\ ~opts.complete_parse) =>
          EndsInAToken(Taken)
    /\ pc = "done" => Admissible(val, opts)
    /\ pc = "trailing" => opts.complete_parse

\* There is no document to find: not however the input goes on, or not in the input as it
\* ends, or only one whose value does not pass the checks at the end.
Lost ==
    \/ ~Hopeful(Taken, opts)
    \/ exhausted /\ Read(Significant(Taken), opts).at # "end"
    \/ pc = "done" /\ LET c == Read(Significant(Taken), opts)
                      IN  c.at = "end" => ~Admissible(c.val, opts)

\* As long as the parser has not rejected its input it is in step with the reader; when it
\* has, it is right.
FollowsTheReader == IF Rejected THEN Lost ELSE InStep
-----------------------------------------------------------------------------
(* What the parser keeps when it goes on after an error. *)

\* The value that the open containers s amount to, each in its place in the one around it.
Standing(s) ==
    LET Place(f) == IF f.fn = "array" THEN Index(Size(f.out)) ELSE Key(f.key)
        v[i \in DOMAIN s] ==
            IF i = Len(s) THEN s[i].out ELSE Put(s[i].out, Place(s[i]), v[i + 1])
    IN  v[1]

\* What has been read up to the first error stays in the value that is returned, or handed
\* out with the exception, at its place and with its content, whatever the parser makes of
\* the rest; a document that is complete is not touched by what follows it.  But when the
\* input ends too early, the containers that are open inside the outermost one are dropped
\* as a whole; and of a key that is read twice nothing is said here.  (So the recovery of
\* parse_array, parse_object and forward_to_separator, which eats tokens of enclosing
\* containers, may add values that nobody wrote, but does not cost any that were read.)
RecoveryKeepsWhatWasRead ==
    pc = "done" /\ (outcome = "returned" \/ ~FailFast) =>
        LET w == Significant(Taken)
            reading == Reading(w, opts)
            r == reading[Max({n \in DOMAIN reading : reading[n] # Failed})]
            kept == IF complete THEN r.stack[1].out ELSE Standing(r.stack)
            Once(k) == Cardinality({i \in DOMAIN w : k \in {w[i].text, w[i].means}}) = 1
        IN  /\ r.at = "end" => val = r.val
            /\ r.stack # <<>> =>
                  \A p \in DOMAIN kept :
                      (\A i \in DOMAIN p : p[i][1] = "key" => Once(p[i][2])) =>
                          p \in DOMAIN val /\ val[p] = kept[p]
=============================================================================

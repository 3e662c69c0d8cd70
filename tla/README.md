# json-voorhees in TLA+

A formal model of [json-voorhees](https://github.com/tgockel/json-voorhees), a JSON library for C++: TLA+ modules
translated from its source, TLC configurations that check them on small instances, and theorems about them that TLAPS
proves for every instance.  `PROJECT.json` maps each definition to the lines it stands for.

The library is sequential and keeps nothing on disk.  What is hard in it is not concurrency but long protocols between
functions that share a token stream, error recovery, ownership of shared nodes, rollback, and hand-written scanners.  The
properties are about those.

## Inventory

Paths are relative to the repository.

| Component | State | Operations | Interacts with | What makes it correct |
|---|---|---|---|---|
| tokenizer (`src/jsonv/tokenizer.cpp`, `detail/token_patterns.cpp`) | input, position, current token | `next`, `current`, `input`; patterns `match_*` | called by the parser | tokens are the longest lexemes, tile the input, and end |
| parser (`parse.cpp`) | `parse_context`: line, column, character, complete, successful, problems; the C++ call stack | `parse`, `parse_generic`, `parse_array`, `parse_object`, `forward_to_separator`, `post_parse`, three failure modes | tokenizer, string codec, values | accepts the language and builds its values; always ends; reports soundly |
| string codec (`char_convert.cpp`) | none | `string_decode`, `string_encode`, wide conversions; three encodings | parser, encoder, path | decoding undoes encoding; strict modes reject what they should |
| encoder (`encode.cpp`) | nesting and indentation of the pretty printer | `encode` and the `write_*` hooks | values, codec | the output parses back to the value, after an exception of the stream too |
| values (`value.cpp`, `array.cpp`, `object.cpp`, `value.hpp`) | kind and union; owned containers; node handles; iterators | copy, move, swap, clear, insert, extract, erase, `path`, `at_path` | everything | a value is owned once; nothing dangles or is lost |
| path (`path.cpp`) | a sequence of elements | print, parse, append | values, contexts | parsing undoes printing |
| algorithms (`algorithm_*.cpp`) | none | `compare`, `diff`, `merge`, `map`, `traverse`, `validate` | values | compare is an order; diff and merge lose nothing |
| coerce (`coerce.cpp`) | none | `coerce_*`, `can_coerce`, `coerce_merge` | values, parser | `can_coerce` says whether `coerce_*` throws; integer ranges |
| formats (`serialization.cpp`) | graph of shared nodes (`formats::data`): bases, extractors, serializers, owned adapters; three function statics | `compose`, `defaults`, `global`, `coerce`, `set_global`, `reset_global`, `register_*` | contexts, builder, the program's handles | lookup order; failed registrations leave nothing; nothing found is dangling |
| formats builder (`serialization_builder.cpp/.hpp`) | a formats, types referenced, action on duplicates | `type`, `register_*`, `on_duplicate_type`, `check_references`, `compose_checked` | formats | what was checked stays true |
| adapters, the DSL and contexts (`serialization_util.hpp`, `serialization_builder.hpp`, `serialization_optional.hpp`, contexts in `serialization.cpp`) | per type: members, hooks, subtypes; per member: names, default, checks; path and version of a context | the calls of the DSL; `extract`, `extract_sub`, `to_json` | formats, values | errors carry the path at which they arose; what is encoded is extracted |
| demangle, support code, tests | – | – | – | not part of the model |

Behaviours that are hard to test, each listed with its line under `hazards` in `PROJECT.json`:

* *protocols*: `parse_array`, `parse_object` and `parse_generic` share one token stream, and one token too many or too
  few shows only in the caller; a tokenizer is parsed from again.
* *partial failure*: errors inside errors when `collect_all` or `ignore` goes on; a registration that fails half way.
* *stale state*: the token after the end, the trailing-comma flag, formats checked before more is registered, adapters
  whose owners are gone.
* *boundaries*: `max_failures`, `max_structure_depth`, the end of the input inside an escape or a comment.
* *contents inside contents*: a value is moved into, swapped with or assigned from a part of itself; a container is
  given itself as an argument; an exception leaves a moved-from argument, a mapped array, an indent half way.
* *representations*: integers beside decimals at the edge of what either can hold, lengths and surrogates of UTF-8 and
  UTF-16, keys that a path cannot quote.
* *combinations*: defaults, nulls, versions, alternate names, extra keys and subtypes of the DSL, set in any order.
* *endings*: that every call of `parse` returns, though each open call asks for tokens after the last one.

## Modules

| Module | Models | Kind |
|---|---|---|
| `JsonValue` | the tree of a value, and the operations the parser uses | data, no state |
| `JsonTree` | subtrees, grafting, arrays and objects as sequences and functions | data, no state |
| `JsonAutomaton` | what `parse` promises: a pushdown automaton over tokens | abstract specification |
| `Parser` | `parse.cpp` | state machine, refines `JsonAutomaton` |
| `JsonGrammar` | a reference: the value each sequence of tokens denotes, by recursion over its pieces | data, no state |
| `JsonReader` | a reader that goes over the tokens once with the open containers: between the grammar and the parser | data, no state |
| `ParserRefinement` | the refinement mapping from `Parser` to `JsonAutomaton`, and the control invariant it rests on | refinement |
| `ParserGrammar` | the properties of `Parser` against `JsonGrammar`, and the invariant that relates it to `JsonReader` | properties |
| `MCParser` | scenarios | model checking |
| `Tokenizer` | `tokenizer.cpp`, `token_patterns.cpp` | state machine |
| `TokenizerGrammar` | a reference: the lexemes of the language, and the tokens of `Tokenizer` against it | properties |
| `MCTokenizer` | texts | model checking |
| `Formats` | the graph of formats in `serialization.cpp` | state machine |
| `FormatsBuilder` | `formats_builder`, composed with `Formats` | state machine |
| `MCFormats`, `MCFormatsBuilder` | types, adapters and bounds | model checking |
| `Values`, `MCValues` | `value.cpp`, `array.cpp`, `object.cpp`: values that own one another, node handles, access by path | state machine |
| `Algorithms`, `MCAlgorithms` | `algorithm_*.cpp`, `algorithm.hpp`, `coerce.cpp` | pure operators, asked about pairs of values |
| `Codec` | `char_convert.cpp` | pure operators |
| `PathText` | printing and parsing of paths, on the patterns of `Tokenizer` and the decoder of `Codec` | pure operators |
| `Numbers` | `parse_number` of `parse.cpp` at a small width | pure operators |
| `Encoder` | `encode.cpp`, one `write_*` call at a time | state machine |
| `EncoderGrammar` | what `Encoder` promises of its output, in terms of `JsonGrammar` | property |
| `MCText` | texts, paths, numbers and values to encode | model checking of these |
| `Adapters`, `MCAdapters` | the adapters of the DSL, and the contexts they run in | state machine over pure operators |
| `Inductions` | induction and recursion over numbers and sequences, stated with sets and functions; pieces of sequences | lemmas |
| `JsonValueLemmas` | what the operations on trees keep | lemmas |
| `GrammarProofs` | theorems about `JsonGrammar` and `JsonReader` | proofs |
| `ParserProofs` | theorems about `Parser`, its refinement of `JsonAutomaton` and its agreement with `JsonGrammar` | proofs |
| `TokenizerProofs`, `FormatsProofs`, `ValuesProofs`, `EncoderProofs` | theorems about these modules, about `FormatsBuilder` in the second | proofs |

Several components have no state: their operators are checked by a specification that takes an input in `Init` or in an
action (`Call...`, `Ask...`) and puts the result into a variable, so that the properties are invariants about a question
and its answer, and every operator is evaluated on every input.

### Parser

The C++ call stack is the variable `stack`, one frame per active `parse_array` or `parse_object` with its locals
(`trailing`, `key`, `out`).  `pc` names the call of `parse_context::next` the parser stands at; `got` is what it returned.
A call of `next` is one step per token it takes from the tokenizer (it calls itself on blanks); what the code does with
the token is one more step, one action per branch: `ArraySeparator` is `parse.cpp` 546-550, `IncompleteMember` 595-600,
and so on.  `Checked(wrong, at, step)` is a piece of code with a call of `parse_error` in it: it throws under
`fail_immediately`, and otherwise complains and goes on.  `post_parse` is `ReturnToParse`, `Trailing`, `TrailingEnd` and
`Finish`.

The tokenizer is the environment.  It delivers any token of the scenario, or the end, at any time, and everything it
delivered is in `seen`.  A token is what the parser uses of it: its kind, what it means once decoded, the option values
under which decoding fails, and its extent.  Each initial state has a *scenario*: options, the tokens to choose from, how
many of them, and how many calls of `parse` on the one tokenizer.  All nine options of `parse_options` are modelled.

`JsonAutomaton` keeps the open brackets, what may come next, and a verdict.  `ImplementsAutomaton` maps the parser to it:
`open` is the stack, `expect` the place a frame stands at, and the input counts as rejected as soon as an error is found,
though the parser may then go on for a long time.  Blanks and returns from functions are stutters.  The automaton may
refuse at any time (an encoding, a duplicate key or a limit can make the parser do so) and accepts only after a whole value.

### Tokenizer

A text is a sequence of characters.  The patterns are operators on a text and an offset; their loops ("advance while the
next character is one of ...") are `Leading`.  `NextTrue` and `NextFalse` are `tokenizer::next`.  The module calls every
failed match `error`, for any kind with `parse_error_indicator`.

### Formats and FormatsBuilder

`nodes` are the `formats::data` in the order of creation, each with its bases (`roots`), its two maps and `owned_items`.
A `formats` is a number: copies of a handle share the node, as `shared_ptr`s do.  `held` is what the program has handles
on and `kept` the adapters it has `shared_ptr`s to, so that both can be let go of (`DropFormats`, `DropAdapter`).  Nodes 1
to 3 are behind `default_formats_ref` and `coerce_formats_ref`.  A registration is one action per outcome: `Insert`,
`InsertDuplicate` (`duplicate_type_error`), `InsertNoMemory` (an allocation fails, at any of the points where one is
made), the last two with the rollback of the scope exits.  `FormatsBuilder` adds the builder, whose formats is a node of
the same graph that anyone with a handle may register with.

### Values

A value is a tree (`JsonTree`), a `value&` a variable with the path of a node below it (`Places`), so two arguments of a
call may be the same value or parts of one another, as in C++.  `Arguments` are those passed by value: fresh, a copy or a
move of any place; `Given` is what the variables are once the argument is constructed, which happens before the call
checks anything.  Each call is one action, and `last` records how it ended: what it threw, `done`, `undefined` where it
reads what it has freed, `leaked` where a container ends up inside itself.  Iterators are positions, as `array_iterator`
is an index; `Moving` is the insertion of an array's own elements, which move while they are read.  `handles` are
`object_node_handle`s with the flag `has_value` that a moved-from handle keeps.  `Walk` is `walk_path` with what `path` and
`at_path` do where it ends.

### Algorithms

Each function is an operator on trees.  Integers have `Width` bits; decimals are multiples of a half, infinities and NaN,
and hold integers exactly up to `2^Precision` only, so that the loss of `int64` to `double` happens at single digits.
The rules of a merge are operators; dynamic rules are functions from pairs of values.  `LeftByMap` is what `map` of an
rvalue leaves of it when the function throws at some call.  A conversion that C++ leaves undefined is a set of outcomes.

### Codec, PathText, Numbers, Encoder

`Codec` works on bytes and 16-bit units of their full size; masks and shifts are divisions.  A function that throws yields
the empty set, one that returns a singleton.  `PathText` instantiates `Tokenizer` for the patterns and `Codec` for the
decoding of quoted keys.  `Numbers` has `strtoull`, its saturation and the cast to signed at `Width` bits.  `Encoder` keeps
the `write_*` calls that `encode` has yet to make in `todo`; each takes one step and may be the one at which the stream
throws, after which the encoder is used again.  The calls are those of `encode` on the tree of the value: `CallsOf` is a
function on its nodes, `CallsOfContainer` one of the loops, `AndEntry` a turn of it.

### Adapters

`formats` is the function from types to adapters that lookup gives (how it finds them is in `Formats`).  The calls of the DSL are
actions that change an adapter after it was registered, as the builders do through their pointers; `Extract` and `ToJson`
are operators, written function for function: `Mutate` is `member_adapter_impl::mutate`, `Reported` the catch clauses of
`extraction_context::extract`.  A result is a value, an `extraction_error` with its path, or another exception, which is
what the catch clauses tell apart.  A `std::function` that may be empty is a sequence of at most one element.

## Runs

| Run | Checks | Bounds |
|---|---|---|
| `parser_safety` | `AgreesWithGrammar`, `ErrorsAreNoticedAtOnce`, `StackMirrorsBrackets`, `RecoveryKeepsWhatWasRead`, `PositionIsThatOfTheToken`, `ReportIsSound`, `ImplementsAutomaton`, `EveryCallEnds`, `TypeOK` | inputs of up to 6 tokens of every kind, 10 for objects (two members, one nested, repeated keys), 4 or 5 where the parser goes on after errors (6 for objects), 3 calls on one tokenizer; default and strict options in the three failure modes; `max_failures` 2, strict depth 2 |
| `tokenizer` | `LexesLikeTheGrammar`, `TokensTileTheText`, `ReadingEnds`, `TypeOK` | all texts of up to 5 characters over an alphabet for each of numbers, strings and comments, 4 for literals, and whole literals with what may follow |
| `formats_graph` | `LookupIsDepthFirst`, `NothingFoundIsDangling`, `FailureChangesNothing`, `CoerceFallsBackOnDefaults`, `TypeOK` | 5 nodes (the 3 of the library, 2 of the program), 2 types, 4 adapters of which one is shared, 2 registrations, 1 failed allocation |
| `formats_builder` | `CheckedFormatsStayComplete` | the same, with a builder and what it composes |
| `values` | `ValuesStayWellFormed`, `MovesKeepEverything`, `FailuresChangeNothing`, `PathMakesWhatItFinds` | 2 variables and 2 handles that hold 4 nodes among them, any number of calls; indices 0, 1 and `SizeMax` = 7; paths of up to 2 steps |
| `algorithms` | `CompareIsAnOrder`, `DiffIsExact`, `MergeUnites`, `TraverseVisitsInOrder`, `MapLosesOnlyWhatItPassed`, `CoercionKeepsItsPromise`, `CoerceMergeFavoursTheFirst` | all pairs of 126 values of every kind, nested twice, nulls inside containers among them; 4-bit integers, decimals exact up to 4 |
| `text` | `EncodeIsReadBack`, `DecodeIsExact`, `WideComesBack`, `PathReadsItself`, `NumbersAreRead`, `OutputIsTheValue`, `IndentationIsDepth` | strings of 2 units (characters of every length, malformed sequences, escapes, halves of surrogates), 3 wide units, paths of 2 elements and 3 pieces, 5-bit numbers, values nested twice, 2 calls of one encoder |
| `adapters` | `ErrorsNameTheCulprit`, `ExtraKeysAreUnread`, `WrittenIsReadBack` | 2 calls of the DSL from empty formats and from formats with members, defaults, a list, a wrapper and keyed subtypes; every type on 50 inputs and all its objects, at versions 0 to 3; 2-bit integers |
| `lines`, `merge_conflict`, `stale_current`, `shared_statics` | each a sentence of the documentation or a test that the code does not live up to; see below | – |

`AgreesWithGrammar` is the strongest property of the parser: the reference is written from the shape of a document, by
splitting every piece of the input in all ways, and knows nothing of frames, flags or recovery.  It also fixes what a call with
`complete_parse` off consumes: its document and nothing after it.  `ImplementsAutomaton` says of every step, not only the
last, what `AgreesWithGrammar` says of the outcome.

The properties of the pure functions are stated by other means than the functions use: an order by its laws and by
normal forms; `diff`, `merge`, `traverse` and `map` by the paths of their arguments; the decoders by splitting a text
into items; the encoders by the parser's grammar; extraction by the types that are at fault at some path
(`ErrorsNameTheCulprit`) and by what should come back of an object (`WrittenIsReadBack`).  Several have exceptions,
named in their comments: they are where the code departs from what one would expect, and the property pins down that
it does so nowhere else.

*Why the bounds are enough.*  The parser's behaviour depends on the frame on top of the stack, the token, and whether
anything failed before.  Six tokens reach every pair of nested containers with every token in every place; the runs with
errors reach an error in each branch followed by another, and `max_failures` 2 is passed by the third.  The longest
patterns of the tokenizer have their last distinct state after four characters (`1e+1`, `/**/`, `"\""`), so five show
what follows.  Two nodes of the program suffice for a base shared by two paths, since the library's own three already
form a chain; two registrations for one that fails after one that does not.  Lookup depends on one type at a time, and the
second type is there so that an erased entry of the wrong type would be seen.

A call on values relates two places: with four nodes there are places apart, one inside the other at distances one and two,
and siblings in one container, each with a handle that has, has had or never had a value.  `values` explores the graph of
states reduced by the view `Contents` (what the next call can see), so calls of any number are covered; the action properties are
evaluated on every step, of which there are more.  Four bits with two of precision give integers that decimals hold, that they
round, and that saturate on both sides.  Two units of text put every kind of character and of damage before and after every
other; every state of the decoders but the pair of surrogates depends on one unit, and the pair is two.  The DSL's
calls change one adapter each, so two calls from the formats already begun reach every combination of two features on
every type.

Deadlock is checked for the parser and the tokenizer, where `Stop` is the end of the program.  The other runs switch it
off: a program with formats or a DSL that has used up its bounds stops, and so does one that has had the answer to its question
or whose last call on values has read freed memory.

### Fairness

The parser is a sequential call, so `WF_vars(Next)`: it takes its next step while it has one.  A reader of the tokenizer
calls `next` until it returns false, hence weak fairness of `NextTrue` and `NextFalse`.  The input is finite
(`max_tokens`, a text), as it is in the code, where a tokenizer has loaded its whole input.  Nothing else assumes
fairness: the other functions run over the nodes of a finite value, and have no state to wait in.

### Where documents and code differ

* `lines`: after the end of the input every further `next` counts a line (`parse.cpp:298`), so for `[[` the second unmatched
  bracket is reported on line 2 of a one-line input.  `parse.hpp:43` calls it the line of input the error was
  encountered on.  `PositionIsThatOfTheToken` therefore speaks of lines only before the end.
* `merge_conflict`: `dynamic_merge_rules` resolves a conflict of types by its function for equal keys
  (`algorithm_merge.cpp:37`) and never calls the one it was given for the purpose, against `algorithm.hpp:291`, `:301` and `:356`.
* `stale_current`: `next` returns false and leaves the last token current (`tokenizer.cpp:183`); `tokenizer.hpp:136` and `:146`
  say it is cleared and `current` throws.  The line counter above lives on this.
* `shared_statics`: the handles that `set_global` and `reset_global` return are the default formats themselves
  (`serialization.cpp:508-530`), and registering with them changes the defaults of everyone.  A test
  (`serialization_tests.cpp:107`) gives as the reason for sub-formats that nobody can change the real ones.
  `formats::coerce()` is composed over the real defaults too (`serialization.cpp:580`), so such registrations show
  through it wherever it has no coercing extractor: `CoerceFallsBackOnDefaults` says just what it finds.

Disagreements noticed while modelling, for which there is no run of their own.  The modules follow the code, and the
properties say where it matters.

* *members*: `check_input` stores its functions and `mutate` never calls them (`serialization_builder.hpp:713` and `:735`,
  against `:501`).  `since` and `until` include the version given, `after` and `before` do not, and no version at all
  passes all four; the reference at `:476` and `:543` has the words the other way round and excludes the empty version.
  `default_on_null` without a `default_value` calls an empty function (`:727`), where `:530` says it is then not considered.
  A keyed subtype that inserts its discriminator is not read back by a subtype that reports extra keys.
  `register_wrapper` of the DSL calls `register_container` (`:1468`).  Adapters of integers narrow silently.
* *reports of the parser*: with `max_failures(0)` and `collect_all`, a `parse_error` is thrown with no problem in it
  (`parse.cpp:361`); `parse.hpp:84` promises at least one, and `ReportIsSound` asks for one only if there is room.
  `parse.hpp:205` speaks of the failures encountered before an error is thrown; after that many the parser goes on to
  the end and only stops to record.  `parse.hpp:58` counts characters into the entire input, and the counters start
  anew with each parse from one tokenizer.
* *depth*: `parse.hpp:231` calls `max_structure_depth` the maximum allowed, and the code refuses a document of just that
  depth (`parse.cpp:725`), as the data of the JSON checker in the tests asks for.
* *coercion*: `can_coerce` denies that a boolean is an integer or a decimal, and `coerce_integer` and `coerce_decimal` convert
  it (`coerce.hpp:46` says that it tells whether they will).  2^63 passes the check at `coerce.cpp:115` and a decimal
  below the range has no check at all; both are cast, which C++ leaves undefined, where `coerce.hpp:78` says they are clamped.
  A string is parsed and then coerced, so a decimal in it is truncated, where `coerce.hpp:87` asks `as_integer` of it.
* *wide characters*: a UTF-16 text that ends in a complete surrogate pair is refused (`char_convert.cpp:711`), which
  `char_convert.hpp:58` does not say; `WideComesBack` leaves its outcome open.
* *encoding*: `string_encode` takes sequences that are too long for their character, beyond the last one or halves of a surrogate pair
  for characters (`char_convert.cpp:255`), and with `ensure_ascii` off writes the first byte of a sequence
  that is cut short as it is, where `encode.hpp:155` says that it is replaced.
* *hashes*: 1 and 1.0 are equal and have different hashes (`value.cpp:588`).
* *values*: `path` resizes an array to the index plus one, which is 0 for the largest (`value.cpp:312`); `insert(handle)` loses
  the value if the key exists, and the hinted form and the move assignment leave a handle that says it has one;
  `insert(first, last)` of an array's own range repeats elements; postfix `++` of the iterators returns an
  advanced clone (`value.hpp:167`).
* *numbers*: the comment at `parse.cpp:462` waits for an integer too large for `strtoull`, which saturates instead; strict
  numbers take `-01` and refuse `0.5`.  `compare_decimals` (`algorithm.hpp:70`) finds an infinity or a NaN greater than itself;
  `encode.cpp:116` drops the kind of a decimal without a fraction and digits beyond the stream's precision.
* *paths*: `path::create` may throw `decode_error` or `bad_lexical_cast` (`path.hpp:95` says `std::invalid_argument`), and `[-1]`
  wraps.
* *map*: of an rvalue, a function that throws leaves nulls where elements were moved out (`algorithm_map.cpp:63`).
* `ostream_encoder::ensure_ascii(bool)` is declared and not defined.

## Proofs

All are checked by TLAPS from the modules' named assumptions on their constants alone.  The assumptions say what the code
guarantees of its inputs: `ScenariosAssumption` (options are options, tokens have the shape the tokenizer gives them), the
types of `Formats`, and for `Values` that a program can construct values only (`FreshAssumption`), that a path is made of
indices that fit a `size_t` and of keys (`PathsAssumption`), that variables and handles are finitely many (`StoresAssumption`), and that
`SizeMax` exceeds what memory holds.  Of the `Encoder` they ask that it is given values, with texts in them (`SourcesAssumption`),
whose keys a `std::map` keeps in some order without repetition (`KeysAssumption`), and that an indent is at least one space.

### The parser

* `TypesAreRight` (`[]TypeOK`) and `ReportsAreSound` (`[]ReportIsSound`).  The invariant `TypeInv` is the conjunction of the
  types of the input, of the report and of the control state.  `ReportIsSound` is not inductive: that problems are in order
  needs that each is at or before the present position, and that exceptions carry a problem needs that an unsuccessful call
  which has room has recorded one.  `ReportInv` says both.
* `TreesAreWellFormed`, a lemma the later proofs rest on: what `parse_array` and `parse_object` build is a tree after every step, after
  recovery from errors too.  `JsonValueLemmas` shows of each operation on trees that it makes a tree of trees.
* `ParserImplementsAutomaton` (`Spec => ImplementsAutomaton`).  There is one lemma for each action: it
  is an action of `JsonAutomaton` or a stutter under the mapping of `ParserRefinement`.  The types do not suffice: where the parser
  stands at `item_end`, say, the automaton's step exists only if the innermost frame is an array.  `ControlIsStructured` is the
  invariant that says so (`ControlStaysStructured`): which function's frame is on top at each call of `next`; that
  `forward_to_separator` runs after errors only; that `parse_generic`, without an error, returns false exactly at the end; that no
  frame is left when the rest of the input is read.
* `CallsAreOpenBrackets` (`[]StackMirrorsBrackets`): without an error, the frames on the C++ stack are the brackets left open by the
  tokens read.  The token that a step has in hand is in `seen` and its effect not yet on the stack; `MirrorInv` adds to the
  property that there is such a token whenever `got` says so (`HandlingInv`).
* `ParseAgreesWithGrammar` (`[]AgreesWithGrammar`): whatever the options, the tokens and the length of the input, `parse` returns exactly
  the document the grammar finds in its input, and the grammar finds none where it throws.  The grammar splits its input,
  the parser calls itself and recovers; `JsonReader` stands between them, a function that takes one significant token after
  the other.  The two halves of the proof:
  * `ReaderReadsDocuments` (`GrammarProofs`): for every input and all options, a value is a document of the grammar if and only if
    the reader has read it.  `ReaderFinds`: a piece that denotes a value takes the reader, with any containers open, to where
    that value has been absorbed; by induction over the rank of pieces.  `GrammarExplains`: every state of the reader but the
    error is explained by pieces, each open container holding what the grammar finds between its opening and the next one
    (`Suspended`, `Held`); by induction over the tokens.  The equations of the grammar, a recursive function on pieces, follow from
    `RecursionByRank`.
  * `ParseFollowsReader` (`[]FollowsTheReader`, with the invariants above): until the parser rejects its input it is where the reader
    is after the tokens it has handled; once it has, the input is `Lost`: no continuation of it is a document, or the input
    has ended elsewhere than at the end of one, or the value does not pass the checks of `post_parse`.  Whatever the recovery does
    afterwards cannot change that.
    `FollowsTheReader` was checked by TLC on the scenarios of `parser_safety` before it was proved.
* `ParseNoticesErrors` (`[]ErrorsAreNoticedAtOnce`): what the parser has handled without an error can be completed to a document.  The
  completion is what is `Missing` of the value that is being read, and then the `Closers` of the open containers; that they take the reader
  to its end is an induction over these (`ClosersEnd`), from where `ReaderReadsDocuments` gives the document.
* `PositionsAreRight` (`[]PositionIsThatOfTheToken`): the line, column and character that `parse_context::next` keeps by adding
  up are those of the beginning of the token in hand, as the sums over all tokens before it say.  The sums are recursive
  functions (`Total`), whose equations follow from `RecursionOnSequences`.  `OverIsAfter` is the step: moving over a
  token, with a line break in it or without.  `PositionInv` adds what holds before the first token and after the last, where
  `next` moves the line once more.

### The tokenizer

* `TokensAreInTheText` and `TokensTile`, for every set of texts.  Each pattern is shown to match at least one character and
  nothing past the end, from facts about `Leading`.  The invariant adds that the position is the beginning of the current
  token until `next` returns false, and past the end afterwards.
* `TokensAreLexemes` (`[]LexesLikeTheGrammar`), for every set of texts: each token is the longest lexeme at its place, and an
  error stands where there is none, or only a number that ends within it.  The invariant is that the current token is
  what `attempt_match` reads at its beginning; the rest is about the patterns.  `Reads` says what a pattern owes to the set of
  offsets where a lexeme of its kind ends, and there is one lemma for each: `NumbersAreRead` (the grammar says where the
  parts of a number may end, `PartsEnd` where they end when each goes on as far as it can, and no number ends elsewhere
  than with or within these), `StringsAreRead` (the grammar cuts a string into characters and escapes, the code looks for the first
  quote that no backslash escapes; `UnescapedBegin` is the induction that shows them to agree), `CommentsAreRead`,
  `LiteralsAreRead`, `WhitespaceIsRead`.  That the first character of a lexeme decides its kind (`KindByFirst`), as it
  decides the pattern (`AttemptByFirst`), puts them together.

### Formats

* `GraphIsAcyclic` (`[]TypeOK`, with it that bases are older than what is built on them, so `find_impl` ends),
  `NoEntryDangles` and `FailedInsertIsUndone`, for all types, adapters and bounds.  The
  invariant is `TypeOK`, that every node owns the managed adapters its maps refer to, and that the program has no handle on
  the coercing formats.  A registration is reduced to two lemmas, what it does to one node (`RegisterChangesOnly`)
  and what such a change does to the graph (`ChangeKeepsGraph`).
* `NoLookupDangles` (`[]NothingFoundIsDangling`).  `Find` and `Live` are functions defined by recursion over the graph.  That they
  satisfy their equations has to be proved, and holds because the graph has no loops: the number of a node is the rank that
  `RecursionByRank` asks for.  What a lookup finds is then an entry of a node that is reachable, hence alive.
* `CoerceFallsBack` (`[]CoerceFallsBackOnDefaults`): what a formats that `formats::coerce()` has returned finds is what is registered in
  it, then the coercing extractor, then what the default formats hold at that moment, at the end of whatever has been registered
  there.  The invariant is that the two nodes of the library below it stay as they were created, since the program has no
  handle on them; three equations of `Find`, one for each node on the way, give the rest.
* `LookupGoesDepthFirst` (`[]LookupIsDepthFirst`): what `find_impl` returns is the first entry in the order that visits a node and
  then its bases from left to right.  `SearchOrder` is that order as a recursive function, flattened at each node
  (`LeadsOfFlat`: the first entry of a concatenation is the first entry of its first part that has one).
* `CheckedStayComplete` (`[]CheckedFormatsStayComplete`) and `BuilderStaysTyped`, about `FormatsBuilder`: a step of the graph without a
  failed allocation takes no entry and no root away (`EntriesStay`, for each action that registers), and as long as entries and
  roots stay, a lookup that found something goes on finding (`KnowledgeStays`, by induction over the nodes).

### Values

* `ValuesAreWellFormed`, `FailuresAreHarmless` and `PathsMakeWhatTheyFind`, for any variables, handles, keys, paths and bounds.  The
  inductive invariant is `Typed` (`StoresAreTyped`): variables and handles hold well-formed trees.  Each action has a lemma `...IsGood` that it
  keeps the invariant, and that it makes no change but the allowed ones when it throws.
* The lemmas below them are about the two operations that everything is made of, the subtree at a place (`Sub`) and the
  replacement of one (`Graft`), and about arrays as sequences of trees (`ArrayOf`, `Elements`): each makes a tree of trees, and
  `SubOfGraft` and `GraftOfSub` say what is where afterwards, for places that are the same, apart, or inside one another.
* `path` and the insertion of a range are loops, written as recursive functions (`Walk`, `Moving`).  `Iteration` proves of such
  a function that a relation which each step keeps holds after any number; `Walked` is the invariant of the walk: the place
  reached is a node, and what has been made on the way are empty containers in the place of nulls.
* `MovesLoseNothing` (`Spec => MovesKeepEverything`).  The property counts the numbers in all variables and handles before and after
  a step.  A count is the cardinality of a set of pairs of a variable and a node, so the lemmas are about finite sets:
  `CountGraft`, `CountArray`, `CountConcat` and the like say what one operation on trees does to the count of one value,
  `CountWith` what a change at a place does to that of all.  Two such changes, at the source and at the target, add up where the
  places are apart (`DisjointStays`); `AboveBoth` says that they are apart if neither holds the other.  `Typed` does not
  suffice: `insert(handle)` takes the value out of a handle that claims one, and what a handle holds that claims none must not
  count.  `NoneHeld` says it holds a null, and was checked by TLC before it was proved.

### The encoder

* `LinesAreIndented` (`EncoderSpec => []IndentationIsDepth`), for every set of values, order of keys and indent, any number
  of calls of `encode` and an exception of the stream at any of the `write_*` calls.  Two facts are missing from the property: what is yet to
  be written closes as many brackets as are open, and what follows a bracket or a delimiter is what the deferred line break was
  remembered for.  The invariant `EncoderInv` says both of the calls in `todo`: their levels lead from the present depth to 0 (`LevelsLead`,
  in `KeepsDepth`), and each may follow the one before (`Chained`, `DefersBreaks`).
* That this is so of the calls for every value (`CallsAreWhole`) is an induction over its nodes and, at each, over its
  elements (`ContainerIsWhole`); the recursion of `encode` satisfies its equation because elements are deeper than what holds
  them (`CallsAreBuilt`, from `RecursionByRank`).
* For the output, `AppendedToken` and `AppendedClosingLine` say when one token more keeps all lines right; there is one lemma for
  each kind of call (`ScalarWritesRight`, `ClosingWritesRight`, `DelimiterWritesRight`, `KeyWritesRight`) that it writes such tokens.
* `OutputDenotesTheValue` (`EncoderSpec => []OutputIsTheValue`), likewise: what an `encode` that returns has written is one document
  under the strictest options, and denotes the value and nothing else.  By `ReaderReadsDocuments` it is enough that `JsonReader` reads the value
  from it.  `TakesCall` is what a call does to the reader, whatever white space the pretty encoder writes around its tokens
  (`CallShows`), and `Runs` what a sequence of calls does.
  * The calls for a value make the reader read it wherever a value may stand (`CallsRead`): by induction over the nodes, from the
    deepest up.  In a container the induction is over the turns of the loop.  Behind `n` of them the reader holds
    the array of the first `n` elements (`ArrayRead`), or the object of those members that have one of the first `n` keys
    (`ObjectRead`); here the keys must be distinct, or the reader would refuse one.  In the end these are the tree below the
    node, `Under` (`ArrayUnder`, `ObjectUnder`): the indices of an array have no gaps (`ArrayChildren`) and every key of an object is in `KeyOrder`.
  * The invariant `WillBeRead`: from where the reader is after the output so far, the calls in `todo` take it to the end with the value.

### Induction without an induction rule

The library's induction theorems take an operator as a parameter, which the provers cannot instantiate.  `Inductions` states
them for sets: a set of numbers that holds 0 and with each number the next one is `Nat` (`Induction`); a set that holds each
number below which it holds all is everything (`InductionBelow`).  The set then is `{n \in Nat : ...}` with the fact to be proved.  In
the same form there are theorems that a function defined by recursion over a rank (`RecursionByRank`), or along a sequence
(`RecursionOnSequences`), satisfies its equation.

### What is model-checked only

* `EveryCallEnds` and `ReadingEnds`: liveness is out of the prover's reach.
* `RecoveryKeepsWhatWasRead`: how the recovery eats the tokens of enclosing containers depends on all of them at once; it
  is checked for arrays of 5 tokens and objects of 6.
* What the pure functions of `Algorithms`, `Codec`, `PathText`, `Numbers` and `Adapters` compute: those modules are
  `RECURSIVE` operators over data, and some of them depend on the order or the characters of strings, of which the provers know
  nothing.  They do not know that a literal is in `STRING` either, hence the assumption of the parser's proofs that the contents of tokens are in
  `Text`, which is `STRING \cup {""}`.

## Not modelled, and the plan

What is left to prove: the merges and what `map` leaves behind, which are not recursive, once they are in a module apart
from the recursive operators of `Algorithms`.

Not modelled:

* `demangle` (type names through the C++ ABI), the reading of streams into strings, `operator<<` and message texts,
  benchmarks, and the nesting of exceptions (`nested_exception`), which only messages show.
* Comparison functors, views and `optional`, which have no behaviour of their own; the typed iterators beyond an index or a key.
* The composition of `Parser` with `Tokenizer`: the parser meets every sequence of tokens, more than any text has, and
  `Tokenizer` says which tokens a text has; their product would check no more than the two do.
* Adapters of functions, members by pairs of accessors, `enum_adapter_icase` and the calls of the DSL that register a type twice
  or ask for a check of references: they are what the modelled ones are with another function in the place of one.
* Allocations that fail, except in the registrations of `Formats`, whose rollback is the code's own.
* Large data: 64-bit integers, the digits of a `double`, keys of more than a few characters.

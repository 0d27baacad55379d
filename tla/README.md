# libxo in TLA+

libxo lets a C program write text, XML, JSON, HTML or the input of a custom
encoder from one set of calls. This directory models the parts of it that keep
state, checks them with TLC and proves what matters most with TLAPS. Paths and
line numbers are those of the repository (`libxo/libxo.c` is `src/libxo/libxo.c`).

## 1. The system

| Part | Source | State | Operations | What is hard, what makes it correct |
|---|---|---|---|---|
| Hierarchy stack | `libxo/libxo.c` 9296-10830 | frames (state, name, flags), depth, "top brace written" | `xo_open_*`, `xo_close_*`, markers, `xo_finish`; every field asks it for permission | any order of calls must give valid output: a transition table repairs the missing calls, markers stop some closes, `XOF_WARN` refuses some pops after the bracket was written |
| Fields | `libxo/libxo.c` 6700-7210, 8437-8731 | frame flags, the format's fields | `xo_emit` and friends | a field that failed must leave no trace; keys before values; leaf-lists open themselves |
| Format parser | `libxo/xo_format.c` | none | `xo_parse_fields` | braces, roles and modifiers, errors without a half-built table |
| Filter matcher | `filter/xo_filter.c` | trie of path steps, stack of frames with slots, allow and deny counts | open, close, key, attribute, force-resolve | predicates are decided late, counts must be undone exactly, 8 slots per frame |
| Filter expressions | `filter/xo_xpath.y`, `xo_xparse.c` | parse tree | parse | grammar |
| Filter whiteboard | `libxo/libxo.c` 5857-6640 | offsets into the output on each frame | commit, compact, roll back, skip | offsets move with compaction and become stale with a flush |
| Buffers, flushing | `libxo/xo_buf.h`, `libxo/libxo.c` 1489-1540, 10766-10783 | `xo_data` and its offset, high-water mark | append, flush, writer callback | nothing is flushed that may be rolled back or shifted |
| Anchors, lines, colors, columns | `libxo/libxo.c` 3203-3251, 7366-7540, 7836-7935 | start of the anchored text, open `<div>` | anchor start and stop, line close | insertion shifts what follows |
| Name map | `libxo/libxo.c` 5640-5850 | pairs of names | add, look up, read a file | looked up on open and on close |
| gettext, reordering | `libxo/libxo.c` 7970-8430 | none | renumber, combine | every field once, in the translation's order |
| UTF-8 | `libxo/xo_utf8.c` and tables | none | decode, encode, width, case | boundaries |
| Encoder registry | `libxo/xo_encoder.c` | loaded libraries, names, a value stack of its own | register, find, create | one name, one handler |
| Encoders | `encoder/*/enc_*.c` | each a stack of its own | one handler per operation | their stack must follow libxo's |
| Syslog | `libxo/xo_syslog.c` | connection, status | open, send, retry | reconnect without losing or doubling |
| `xo` command | `xo/xo.c` | options | `--open`, `--close`, `--depth`, `--wrap` | one document from many processes |
| `xo-logger`, `xopo`, `xolint`, `xohtml`, `llvm-plugins` | own directories | none that lasts | | tools around the library |

A handle belongs to one thread: there is no concurrency inside it, and nothing
is persisted. What makes libxo hard is the *order* of calls: the program may
forget, repeat or misplace any of them, an encoder's handler may fail in the
middle of one, and a filter decides long after something was written whether
it should have been. `PROJECT.json` lists the hazards, each at its line.

`xo_syslog.c` is the exception: it has one socket for the whole process, behind a
mutex, and talks to a logger that may go away at any moment.

Components meet in a few places. Every API call that opens or closes, and
every field, goes through `xo_transition`, which moves the stack by the
`xo_do_*` functions. These write brackets into `xo_data`, or call the
encoder's handler, and tell the filter; the filter's status decides at once or
later what of `xo_data` stays; a flush hands `xo_data` to the writer unless an
anchor or the filter forbids it.

## 2. The modules

| Module | Models | Composes, implements | Bounds in | Proved |
|---|---|---|---|---|
| `XoStack`, `XoCaller` | the hierarchy stack, the calls that move it, what it writes | the two callers restrict `XoStack` | `MCXoStack` | `TypeOK`, `ListsHoldInstances`, `MarkerStays`, `NoComplaint`, `ClosesMatch`, `OutputMatchesStack`, `FinishedIsBalanced`, `CommasSeparate`, `LabelsFit` |
| `XoTrie`, `XoFilter` | `xo_filter.c`: trie, frames, slots, predicates, status | an expression is data, there is no grammar | `MCXoFilter` | `FilterTypeOK`, `PathUnbroken`, `CountsGivenBack` |
| `XoFilterDoc` | documents written through a filter, and the meaning of the filters on the whole document | drives `XoFilter` in the order of `xo_filt_do_open_field` | `MCXoFilter` | |
| `XoWhiteboard` | `xo_filt_*`: commit, compact, roll back, skip | runs `XoFilter` for each call | `MCXoKept` | |
| `XoKept`, `XoKeptClaims` | a caller that writes through a filter, when libxo flushes, and what should be left | drives `XoWhiteboard`; implements `XoDocument` | `MCXoKept` | `OffsetsInOrder`, `OnlySettledIsSent` |
| `XoDocument` | what a reader of a stream of tags may rely on | the abstract specification | | |
| `XoFullpath`, `XoCbor`, `XoCsv`, `XoRtoon` | one encoder each, as functions of its private data | | `MCXoEncoders` | |
| `XoEncoders` | a document told to all four at once | the four encoders by `INSTANCE` | `MCXoEncoders` | `LeaderIsPath`, `CborReads`, `CsvTable`, `RowsAreComplete`, `PathFollows` |
| `XoOptions` | options, styles, the encoder registry, libraries | | `MCXoOptions` | `AcceptedMeansNoError`, `FilterNeedsAware`, `EncoderIsCallable`, `OrderDoesNotMatter` |
| `XoSyslog` | the log socket, threads, loggers that come and go | | `MCXoSyslog` | `TypeOK`, `StatusMatches`, `AtMostOnce`, `RestartLosesNothing`, `HostGetsAll` |
| `XoFormat` | the format parser, on characters | | `MCXoEmit` | |
| `XoGettext` | translations: simplify, match, renumber, reorder | `XoFormat` | `MCXoEmit` | |
| `XoEmit` | one `xo_emit` call | `XoGettext` and `XoFormat` | `MCXoEmit` | |

Left to do, in this order:

1. Proofs: `StatusIsWanted`, one level of the document at a time.
2. `xo_set_depth` and the chain of handles in which `xo --open`, `--close` and
   `--depth` continue one document.
3. The buffer's growth and the writer's failure, with what the callers of
   `xo_transition` make of it.

Modules that are proved about declare no `RECURSIVE` operator.

## 3. The hierarchy stack

### State

| `XoStack` | `libxo/libxo.c` |
|---|---|
| `opts` | `xo_style` and the flags `XOF_WARN`, `XOF_NO_TOP`, `XOF_NO_TOP_LEVEL`, `XOF_NO_CLOSE`, `XOF_IGNORE_CLOSE` a handle was created with; whether an encoder's handler may fail |
| `stack` | `xo_stack[0 .. xo_depth]`; the root is `stack[1]`, `Top` is `xo_stack[xo_depth]` |
| a frame's `notFirst`, `emit`, `emitKey`, `emitLeaf` | `XSF_NOT_FIRST`, `XSF_EMIT`, `XSF_EMIT_KEY`, `XSF_EMIT_LEAF_LIST`; `XSF_LIST` is `IsList(state)` |
| `topEmitted`, `wrote` | `XOIF_TOP_EMITTED`; `XOIF_MADE_OUTPUT` or a non-empty `xo_data` |
| `written` | the bytes, as a reader of them sees them: the constructs open in the output and the faults met on the way |
| `failed` | `xo_failure` has been called |
| `call`, `todo` | the call in progress and the `xo_do_*` functions it has yet to run: the C stack |

`written` is independent of `stack`: each action writes what the code prints,
bracket or tag name, comma or none, and `written` tells what a JSON parser, an
XML parser or an encoder would make of that. Bytes, indentation and values are
not modelled. The frames that a reader sees (`Visible`: all constructs in JSON and for
an encoder, in XML only those that have tags) each have a `Place` among the
constructs open in the output, and the construct there is of the frame's shape and,
where the style writes names, of its name (`Mirrors`).

### Actions

Each API call is an action (`OpenContainer` ... `Finish`) that translates its
part of `xo_transition`'s table: it looks at `Top`, and at `Real`, the nearest
frame that is no marker (`xo_stack_top_real`), and lists the functions the
case calls. The steps run them, one at a time: `OpenStep` and `CloseStep` are
`xo_do_open_*` and `xo_do_close_*` with `xo_depth_change`; `SearchStep` is
`xo_do_close`; `CloseAllStep` is one turn of `xo_do_close_all`'s loop, which
keeps the address of its frame (`at`) while the functions it calls pop frames,
or refuse to; `ValueStep` is what `xo_format_value` does after its transition;
`FinishStep` is the end of `xo_finish_h`. When a step returns an error the
rest of the call is dropped, except for a field, whose value is formatted all
the same and not written (`AfterError`).

### Two callers

`xo_explicit.h` wants the library to produce valid output in whatever order it
is called. It does not quite: these are the calls it does not recover from, and
`XoCaller`'s tolerable caller (`KeptSpec`) makes any call but these. Each was
found by running without it.

| Conjunct of `Kept` | What happens otherwise |
|---|---|
| no `xo_close_container` at the root | wanted by `xo --close`: it writes a closing brace that nothing opened |
| `xo_close_instance` and `xo_close_leaf_list` on top of one give its name or none | they do not search; the tag written is the caller's (10575, 10255: after `xo_open_instance("a")`, `xo_close_instance("b")` writes `</b>`), and `XOF_WARN` refuses the pop after that |
| no `xo_open_instance` in a leaf-list | `xo_transition` closes the leaf-list and opens the instance without a list around it: an object without a label among the members of an object (10570; `xo_explicit.h:28-29` hopes that "the library should not be capable of emitting invalid xml or json") |
| no field where a marker protects a list | the first is refused, but its frame remembers it as emitted and the next is written |
| for an encoder, no `xo_open_container` in a list, no `xo_open_leaf_list` in a leaf-list | the table closes a list as a leaf-list and the other way round: the same bracket in JSON, another operation for an encoder |

The proper caller (`ProperSpec`) makes no mistake at all; it only leaves the
closing of leaf-lists that its `{l:}` fields opened to the library. A leaf-list
that the name map renames is one it cannot keep open: `xo_format_value` compares
the field's own name with the frame's, which was looked up in the map (7028), so
each value opens and closes a list of its own.

## 4. The filter matcher

### The matcher

`XoTrie` has the expressions and what is computed from them alone; `XoFilter`
has the matcher. Its functions take a filter and return another, since
`xo_filter_t` is passed around and one call of libxo uses several of them; the
actions of `XoFilter` apply them to the variable `filter`.

| `filter` | `filter/xo_filter.c` |
|---|---|
| `paths`, `trie` | `xd_paths`; `xt_nodes`, where a node knows its parent instead of its children. Children are prepended, so "newest first" is the order of the sibling list |
| `frames` | `xtm_stack[0 .. xtm_depth]`; `frames[1]` is the empty frame at depth 0 |
| a frame's `slots` | `xtf_node`, `xtf_state`, `xtf_position`, `xtf_qual_position`, `XTFF_QUAL_COUNTED`; `place` is the index of the slot, `absent` means there is none |
| `counts`, `quals` | the counter tables `xtf_child_*`, `xtf_child_qual_*` |
| `fields` | `xtf_keys` (the last value counts) and `xtf_self`, under the operand `Dot` |
| a frame's `allow`, `deny` | `xtf_allow_delta`, `xtf_deny_delta` |
| `allow`, `deny`, `status` | `xtm_allow`, `xtm_deny`, `xf_status` |
| `answer` | what the last function returned, which is not always the status |

An expression is a sequence of steps with a name or `*` and predicates; a
predicate is an index `[2]`, or one or two tests `field = value` joined by `and`
or `or`, perhaps within `not(...)`. A named step gets a trie node of its own
for each expression, because `xo_trie_get_child` compares offsets of strings
and the parser stores each name it reads anew; only `*` steps are shared.

`FilterOpen` is `xo_tmatch_open`, with both of its loops: the nodes that match
(`Candidates`), in the order in which they are found (`OpensBefore`), as many as
there are slots; each is counted in the parent's frame and its predicates
looked at. `Arrive` is `xo_tmatch_key`, for keys and for other fields;
`ForceResolve` and `FilterCloseInstance` are the end of an instance that is
still undecided; `FilterAdd` compiles all expressions again, which empties the
frames wherever the document is.

### Documents, and what filters mean

`XoFilterDoc` writes documents: filters first, then containers and instances,
each with keys before anything else and one value for each field, as the manual
asks. An `EmitKey` or `EmitValue` step gives the value to the matcher, an
`OpenField` step opens the field, a `CloseElement` step closes it, as
`xo_filt_do_open_field` and `xo_filt_do_close_field` do for XML and JSON.

`Wanted` is the reference. It knows nothing of tries, frames or counts: it looks
for each expression and each open element whether the steps of the expression
fit the element and those above it, with positions counted as XPath does, over
the siblings closed so far. Where it had to follow the code rather than XPath
is in two places: an element above counts as it was when the next one was
opened (a field that comes after a child comes too late for that child), and
an expression that waits for a field holds output back only in the innermost
element.

Two more things the code does are outside the run. Expressions that begin
with the same wildcard share its trie node, and the predicate of the later one
replaces that of the earlier (`xo_filter.c:265`), where `doc/filters.rst:213-215`
has the union of the two. And a field is not shown to predicates while the status
is full (`xo_filter.c:3439`), so an expression that would reject an element by a
field that is no key waits for it in vain.

## 5. The whiteboard

While a filter has not decided, libxo writes into `xo_data` all the same, and each
frame remembers where in there it began. `XoWhiteboard` is these functions over a
handle (a record with the matcher's filter, the frames, the buffer as a sequence
of tokens); offsets count tokens. A frame's part in a compaction does not depend on
the others' except for what the loop carries along, so `CompactRange` gives each
frame what the loop leaves in it (`Freed`) and the buffer what its turns make of it
(`Compacted`, a recursive function). `Given` compiles the expressions of a handle as
the last `xo_add_filter` does: each compiles all of them anew.

| `handle` | `libxo/libxo.c` |
|---|---|
| `stack[i].rbOff`, `tagEnd`, `keyOff` | `xs_rb_off`, `xs_tag_end`, `xs_key_off`; `Clear` is -1 |
| `stack[i].status`, `rbFlags` | `xs_fstatus`, the parent's not-first flag at the open |
| `buf` | `xo_data` |
| `topEmitted`, `filtering`, `madeOutput` | `XOIF_TOP_EMITTED`, `XOIF_FILTERING`, `XOIF_MADE_OUTPUT` |

`XoKept` is the caller: it writes documents in which keys come first, and every
call ends with the flush that `xo_transition` or `xo_do_emit` would make
(`Becomes`). Which elements the filter wanted is read off the matcher while it
runs (`picked`, `refused`), as its verdicts are `XoFilterDoc`'s question;
`Expected` is the document without what was not wanted. The refinement is
`ImplementsDocument`: what was sent, with what is in the buffer and can no longer
be taken back, is a text that only grows, whose tags nest, and which is closed
when the document is finished (`XoDocument`).

`KeptCases` pairs handles with filters for which this holds. What happens with
others:

- A container that closes before the predicate around it is decided is rolled
  back by itself (`BadNestedContent`, a finding).
- In JSON a rollback after a flush gives up `XOIF_TOP_EMITTED` although the outer
  brace has left: the next call writes a second one.
- A JSON instance that is selected when it opens keeps its rollback offset (10161
  onwards); without a key or field of its own its closing brace is missing, and
  the offset, stale by then, lets a later commit delete what an earlier one kept.
- `v[. = 'x']` keeps a field with an empty value.
- The program's own `xo_flush` does not ask whether anything is held back
  (10766-10783; `XoKept` has no such call): what had to be taken back has left, and the
  frames remember offsets into text that is gone.
- `xo_do_emit_fields` returns early for a filtered record without keys (8688-8695):
  its translation is not freed and `XOIF_REORDER` stays set.

## 6. The encoders

`XoFullpath`, `XoCbor`, `XoCsv` and `XoRtoon` are the handlers of
`encoder/*/enc_*.c`, one operator for each `case` of their switch; each takes
the encoder's private data as a record and returns it changed. `XoEncoders` tells
one document to all of them, the way the `XO_STYLE_ENCODER` cases of libxo do:
balanced, keys before other members. `kept` is the document without what was
discarded, and each property compares one encoder's output with it. `Length` gives
names and values the lengths next to which the heads of CBOR change form. 24, 256 and
65536 themselves are left to `BadCborLength` (the first; the others fail in the same
way).

The filter is known by its verdicts (`Verdicts`): what it says of an element when it is
opened (`VerdictsInside`), and what a key, a field or a close may make of that. An
element is `tentative` while its frame has `xs_rb_off`: a container that is not wanted,
and every list, leaf-list and instance. A field that is wanted commits all that is open
(`Committed`, 6174); the open of a wanted element does not, unlike in XML and JSON
(9551, 10140). A key is told but commits only what was wanted before it, as
`xo_filter_op_key` answers with the status before the key; an instance that is wanted
because of its keys (`held`), or because a field never came, is committed by its close
(10242). At the end of a tentative element an encoder that asked to be notified gets
`XO_OP_DEADEND`, the others its close.

An instance that was wanted at its open and in which nothing wanted was told is `Lost`:
`xo_filt_rollback` tells nothing, as its status is full (6404), and the close is
skipped too (10284-10290). The encoders that asked for DEADENDs keep its frame, and the
next close or DEADEND is taken for its own: `BadLostInstance`, a finding. In a setup that is
`filled` the caller leaves no such instance, and `LinesAreDocument` is about those.

`MCXoEncoders` has six setups: no options; csv with a row for each instance; csv
with a path, rtoon dense by a field; csv with named columns, rtoon dense by a
list; a filter; and a filter with lost instances. Left out are fields with a predicate
of their own that names another field, and keys outside of instances. Read in the code and kept away from by the driver:

- csv: elements of one name inside each other make its place in the path drift
  (`NotInside`); an open that ends a record while it is recording does not begin the
  next; `CF_NO_KEYS` and `CF_VALUE_ONLY` are set and never read; the check for
  quotes reads `value[-1]` of an empty value; the first array of leafs is not
  cleared (525).
- cbor: a flush writes out what it wrote before (`c_data` is not emptied); content
  that is no number becomes 0 and "-0" wraps.
- fullpath: when its stack grows, at the seventeenth level, the pointer into it is
  set to its start (71-76).
- rtoon: a dead end does not take back the version line, the dash of an instance
  whose first member it was, nor the cells that a nested construct added to a row
  (`RtoonCanTakeBack`); nor that a list had an instance (`RtoonCanKeep`); for a
  leaf-list nobody pushed a frame, so the frame below goes (`RtoonCanDiscard`;
  libxo.c:10051-10057); and what was flushed explicitly comes back.
- fdr and test print the operations they get and have no module.

## 7. Options and the registry

`XoOptions` is a command line and the calls that follow it: `--libxo` options as
letters and words, the end of `xo_parse_args`, `xo_add_filter`,
`xo_set_style_name`, registering, unregistering, adding a directory, cleaning.
Directories hold libraries that differ in what libxo looks at: their version, the
version they need, `XEIF_FILTER_AWARE`, and what the handler answers to
`XO_OP_CREATE` and to options: 0, less or more. `opened` are the libraries that `dlopen`
holds. A word stands for all options that act as it does.

An option is read one letter or word at a time: `args` is `"letters"` or `"words"`
meanwhile and `reading` has what `xo_set_options` keeps on its C stack, the two return
codes, the style asked for and the encoder that waits for the end of the words.
`complaints` are what libxo complained about on the way: errors; a second style in one
option, which it ignores with a warning (2836-2837) and which is no error; and an answer
above 0. `broken` notes that a call after the command line has failed, of which the caller
was told: an encoder that knows nothing of filters and fails when it is created, asked for
by `xo_set_style_name` on a handle with a filter, stays on the handle together with
the filter, and only the return code says so (2549-2585, 11045).

An answer above 0 is complained about (2956-2957) and then taken for success, since
`xo_parse_args` tests for `< 0` (11014, 11017, 11021): the line is accepted, with an
encoder that was not created, and an error of an earlier word of the option is forgotten
with it, where 2975 says "@return 0 on success, non-zero on failure" and 10958 "or -1 for
error". `AcceptedMeansNoError` and
`EncoderIsCallable` leave lines with such an answer out. No encoder in the tree returns
more than 0.

`Careful` keeps the caller away from the following, which the code does not
recover from:

- a bad letter whose error is lost because words follow after a comma: the return
  code of the words is stored over it (3030);
- an encoder that knows of filters replaced by another one: the check at 11057
  looks at a flag that stays (11333-11336), against what the comments at 11318-11323 and
  11049-11054 say; `FilterNeedsAware` fails there;
- `xo_encoders_clean` while a handle uses a library.

Also seen: `xo_set_style_name` with an encoder's name installs the
encoder and then sets the style to -1 (2549-2585), and dereferences a NULL handle
when given one; `xo_encoders_clean` empties the search path, `XO_ENCODERDIR`
included, and closes the library handle of registered encoders, which was never
set; unregistering never closes a library; a filter expression that does not parse
leaves `XOF_FILTER` set; no encoder is ever sent `XO_OP_DESTROY`;
`xo_encoder_op_name` compares with `>` where `>=` is meant; a negative return of an
encoder is stored as a filter status (11354-11360).

## 8. Syslog

`XoSyslog` has the socket (`xo_logfile`, `xo_status`), the mutex (`holder`), each
thread's place in `xo_vsyslog` and `xo_send_syslog` (`pc`), and the loggers: local
sockets (the privileged and the default one), a path given by
`xo_log_set_host_path`, and hosts, to which UDP always goes through. A thread takes
one step per system call, as a logger may stop, come back, drain or fill between any
two. `received`, `console` and `lost` say what became of each message. A message
is a number; its text is two `xo_emit`s.

The setters take no lock. The model makes them while no thread is in a call, as
a race between them and a call is undefined, and changes a destination only
while there is no socket (`Careful`): otherwise `xo_log_set_host` leaves the socket
to the local logger, connected, and the next messages go there
(`xo_syslog.c:261`, 186-222), where `doc/api.rst:1779-1780` says it directs
subsequent messages to the host. Also seen: after `ENOBUFS` on the default
socket, a restart during the wait costs the message, without a reconnect;
a remote `AF_LOCAL` socket is never connected again after its logger restarted; the
second use of `ap` in `xo_vsyslog` comes after `va_end`; structured data can fill
the buffer of 2048. On Linux a full `AF_UNIX` socket blocks the sender instead of
returning `ENOBUFS`; the model follows the code, which is written for the latter.

## 9. Formats, translations and xo_emit

`XoFormat` parses: a format is a sequence of characters in which words without
special characters are one. `CountFields` is the scan that decides how much room
the parse gets, `ParseFields` the parse; `MaxFields` and `MaxSpecs` are its
caps. `XoGettext` has what happens to a translated message, `XoEmit` one call with
one format, field by field. What is written is a sequence of items; a value's
item has the number of the argument it shows, so that taking one argument more or
less is visible in all that follow. `ArgsOf` is the reference: what a caller who
reads the manual passes for each field.

The formats are every sequence of up to three of 24 descriptors that differ in role,
modifiers and formats, up to six of those that align (values, units, anchors), a
message of up to three after `{G:}`, in every order a translator may choose; and up
to four fragments, which need not make a descriptor and are only parsed. Three
descriptors are a value, what is put between, and a later value whose argument may be
the wrong one; six are an anchor's start and stop with a value and its units
both inside and before it. Five handles, one of each style
(`sdparams` takes its arguments as the encoder style does), with units and xpath where
they exist.

What the emitted formats leave out, with the reason:

- An `a` field whose name is the empty string takes a second argument (8512, 7246;
  `doc/field-modifiers.rst:54-56` has one); so do units that are empty while the
  value's tag awaits them (7672-7757).
- `{G:}` comes before any argument is taken: a value before it shifts the numbers by
  which a translation finds its arguments (8540). After it only values take
  arguments: a label with a format that a translation moves past a value takes none.
  A second `{G:/%s}` loses its argument.
- Explicit field numbers: text before such a field gets a number too, and a message
  that is reordered then shows a field twice; duplicates above 64 go unnoticed.
- Units are not separated from their value by an anchor's start, whose offset the
  insertion does not move; nor do anchors or units occur in reordered messages,
  whose recorded spans they shift.
- Names of values are distinct, translations are permutations.

Also seen: an unfinished `%` at the end of a format reads the byte after it; `%@`
may stay unclosed; unknown keywords are only reported; the parse loop stops at
its cap without a word; `xo_name_lookup` is documented to match prefixes and does
not; a custom formatter without `XOF_NO_VA_ARG` never advances `%s`; `e` on a
label takes an argument in HTML (5197-5215); a `*` before `%m` is never consumed;
`{C:fg-%s}` of `doc/field-modifiers.rst:70` prints `%s`, as content is not a format; the
fast path for integers ignores `+` and the space flag
(`doc/field-formatting.rst:36-38`) and pads `%-05d` wrongly; the `xo` command does
not consume the argument of a label it skips, and consumes one twice when its
buffer is too small (1534-1551).

## 10. Runs

| Run | Specification, bounds | Checks |
|---|---|---|
| `AnyCalls` | `AnySpec`: in text, with and without `XOF_WARN`, every call of `XoStack` in every state, but no key fields; in JSON, with and without `XOF_WARN`, `XOF_NO_TOP`, `XOF_NO_TOP_LEVEL`, `XOF_NO_CLOSE`, the tolerable caller; one name, one marker name, 4 frames | `TypeOK`, `ListsHoldInstances`, `MarkerStays`; in JSON commas, labels, output and stack agree, a finished document is complete |
| `KeptTags` | `KeptSpec`, XML with and without `XOF_WARN`, an encoder that fails now and then, SDPARAMS; two names, 3 frames | matching closes, output and stack agree, every call returns |
| `Proper` | `ProperSpec`, JSON, XML and an encoder, `a` renamed to `b` by the name map; 4 frames | nothing is reported (that output and stack agree is `AnyCalls` and `KeptTags`, and a theorem for this caller) |
| `FilterDoc` | `DocSpec`: seven expressions (tests on a key and a field, with `or` and `not`, an index before and after a test, `*` with `.`, a rejecting one), any one or two of them; elements `a` (instances) and `b` (containers), a key, a field, two values | the matcher's status is `Wanted`; the answer at the close of an instance is the verdict with absent fields empty; no node is followed without its parent; the two counts are those of the ends of expressions in open elements |
| `Whiteboard` | `KeptSpec` of `XoKept`: seven pairs of a handle (XML or JSON, with and without flush and pretty) and one or two expressions; 4 elements, 3 levels, 3 fields | the finished output is what was wanted, offsets stay ordered, separators, `ImplementsDocument` |
| `Encoders` | six setups, up to seven operations, four open elements | one or two properties for each encoder |
| `Options` | five encoder names in two directories (in the program's own, the handlers of two of them fail when they are created, with -1 and with 1), options of a letter and two words, four calls, a careful caller | a line with an error is refused, a filter has an encoder that knows of filters, the encoder in use can be called, the order of words does not matter |
| `Syslog` | two threads, two messages, two settings, one restart, one fill, sockets of one datagram | `AtMostOnce`, `StatusMatches`, `RestartLosesNothing`, `HostGetsAll`, `CallsReturn` |
| `Emit` | section 9 | room for the parse, arguments, order, units |
| `BadNestedContent` | `KeptSpec`, XML, `a[v='x']` | violated: a container before the field that decides is lost |
| `BadCborLength` | `Encoders` with a name of 24 bytes | violated: the head of the name is read as another one |
| `BadLostInstance` | as `Encoders` | violated: rtoon keeps the frame of an instance that was told neither its close nor a DEADEND |

**Bounds.** `MaxDepth` limits the frames: an open (and a field, if it opens
something) is only begun with room for what it pushes. Four frames hold the root and
a list, an instance and a marker in any order, which is every pair of neighbours the
table distinguishes with a marker between, above or below them; three are enough
where two names multiply the states, as a close looks only at the frame on top and
at those it searches. Two names are what it takes for a name to match or not and for
a map to confuse them, one where only kinds matter. JSON tells nothing about names,
so `AnyCalls` has one. The style decides what is written and not what is pushed
(except for SDPARAMS, which leaves containers and instances on the stack, and has
its place in `KeptTags`), so the caller that may make any call has one style, text,
in which nothing is written that it could get wrong. `Roles` is a bound where fields
only matter as items: keys and values differ in what they let follow.

For filters, three elements on two levels are what it takes for a second and a
third sibling (positions) and for a child of a matching element; two
expressions for one that selects against one that rejects, and for two that
wait for different fields. The expressions are given in one order, so
no pair is checked twice. There are no fields outside of elements, and no
indexes after two tests: for `a[x][y][2]` the code takes the position by name
while `y` is missing (hazard at `xo_filter.c:3140`), which the reference does
not describe. `FrameSlots` is the 8 of the code, and two expressions never
need more than four slots; the limit itself is covered by the proofs only,
which do not say that nothing is missed above it.

The whiteboard needs one level more, so that something undecided lies in
something decided with a list between, and four elements for what was taken
back to have a sibling that comes after. For encoders, seven operations make two
rows of one column each, or one of two, in a list in a container. For options, two
words are a pair that interacts, and four calls load, replace, unload and use an
encoder. For syslog, one message is in flight while the other thread's waits for
the lock; a second restart would repeat the first; a socket of one datagram is
full after the first message, or after another program's.

All runs say `CHECK_DEADLOCK FALSE`: a finished handle, document, format or
message does nothing more.

**Fairness.** `CallReturns` is checked under `WF_vars(Step)`: a call that has
begun runs on in its caller's thread and waits for nothing. No fairness is
assumed of the caller, who may never call again. `CallReturns` is about
`xo_do_close_all`: a pop may be refused, and SDPARAMS never pops a container, so
a loop that looked at the depth would not end. `CallsReturn` (syslog) has weak
fairness for each thread's steps and none for the loggers: nothing makes them
read, stop or come back, and the property leaves out that a default socket
stays full, which is what the code waits for. A thread waits for the lock as well;
weak fairness is enough because the messages are bounded, so no thread is overtaken
for ever.

## 11. Proofs

The theorems about the stack hold for every value of the constants allowed by the `ASSUME`s of
`XoStack` (`NoName` is not a name, markers' names are not those of constructs,
the name map maps names to names, the options are a subset of the possible
ones); none bounds the depth, the names, or the length of a run.

`XoStackProofs`: `THEOREM Types == Spec => []TypeOK`. `TypeOK` alone is not
inductive: `CloseAllStep` looks at the frame `at`, which must exist. `TypeInv`
adds `Walks`: at most one walk is under way, it is what the call does next, and
it is nowhere above the top of the stack; a turn of the loop pops at most one frame while
`at` goes down by one. The lemmas `...Plans` say what each API call may leave in
`todo`, `...StepType` what each step makes of the stack.

`THEOREM Nesting == ASSUME NamesSettle PROVE Spec => []ListsHoldInstances`.
A frame is pushed because of what was on top when the call began, so the
invariant is about the work still to do: `Planned` says that an open is the first
thing to do where the stack may hold it (`MayHold`), or comes after the one close
that makes room for it. That close must not be refused, which is where names
come in: a transition closes without a name, so with the frame's own, looked up
in the map a second time; `NamesSettle` (a name looked up twice is that looked up
once) is therefore needed, and `Mapped` says the frames' names are fixed points.
Without it a map with `a -> b` and `b -> c` makes `XOF_WARN` refuse the pop of a
list that the transition then opens something in.

`THEOREM MarkersStay == Spec => MarkerStays`, an action property of any caller: no step
takes a marker off but `xo_close_marker`, `xo_finish` and a close without a name. `MarkerInv` says of the work still to do that a planned close has no
marker on top, that a search is for the caller's own kind and name (`Respects`), and
that no marker lies among the frames a walk is about to close (`ClearWay`): what
`xo_do_close` looked at when it searched is still so after the turns that came before.

`XoCallerProofs` is about the tolerable caller, first its stack and then what it gets
written, for any stack, names and options. It says nothing of the calls that `Kept`
excludes (section 3), after which the library does write what is not well-formed.

- `CallerInv` (stack): a leaf-list's frame remembers no field but a leaf and any other no
  leaf (`FieldsHeld`), an instance is in a list, and the work still to do, at most
  three functions, is one of the sequences the table can give for the frame on top
  (`Doable`): each open is planned for a frame that may hold it, each close for
  the frame on top, a field's value for the kind of frame it is written in.
- `OutputInv` (output): in every moment, and not only between calls as
  `OutputMatchesStack` says, the constructs open in the output are those of the visible
  frames (`ShownIn`), and nothing was closed that was not the innermost. What is
  written for a frame is decided by the frame and by the caller's name, so each
  lemma pairs what a step writes with the push, pop or refused pop that follows it.
  `THEOREM ClosesAreInnermost`, `OutputFollowsStack` and `FinishCompletes` follow.
- `JsonInv` (separators): the innermost construct has an item exactly if the top frame's
  `XSF_NOT_FIRST` says so, all others have one, and a marker knows what the frame below it
  knows (`Told`); `THEOREM CommasStandBetween` and `LabelsAreFit`.

They assume `NamesSettle`, and the two about the output `NoCloseBare` too: a JSON
handle that has `XOF_NO_CLOSE` has `XOF_NO_TOP`. The one program that sets the first, the
`xo` command, sets both (`xo/xo.c:287-288`); with `--top-wrap` it clears `XOF_NO_TOP` for
a while (310, 393) and sets it again before `xo_finish` (398). Flags that change in the
middle of a document are not modelled. Without the assumption `xo_finish` writes the
outermost closing brace inside whatever is still open.

The proper caller has two theorems more. `THEOREM ProperHearsNothing` (`NoComplaint`)
adds to `CallerInv` that nothing was reported and that whatever is going to be searched
for is there (`Sought`): on top, under the leaf-list that is closed first, or, for a
marker, somewhere. It assumes that the styles are JSON, XML or an encoder whose handler
does not fail (`ProperHandles`): what SDPARAMS and text leave on the stack is outside of
`CallerInv`, and a handler that fails drops the rest of a call. `THEOREM
ProperOutputIsRight` is the properties of the output for that caller, whose calls are
all tolerable ones.

`XoFilterProofs`: `THEOREM FilterTypes == Spec => []FilterTypeOK`,
`THEOREM PathsUnbroken == Spec => []PathUnbroken` and
`THEOREM CountsRight == Spec => []CountsGivenBack`, for any expressions, names and
values, given at any time, and any sequence of calls, whether or not it is a
document; assumed are only the `ASSUME`s of `XoTrie` and `XoFilter`. The
invariant `Inv` is the three together with the shape of the filter, stated of a filter
(`Sound`) because a call applies several functions to it. A frame is right
because of the frame below it (`Founded`); the lemmas say what each change does to
that: the top frame may change its mind, as nothing stands on it, so long as no
slot comes or goes (`RecordSound`); a lower frame may count (`CountedSound`); a
frame may be pushed if its slots are candidates (`PushSound`) or popped
(`PopSound`). That the counts are right is inductive only with what each frame has noted
for itself (`Noted`): then the counts of a stack are those of the stack below and of the
top frame (`CountAbove`), so a frame that is pushed, that changes its mind while nodes only
become live (`TallyAdds`), or that is popped changes them by what it holds. Of what
`Compile` makes of the expressions it is shown that it is a trie (`CompileTypes`): that the
values of its two loops exist, and have their type after each turn, is shown by
contradiction from the least turn that fails (`LoopTurnsExist`, `LoopStays`).

`XoSyslogProofs`, from `SyslogAssumption` alone, so for any number of threads,
messages, restarts and datagrams a socket holds: `THEOREM Types` adds `Busy` to
`TypeOK` (a thread in a call has a message), without which a step has no message
to be about. `THEOREM StatusAlwaysMatches == Spec => []StatusMatches` holds at
any time and not only between calls: connecting and disconnecting keep socket and
status together wherever they start from. `THEOREM DeliveredOnce == Spec =>
[]AtMostOnce` needs an invariant about the messages that were not passed on yet
(`OnceInv`): those that wait are all different (`Apart`), nobody has had one of
them (`Waiting`), nor one that no call has given yet (`Unseen`). A step then
either leaves all of this alone or ends its call, with one outcome at most for the
call's message and none for any other (`OneOutcome`). The proof makes
no use of the lock: what keeps a message from going out twice is the order of
one thread's own steps.

`THEOREM RestartsLoseNothing` and `CarefulReachesHost` do need the lock. `DeliveryInv`
says that the thread past `Lock` and the holder are one (`OneHolder`), that none but
the local logger gets a second attempt (`OwnSends`), that a socket made for a host stays
one as long as the setters are used with care (`HostSocket`), and that a reconnect that
found a logger stays good until that logger stops (`StillThere`). `CarefulReachesHost`
assumes `Careful`, section 8's restriction of the setters.

`XoOptionsProofs`, from the `ASSUME`s of `XoOptions`, for any encoders, directories and
libraries, any answers of their handlers and any number of options, words and calls.
`THEOREM OptionsInvariant` holds of every caller. `OptionsInv` follows an error from where
it is made to where it refuses the command line (`ErrorsKept`): in `complaints`, then in
one of the two return codes of the option that is being read, until a letter or an
answer above 0 loses it. It says that a filter goes with an encoder's style only if
the handle's flag allows it (`FilterGoes`), that every encoder known or in use has its
library open (`LibrariesOpen`), and that the private data is the encoder's own
(`PrivateIsOwn`). What the code does not keep for every caller is said of the careful one
within it: that the flag is about the encoder in use (`AwareIsOwn`), that what is in use
is open, that no letter's error is lost. So `THEOREM FiltersMeetFlag` is about all callers:
the checks of the flag are all there, and what can be wrong is the flag. `THEOREM
ErrorsAreRefused`, `FiltersMeetAware` and `EncodersCallable` assume `Careful`, each for one
of section 7's reasons, and the first and last leave answers above 0 out.
`THEOREM OrderIsFree == Spec => []OrderDoesNotMatter`, for strings of any length, is
about the loop over the words. Two readings are `Alike` if they differ at most in the last
return code, of which `Note` has kept what matters. A filter and a word that is none
may change places (`WordsCommute`): whether a filter is refused depends on the handle as it
was before the string, as style and encoder wait for the end (`Refuses`). So a word may
be moved ahead of the filters before it (`BeforeFilters`), and by that, turn for turn,
sorting keeps the readings alike (`SortedReadsAlike`), which the end of the string then
makes equal (`AlikeEnds`).

`XoKeptProofs`, for any expressions, flags and names and documents of any length and
depth; assumed are the `ASSUME`s of `XoTrie`, `XoFilter`, `XoWhiteboard` and `XoKept`.
`KeptInv` is about the handle (`Good`), as a call of libxo applies several functions to
it, and says that the caller's open elements are as many as the frames. `Good` has
three parts: types, among them the matcher's invariant (`Sound` of
`XoFilterProofs`, so whatever the matcher answers is covered); the order of the offsets
(`Ordered`, which is a little more than `OffsetsInOrder`: an outer frame's keys lie before
an inner frame as well); and `Held`: as long as `XOIF_FILTERING` is not set, every frame is
settled. A commit settles all frames (`Settles`), writing moves none (`Grew`), and
what asks the filter either settles all or moves none (`Answers`); so a field that is taken
back after the filter was asked finds its frames as they were. `THEOREM OffsetsOrdered ==
KeptSpec => []OffsetsInOrder`; `THEOREM OnlySettledIsSent` is an action property: nothing
is handed to the writer while a frame may still be taken back, so long as the program
leaves flushing to libxo. Both hold for
all filters and flags, those included that section 5 lists as going wrong; there, text is
lost because of its order in the document or of offsets that settled frames still have
(the JSON instance), of which neither theorem speaks. `Compacted`
is a recursive function, of which the proof needs that it exists and keeps its type at
each turn; both are shown by contradiction from the least turn where they fail
(`LeastNat`), since an induction rule with a predicate as parameter is out of reach.

`XoEncodersProofs` (fullpath, cbor) and `XoCsvProofs` are about three of the four encoders,
for any names, options and documents, with the `ASSUME`s of `XoEncoders`. All of it rests on `DocInv`: what is
open are elements nested as libxo nests them, and the marks from which a tentative
element is taken back do not fall towards the inside. Each encoder then has
its own relation to the document, and one lemma for each operation that is told.

- `THEOREM LeaderCorrect == ... Spec => []LeaderIsPath`. `Follows` says, of every level and
  not only of the last, where on fullpath's stack of names it begins and what the leader
  was when it was the last (`Paths`, `Levels`, `Placed`): a close goes back to what was
  stored there. It assumes that no document is deeper than the stack that is allocated at
  first, `MaxOpen <= StackSize`; a deeper one makes the code set its pointer into the new
  stack to the start of it (`enc_fullpath.c:71`) and the leader is lost.
- `THEOREM CborCorrect == ... Spec => []CborReads`. A reader by the rules of cbor, after all
  that was written so far, expects exactly what each open element can hold (`NestOf`)
  and has collected the strings of `kept` (`CborReadsTo`). `LengthsAreGood` leaves
  out the lengths 24, 256 and 65536, for which `BadCborLength` is the counterexample.
- `THEOREM CsvCorrect == Spec => []CsvTable`, without any assumption. `CsvFollows` gives each
  line of the output the element it comes from, in order (`Table`), and says that the row
  being collected is of the element that is being recorded or later than every line
  (`LeafFine`); cells which were not set since the last row hold nothing of it.
- `THEOREM RowsCorrect == ... Spec => []RowsAreComplete`. `CsvCorrect` says that what stands
  in a row is right; this one, that nothing is missing. `RowsFollow` tells of every
  outer instance, closed or not, where it is (`InstanceFine`): it is the one that is recorded,
  the row being collected holds exactly what it gave under the columns of the table, and
  nothing has ended its leading fields (`Collected`); or it is closed or something was
  opened in it that ended them, and its row is among the lines (`Rowed`). Lines stay
  (`Continues`) and columns are fixed by the first row, so a row that was complete remains so.
  Two values for one column would leave one of them out of the row; that this does not
  happen needs `UsedKnown`, that a name is given once in an element, and `IdsRise`, that
  no two elements have one number. An outer instance is not opened while another one is
  recorded because that one is still open, though a list may be on top of it
  (`RecordedAt`). `CellsApart` assumes that the marks of an empty cell and of an
  uninitialised one are not numbers of values.
- `THEOREM PathCorrect == ... Spec => []PathFollows`. The place in the path is a count, and
  going back is by name (`enc_csv.c:397`, 463-486), so the invariant has to say which open
  elements were matched: `Matched` names them, each the first after the one before
  that has the next name, and none further in that has the name still awaited. A close
  then finds its own name there only if it is the last of them, because an element is not
  inside another of its name (`Distinct`; `NotInside` of the driver). `PathOpened` is met by any
  choice of elements; that the first ones come first is `FirstPlaces`.
  `LeafListsApart` assumes that no leaf-list has the name of a container or a list,
  which `NotInside` asks of those two only; section 6 says what csv does otherwise.

What `CborReads` reads and collects is computed by recursive functions; existence and
values of these are shown by contradiction from the least argument that fails, as in
`XoKeptProofs`.

Only model-checked:

- `CallReturns`, `CallsReturn`: liveness, out of the prover's reach.
- `StatusIsWanted`, `JudgedAtClose`: the reference reads whole expressions against whole
  paths, over siblings that are closed; a proof has to say of every node of the trie which
  steps of which expressions it stands for, and is an induction over data.
- `FinishedIsExpected`, `SeparatorsFit`, `ImplementsDocument` of the whiteboard: they hold
  for the chosen pairs of handle and filter only (section 5).
- `LinesAreDocument` of rtoon: `LinesOf` says of each operation, from the whole document,
  what it adds: whether the list around it turns out dense, which columns it has, what was
  opened and never filled. rtoon keeps cells and takes lines back in its own buffer
  instead, so there is no step of the one for each step of the other.
- formats (`ParseFits`, `ArgsMatch`, `ArgumentsFollow`, `ReadsAsTranslated`, `UnitsInTag`),
  whose parser is `RECURSIVE`.

## 12. Not modelled

In the matcher: attributes, arithmetic, comparisons and functions in predicates,
`xo_filter_op_needs_nonkey_field` and `xo_filter_op_passthru`, allocation
failure. In documents: the encoder style, which gives key values to the matcher
without opening the field.

In the stack: `xo_set_depth` and `XOF_NOT_FIRST` (the `xo` command's), a
`NULL` name given to an open, the warnings about sibling names, allocation
failure, an error from the flush at the end of a transition, calls after
`xo_finish`, HTML (it moves the stack as TEXT does and writes `<div>`s that are
not nested by it).

Under a filter: leaf-lists, markers, display-only fields, `XOF_NO_TOP`.

In encoders: numbers in cbor, csv's quoting, attributes, the fdr and test encoders.

In formats: the characters a directive writes, humanized numbers, plural forms and
the `g` modifier, the checks of strict mode, escape codes of colors, HTML's lines,
column counts.

In syslog: the text of a message, `LOG_PERROR`, several addresses of a host.

Not at all: the filter expressions' grammar (`xo_xpath.y` and the generated
`xo_xparse.c`) and UTF-8, which are functions of text, without state; the name map,
which only grows and is a constant here; `xo`, whose state is that of `xo_emit`
but for `--depth`; the other commands and plugins, which read text or a
compiler's tree.

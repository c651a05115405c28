# TLA+ models of the logbox error pipeline, the fetch body, the Android input, the API-doc extractor and the CSS type generator

Most of these modules model the error-parsing and stack-resolution pipeline of
the developer error console. The pipeline covers:

- `logbox/src/parser`: the dispatcher;
- `logbox/src/utils/mapper.ts`: the frame mapper;
- `lynx-error-parser`: the engine's channel parsers.

The other modules model lynx-core's fetch `BodyMixin`, the Android `<input>`
and `<textarea>` elements of `lynx_xelement_input`, and the API-doc extractor
of `tools/api/parser/ts_morph` (`parseSourceFile` and its command line), and
the CSS type generator of `tools/css_generator/scripts/generate-types.ts`.

The models are checked with TLC. `PROJECT.json` lists:

- every component and its status;
- every run;
- the mutant that each property of a passing run must catch;
- the source lines behind each definition;
- the findings, and the hazards of the code.

## The system

A raw error `{namespace, log}` reaches `parseErrorWrapper`
(`parser/index.ts`):

1. It looks up the namespace in the module-level `parsers` registry.
2. For a namespaced error with no parser, it awaits the bridge's
   `loadErrorParser`. The loaded script is expected to call
   `registerErrorParser`.
3. If no parser is there after that, it installs a `FallbackErrorParser`
   for the namespace, and the fallback stays installed.
4. It calls the parser's `parse`.
5. It stamps `rawErrorText` on the record the parser returns. If the parser
   returned null or threw, it builds the minimal fallback record instead.

The "lynx" namespace is served by `LynxErrorParser`
(`lynx-error-parser/src/index.ts`). It tries three child parsers in order:

1. `BTSErrorParser`, the background-thread channel;
2. `MTSErrorParser`, the main-thread channel;
3. the default parser.

A child that declines returns null. A child that throws is skipped.

The main-thread parser works in two phases:

- **Phase A** resolves bytecode frames, which are pairs of function id and pc.
  It maps them to source positions through JSON debug info fetched with
  `queryResource`. The fetched debug info is cached in the parser's
  `debugInfo` map.
- **Phase B** hands the frames to `map` (`mapper.ts`), with a per-parse
  `MTSResourceProvider` filled in phase A.

`map` does two things:

1. It fetches each distinct file of the frames concurrently and joins the
   fetches with `settle`.
2. It then rewrites every frame with its original position and two context
   windows.

All of this runs on one JavaScript thread. Concurrency comes from the awaits:
while one error waits on a fetch, another error's parse can run. The state that
parses share is:

- the `parsers` registry;
- the `debugInfo` cache of the single `MTSErrorParser` instance, which
  `LynxErrorParser` creates once for the whole session.

In every model, the code between two awaits is one atomic action.

Apart from the pipeline, lynx-core's fetch polyfill gives Request and Response
a `BodyMixin`:

- The constructor copies the init (an ArrayBuffer, a view, a string, or
  another body) into `_arrayBuffer`.
- The first `arrayBuffer`, `text` or `json` call takes the content and marks
  the body used. Later calls get undefined.

The Android input elements (`lynx_xelement_input`) are `LynxUIInput` and
`LynxUITextArea`, both `LynxUIBaseInput` over a `LynxEditTextView`. Everything
they do runs on the UI thread, one prop setter, UI method or framework callback
at a time. So each of these is one action. They have three concerns:

- **Text.** Every change of the text, from the IME through
  `LynxInputConnectionWrapper` or from the `setValue` UI method, goes through
  the view's input filters: confirm-enter, maxlength, the textarea's maxlines,
  then the regex. The textarea then re-measures its height.
- **Focus and the keyboard.** Focus moves by a tap, by the `focus` and `blur`
  UI methods, by Lynx's `onFocusChanged` and by the IME's editor actions. The
  view's focus listener shows the soft keyboard. Props write focusability,
  `imeOptions` and the custom-keyboard flag.
- **The window's soft-input mode.** All inputs of a page write this one
  mode, through `show-soft-input-on-focus` and `android-set-soft-input-mode`.

**The API-doc extractor.** `cli.ts` gets a list of `{path, exports}`
entries and runs `parseSourceFile` on each file in turn. `parseSourceFile`
walks the file's classes, interfaces, enums, variable statements and type
aliases, in that order. A declaration is documented when it is exported and
named in `exports`, with its public members. An exported `const x = new C()`
documents `C` under the name `x`. `handleJSDoc` fills each member's
parameters from its `@param` tags by rank. Nothing catches an exception: a
`TypeError` in any file ends the cli before it prints.

**The CSS type generator.** `generate-types.ts` makes `dist/` when it is
missing, lists `css_defines/`, and reads its `.json` files in listing order.
Each goes through `validateCSSDefine` (`validate.ts`): `JSON.parse`, then the
Ajv schema; the first invalid file throws and nothing is written.
`groupProperties` puts each define in the first of layout, typography,
visual, animation whose keywords its name contains, else in other. The script
then writes `dist/csstype.d.ts`: one optional member per define, typed by
`generateTypeDefinition`, and the `Shorthands` and `Longhands` unions of
camel-cased names, built per category and joined by `' |'`.

## Modules

| Module | Models | State | Actions |
|---|---|---|---|
| `Dispatcher` | `parseErrorWrapper`, `registerErrorParser`, `FallbackErrorParser` | `parsers` registry; per request: namespace, program counter, selected parser, result; namespaces whose load returned | `Start` (lines 32-36), `LoadRegisters` / `LoadResolvesEmpty` / `LoadRejects` (the await at 35, then 37-41), `ParseSettles` (42-50), `Register` (outside callers of `registerErrorParser`) |
| `DispatchAbstract` | the dispatcher's promise (spec 4.6; P1 when `MayFail` is false) | `answer`: each raw error's record | `Answer(r)`: one record carrying `r`; `Fail(r)`: a rejection, only when `MayFail` |
| `MTSErrorParser` | `MTSErrorParser.parse`, `getStackFramesInProduction`, `getFunctionInfo`, `getCallerInfo`, `MTSResourceProvider` | shared `debugInfo`; per parse: the input (code and error), frames, loop index, provider map, caller info, result | `Declines` (44-54, another channel: null), `SplitThrows` (91, a non-string cause), `Begin` (55-67: cause unwrap, `extractErrorInfo`'s splits, url test), `UrlFetched` (62-63), `FrameFetched` (130-131), `FetchRejects`, `Finish` (78-87) |
| `LynxErrorParser` | `LynxErrorParser.parse` and its children; `BTSErrorParser.parse` translated, `MTSErrorParser.parse` reduced to its outcomes | the log, the program counter, the child being awaited, the record | `Decode` (29-33), `ChildRecognizes` (34-43), `ChildPasses` (36-41) |
| `BodyMixin` | lynx-core fetch `BodyMixin` (`setBody`, `safeUseBody`, `arrayBuffer`, `text`, `json`) and `TextDecoder.decode` | bodies created so far, each one's init, `_arrayBuffer`, `_bodyUsed`, and the results of its reads | `Construct` (constructor and `setBody`, 11-52), `ArrayBuffer` / `Text` / `Json` (54-68, through `UseBody`, 16-26), `JsonThrows` |
| `FrameMapper` | `map`, `getFilesInFrames` | the frames, each file task's state, the cache, the output | `TaskResolves` / `TaskRejects` (39-43), `Join` (38, 45-71) |
| `TextInput` | the text of one input or textarea: `LynxInputConnectionWrapper`, the filters of `LynxUIBaseInput`, `LynxUITextArea` and `LynxUIInput`, `LynxInputUtils`' line count, the text UI methods | kind, text, selection, composing span, maxlength, regex, maxlines, confirm flag, the transformation method and `mSingleLine`, whether the type prop threw, `mPreHeight`, `mMaxLinesReached`, the shadow node's height, the last callback answer | `CommitText` / `SetComposingText` (through `ImeReplace`), `FinishComposingText`, `DeleteSurroundingText`, `SetValue`, `SetValueNoParams`, `GetValue`, `SetSelectionRange`, `SetMaxLength`, `SetInputFilter`, `SetMaxLines`, `SetConfirmType`, `SetInputType` |
| `InputFocus` | focus, the soft keyboard and editor actions of an input and a textarea in one window | the focused view, the keyboard, and per input `mUseCustomKeyboard`, `isEnabled`, `isFocusable`, the `imeOptions` action and no-fullscreen flags; whether the last `focus`/`blur` called back | `Tap` (`LynxEditTextView.onTouchEvent`), `Focus`, `Blur`, `OnFocusChanged`, `EditorAction` (input: `LynxUIInput` 26-42; textarea: `LynxUITextArea` 43-50), `SetDisable`, `SetIsReadOnly`, `SetConfirmType`, `SetFullscreenMode`, `SetShowSoftInputOnFocus` |
| `ApiParser` | `parseSourceFile` and every `build*Prototype` it calls, `handleJSDoc`, `isNeedParse`, and `cli.ts`'s `main` | the list of entries, the entry and the loop being run, the index in that loop, `metadata`, `allMetadata`, whether the cli printed or threw | `ClassStep` (440-477), `InterfaceStep` (480-491), `EnumStep` (494-502), `VariableStep` (505-548), `TypeAliasStep` (550-554), `NextLoop` (one `forEach` ends, the next starts), `FileParsed` (`cli.ts` 24-30) |
| `CSSTypeGen` | `generate-types.ts` (all of it) and `validateCSSDefine` | the program counter, the listed `.json` files, the file being read, the defines read, whether `dist/` exists, and `dist/csstype.d.ts` (missing, stale, or the emitted tokens) | `MkDist` (180-184), `ReadFile` (one iteration of `files.map`, 123-140), `Generate` (142-177 and the write, 187-188) |
| `SoftInputMode` | the Activity window's `softInputMode` as the inputs write it | the window's mode, and per input the custom flag, the stashed state bits and the adjust mode | `HideKeyboard` / `ShowKeyboard` (`setShowSoftInputOnFocus`, 452-478), `SetAdjust` (489-502), `Attach` (`LynxEditText.onAttachedToWindow`) |

How the modules correspond to the code:

- **Frame loop.** In `MTSErrorParser`, the loop of
  `getStackFramesInProduction` is the recursive operator `RunFrames`. It runs
  `ProcessFrame` (one loop iteration, lines 120-178) while the frame's file is
  cached. It stops at the first miss, which is where the code awaits
  `queryResource`. So one action covers everything the code does between two
  awaits.
- **Debug info.** A debug-info blob is a record holding the top-level keys in
  order, each with its entry. This lets `getFunctionInfo` be translated
  faithfully: first the substring key match, then `lepusNG_debug_info`, then
  `lepus_debug_info`, then the `function_source` fallback.
- **Legacy unpacking.** The legacy packed position is unpacked with `\div` and
  `%` by 65536. TLC's integers stop below 2^31, where `>>` and `& 0xffff`
  agree with that arithmetic.
- **Text.** `FrameMapper` abstracts a text to its number of lines. A source map
  is abstracted to the lookups it answers.
- **Input filters.** `TextInput` runs the filters in array order, each on
  what the one before returned, in `RunFilters`. It then replaces the range
  as `SpannableStringBuilder.replace` does. A filter's source is a record of
  its characters and whether it still carries the IME's composing span.
  `maxLinesFilter`'s binary search is the recursive `MaxLinesCut`, and layout
  is a character-wrap line count (`LineCount`).
- **The Android framework.** `InputFocus` and `TextInput` take the
  framework's behaviour from its documented contract. The module headers state
  it:
  - `requestFocus` needs a focusable, enabled view;
  - `clearFocus` does not hide the keyboard;
  - `FOCUS_FORWARD` search wraps around;
  - `BaseInputConnection.replaceText` replaces the composing region or the
    selection.
- **Source files.** `ApiParser` abstracts a source file to what
  `parseSourceFile` asks ts-morph for: declarations with a name and an
  export flag, and members with a name, a visibility, a parameter count and
  their JSDoc tags. The tags of all of a node's JSDoc blocks are put in one
  sequence, because `paramsIndex` runs across the blocks. Definition strings
  and descriptions are left out. Each emitted member keeps its prototype form
  (method, constructor, property, enum member), its parameter comments, its
  `returns`, its `since` and `has_apidoc`. The tag loop is the recursive
  `ApplyTags`. The property `ParseAsReference` compares the output with
  `RefFile`, which states per declaration what gets documented, and the k-th
  `@param` tag with `SelectSeq` instead of a loop.
- **The MTS front.** An error text is a sequence of atoms: `backtrace:`,
  `template_debug_url:`, a url, a stack, `naf` (the marker of a
  not-a-function message) or other text. `Piece0` and `Piece1` translate
  `split(sep)` followed by destructuring into two names. `parseStack` is the
  constant map `ParseStack` from stack atoms to frames. A fetch of a file in
  `MayBeEmpty` may also resolve `''` (`Served`), the fault of spec 5.
- **Type changes.** `setInputType` and a textarea's `confirm-type` change
  the transformation method, and the framework then runs `setText(mText)`.
  That call runs every filter over the whole text, resets the selection to 0
  and calls the TextWatcher. `SetText` is that call on a record of the view,
  so that the steps of one handler compose in their code order.
- **CSS defines.** `CSSTypeGen` takes a property name as its words (the
  text split at `-`), each word an atom with the category keywords it
  contains (`WordKeys`) and whether it starts with a lower-case letter
  (`LowerStart`), which is what `includes` and `toCamelCase`'s regex test.
  The emitted text is a sequence of tokens (a bar, a quoted literal, a
  member name, a keyword type); comments and layout are left out. The
  Ajv verdict of a file is a given boolean, because the schema is not in
  the repository.
- **Spec-modelled operators.** `getLinesAround`, `getOriginalPosition` and
  `getSource` are modelled from spec 4.2 and 4.3, because their code is not in
  the repository.

## Runs

| Run | Checks | Shows |
|---|---|---|
| `dispatcher` (pass) | `TypeOK`, `LoadBeforeFallback`, `DispatchRefinement` | The fallback is installed for a namespace only after a load was tried, in any interleaving of three dispatches. `parseErrorWrapper` refines `DispatchAbstract` with `MayFail <- LoaderMayReject`: every raw error is answered once, with its own `rawErrorText` or, only when the loader may reject, a rejection, and every one is answered. |
| `dispatcher_reject` (violation) | `TotalDispatch` | A rejecting `loadErrorParser` makes `parseErrorWrapper` reject (line 35 is outside the try). |
| `mts` (pass) | `TypeOK`, `ResolvedAsReference`, `CallerInfoAsReference` | Three concurrent parses of one template agree with a one-error-at-a-time reference of the whole `parse` (spec 4.5 and 6): the channel test, the cause unwrap, the splits at the first `backtrace:` and `template_debug_url:`, and phase A. |
| `mts_two_templates` (violation) | `ResolvedAsReference` | Errors of two templates parsed concurrently: one resolves its frames with the other template's debug info. |
| `lynx_cascade` (pass) | `TypeOK`, `CascadeAsReference` | Over 288 logs, the record comes from the channel `floor(code / 100)` names. That channel's frames are truncated to `MAX_STACK_FRAME_LEN`. The default record is used only when that channel's parser returned null or threw. |
| `body` (pass) | `TypeOK`, `DeliveredOnce`, `DeliversInitBytes` | Each body hands out its content once. That content is its init's bytes, through any chain of bodies made from bodies, whatever the order of reads and constructions. |
| `mapper` (pass) | `TypeOK`, `FramesPreserved`, `MapResolves` | With fetches that resolve, resolve empty or reject, in any order, `map` keeps length, order and generated positions. It rebuilds exactly the frames of files fetched, and always resolves. |
| `text_input` (pass) | `TypeOK`, `MaxLinesCutIsLongestFit`, `EditsKeepMaxLength`, `EditsKeepMaxLines`, `EditsKeepRegex` | For an input and a textarea edited by the IME and by `setValue` while the limits change: `maxLinesFilter`'s binary search keeps exactly the longest prefix that fits. No edit takes the text past maxlength or maxlines, also after a limit is lowered, and also when a `type` or textarea `confirm-type` change re-filters the whole text. No change of the text adds a character that `input-filter` rejects. |
| `input_focus` (pass) | `FocusBringsKeyboard`, `CustomKeyboardNeverOpened` | Every path that focuses an input without a custom keyboard brings the keyboard up. For a next editor action, only the focus listener does. No path opens it for a custom-keyboard input. |
| `api_parser` (pass) | `TypeOK`, `ParseAsReference` | Over 400 lists of one or two source files, the cli prints exactly the reference documentation. It fails without printing exactly when a documented member has more `@param` tags than parameters, in any file of the list. Private and protected members with too many tags are skipped, so they do not fail it. |
| `css_types` (pass) | `TypeOK`, `TypesCoverDefines` | Over every listing of up to three of eleven entries, the script throws at the first invalid `.json` file. Otherwise `csstype.d.ts` declares each define once, in the block of the first category whose keyword its name contains (`inline-…` goes to typography through `line`), and names it in `Shorthands` or `Longhands` as `is_shorthand` says, so that both `Pick` types select members `CSSProperties` has. |
| `soft_input` (pass) | `TypeOK`, `ToggleKeepsAdjust` | Two inputs toggling `show-soft-input-on-focus` and attaching with their own adjust modes in any order: a toggle never changes the window's adjust bits. |

The reference in `MTSErrorParser` (`RefFrames`, `RefPosition`,
`RefProvider`, `RefCallerInfo`) restates phase A from spec 4.5 for one error.
It is written independently of the action definitions.

Every property of a passing run has a mutant in `PROJECT.json`: an operator
defined just before the definition it replaces, which reproduces a plausible
bug. TLC finds the property violated once the mutant is swapped in.
`InputFocus` keeps its `TypeOK` but no run checks it. Every write of that
module takes its value from a closed set (a Kotlin `when` with no `else`
leaves `imeOptions` as it is), so no plausible change of the code can leave
those types, and an unbreakable property would say nothing about the code.

## Bounds

- **Dispatcher.** Three requests over `{"lynx", "other", "__UNKNOWN__"}`.
  - Two requests can race on one namespace's load while a third uses another
    namespace.
  - `Register` lets outside code register at any time.
- **MTSErrorParser.** Three parses and three files: `main-thread.js`, a file
  without a function list, and a file whose blob is not JSON. The blobs
  exercise:
  - `line_col`;
  - legacy entries: packed, direct, and left as they are;
  - the current fallback key (`lepusNG_debug_info`). The legacy key
    appears only in a blob whose substring match wins over it, so the
    legacy-key branch is never taken;
  - a substring key match.

  The inputs have three or four frames against `MAX_STACK_FRAME_LEN = 3`, so
  truncation happens. The inputs (`In1`-`In7` in `MCMTSErrorParser`) cover:
  - a code of another channel;
  - a nested `cause` and one that is not a string;
  - a url, a missing url and an empty one;
  - a stack of one or two parts;
  - a message with and without the not-a-function marker.

  With three parses, two can race on one file's fetch while a third is
  between its awaits.
- **LynxErrorParser.** All combinations of:
  - a decodable or undecodable log;
  - eight codes: each channel's first and last code of its hundred, the codes
    just outside, a negative code, and a missing code;
  - six background payloads (not JSON, no `rawError`, no stack, and 0, 2 or 4
    frames against a maximum of 3);
  - three main-thread outcome sets.

  `E_CODE_BTS = 160102`, from the spec's scenario. `base.ts`, which defines
  the constants, is not in the repository, so `E_CODE_MTS` is a distinct
  value chosen for the check.
- **BodyMixin.** Three bodies created in order, each from any init or from
  an earlier body. The memory has 3 bytes. There are two strings: one is JSON
  and one is not. Each body can be read up to twice (`MaxReads`), so a second
  read happens. In the passing run, the typed array views the whole buffer,
  where the code is right. The violation run adds a typed array that views
  one byte.
- **FrameMapper.** Two inputs over three files. Each fetch can settle with:
  - a text;
  - an empty text;
  - undefined;
  - a rejection.

  This covers each combination of failing files and each order of settling.

- **TextInput.** Each check is run for both kinds (input and textarea).
  - Text: three characters (`a`, `1`, a newline), two per layout line, and
    IME texts of one or three characters. The IME builds texts of at most
    three characters (`MaxText`).
  - Limits: maxlength 2 or null, maxlines 0 or 2, a regex accepting only
    `1` or none, and a placeholder of three characters (two lines).
  - `confirm-type`: `send`. The unknown value, which leaves `imeOptions`
    alone, is exercised by `InputFocus`.
  - The type prop: `text` and `password`. Every other type acts as `text`
    on the state modelled here.
  - UI method parameters: `setValue` values of zero or three characters, and
    cursors and selection offsets of -1 (absent), 0 and past the end.

  This makes every filter cut, the binary search run over odd and even
  lengths, and a limit drop below the current text.
- **InputFocus.** An input followed by a textarea in focus order. This is the
  smallest page where a next action moves focus, a blur of one input meets
  the other's keyboard, and focus search wraps around.
  - Confirm types: `next`, `done`, `send`, null and an unknown value.
  - Every boolean prop takes both values.
- **SoftInputMode.** Two inputs over one window, starting from an
  unspecified mode and setting any of the five
  `android-set-soft-input-mode` values.

- **ApiParser.** Two names, `A` and `B`. Files combine:
  - no class, class `A`, `A` with a public method with one `@param` tag too
    many, or `A` with a non-exported `B`;
  - an interface, an enum, two type aliases (one not exported);
  - an exported `new B()`, a non-exported `new A()`, and an exported const
    that is not a `new`.

  Class `A` has a constructor whose `@param` tags are out of order, a
  protected method with a tag too many, public and private properties and a
  getter. The export list is any subset of the two names. Two-file lists
  pair a good file with a failing one. Every loop runs over empty and
  non-empty lists, and both outcomes of every filter happen.

- **CSSTypeGen.** Eight defines: shorthand and longhand ones; number,
  integer, enum-valued, keyword and plain types; names that hit one
  category, several (`border-inline-color` is both visual and, through
  `inline`, typography), none, and one starting with `-` (`-webkit-line-clamp`,
  whose leading dash stays). Three faulty entries: bad JSON, a schema
  failure, and a non-`.json` file. Every listing of up to three distinct
  entries, with `dist/` missing, empty, or holding a stale file. Three
  defines are enough to leave a category without a shorthand while another
  has one, and to order two defines of one category both ways.

## Fairness

Spec section 5 says that fetches and loads resolve or reject in finite time.
There is no cancellation and no timeout at this layer. So each request or parse
has weak fairness on its own steps.

- `MTSErrorParser` states that weak fairness through the state predicate that
  disables `Step(r)`, which is `pc[r] = "done"`. This avoids evaluating
  `ENABLED` over the recursive frame loop. No run checks a liveness
  property of it: every parse's steps are acyclic and a rejection settles
  it, so "every parse settles" would hold by construction.
- `LynxErrorParser` is checked for safety only, for the same reason: the
  default child always answers and a throw is caught like a null.
- `map` is a single call, so `WF_vars(Next)`.

`BodyMixin` is checked for safety only. Nothing in the code obliges a
caller to read a body.

`ApiParser` is checked for safety only: a run of the cli is a finite loop,
and a run ends either printed or thrown (`CHECK_DEADLOCK FALSE`).

`CSSTypeGen` is checked for safety only: the script is a finite loop
that ends written or thrown (`CHECK_DEADLOCK FALSE`).

The Android modules are checked for safety only. Every step there is a user's
tap, a page's prop or method call, or the IME's call, and nothing obliges any
of them to happen.

Outside registrations (`Register`) get no fairness. No code promises them.

## Further checks

Each configuration below checks one property that the code violates. TLC finds
the violation, and the hazard in `PROJECT.json` names the configuration. They
are not among the runs, which are kept to one per question.

| Configuration | Property | What the counterexample shows |
|---|---|---|
| `MCMTSErrorParserProvider.cfg` | `ProviderKeepsSource` | `setResource`'s guard is inverted. An empty source clobbers a registered one. |
| `MCMTSErrorParserCallerPc0.cfg` | `CallerInfoAsReference` | A first frame at pc 0 gets no caller info, because of the falsy test at line 101. |
| `MCFrameMapperAllOrNothing.cfg` | `OriginalAllOrNothing` | An unmapped frame gets `_originalFunctionName` and nothing else. |
| `MCSoftInputModeHidden.cfg` | `HiddenWhileCustom` | `show-soft-input-on-focus = false` xors the state bits (line 462) instead of clearing them. The window ends in state 15, not always-hidden. |
| `MCSoftInputModeRestore.cfg` | `RestoredAfterOwnToggle` | From a window with mode 0, turning the prop back on computes 0, which `Window.setSoftInputMode` ignores. |
| `MCSoftInputModeShared.cfg` | `WindowRestoredWhenAllOn` | Two inputs toggling in the same order leave the window in a mode it never had. |
| `MCTextInputHeightTracksText.cfg` | `HeightTracksText` | A textarea edit that `maxLinesFilter` cut skips the height update (`mMaxLinesReached`). |
| `MCTextInputEveryCallAnswered.cfg` | `EveryCallAnswered` | `setValue` with a cursor past the filtered text throws after changing the text, and the callback never runs. |
| `MCTextInputComposingSpanKept.cfg` | `ComposingSpanKept` | The regex filter returns a String, which drops the IME's composing span. |
| `MCInputFocusKeyboardOnlyWhileFocused.cfg` | `KeyboardOnlyWhileFocused` | Disabling the focused input drops its focus but leaves the keyboard up. |
| `MCInputFocusFocusAnswered.cfg` | `FocusAnswered` | `focus()` on a custom-keyboard input never calls back (line 736). |
| `MCInputFocusDisabledNotFocusable.cfg` | `DisabledNotFocusable` | `readonly = false` after `disabled = true` makes a disabled input focusable and interactive. |
| `MCInputFocusNoFullscreenKept.cfg` | `NoFullscreenKept` | `confirm-type` overwrites `imeOptions` and drops the no-fullscreen flags. |
| `MCMTSErrorParserEmptyFetch.cfg` | `CacheKeepsTruthy` | A second fetch of the template url that resolves `''` replaces the good `main-thread.js` blob in the shared cache (lines 63 and 131). Spec 5 says a falsy blob is never cached over a good one. |
| `MCMTSErrorParserRepeatedMarker.cfg` | `ResolvedAsReference` | A message with a second `backtrace:` loses the stack after it. Destructuring `split` keeps only the piece up to the second marker, and spec 6 says to split at the first. |
| `MCTextInputTypeThrows.cfg` | `TypeChangeNeverThrows` | The IME types `a`, then `input-filter` accepts only `1`, then `type = password`. The new transformation's `setText` filters the text to empty, and `setSelection` with the start read at line 404 throws (line 410). |
| `MCBodyMixinTypedArray.cfg` | `DeliversInitBytes` | A body made from a typed array that views part of its buffer delivers the whole buffer (`BodyMixin.ts` line 47). |
| `MCMTSErrorParserFetchRejects.cfg` | `FetchFailureTolerated` | A rejected `queryResource` for the debug url (line 62) or a frame's file (line 130) rejects the whole parse, which nothing inside `parse` catches. Spec 4.5 says a failed debug-info fetch passes the frame through unresolved, and spec 7 that a fetch failure never aborts the record; `LynxErrorParser` instead falls through to the default record and the frames are lost. |
| `MCCSSTypeGenParse.cfg` | `GeneratedTypesParse` | Defines `animation`, `flex` and `z-index`, all valid. Each category's part of the union starts with a `// category` line comment, and the `' \|'` after an empty category falls inside it. `other` has no shorthand, so `Shorthands` ends `"animation" \|` followed by `// other;`: the closing `;` is inside the comment and the union ends in a bar, which TypeScript rejects (lines 66-69, 171). This happens whenever `other` has no shorthand, or no longhand. |
| `MCApiParserExportsRespected.cfg` | `ExportsRespected` | An exported `new B()` is documented although the export list does not name it. The instance loop (505-548) never calls `isNeedParse`. |
| `MCApiParserGettersAsGetters.cfg` | `GettersAsGetters` | A class getter is documented with a method prototype. Line 472 calls `buildMethodPrototype`, and `buildGetterPrototype` is never called. |
| `MCApiParserSinceRecorded.cfg` | `SinceRecorded` | A class's `@since` tag is lost: `handleJSDoc` returns before its tag loop for an object (lines 99-101). |

## Not modelled

- **`BTSErrorParser`'s call of `map`.** `LynxErrorParser` takes it as
  keeping the frame count, which `FrameMapper` checks. Its `queryResource`
  adapter (`?? ''`) is the `Served` nulls of `FrameMapper`.
- **`parseStack`, the source-map library and the default parser.** They are not
  in the repository. Only their specified effects are used.
- **Phase B as a composition.** MTS phase A followed by `map` over its
  provider. The modules are separate today.
- **Android input, outside the modules above:**
  - the IME connection's setup (`onCreateInputConnection`);
  - paste and copy;
  - fonts and styling props;
  - the events sent to the page;
  - the x-overlay-ng window.

  These are formatting, or framework plumbing with no state the properties
  tell apart.
- **`InputFocus` composed with `SoftInputMode`.** `setShowSoftInputOnFocus`
  writes both modules' state. Their product has about 10^4 × 10^4 states,
  too many for TLC, so each module keeps its own model of the setter.
- **Other parts:**
  - the UI. Spec 1 puts it out of scope. The header's store and the native
    view list it reads are not in the repository, and devtool-switch only
    renders from jotai atoms;
  - type declarations (`interface.ts` only declares the native proxy's
    methods);
  - the lynx-core encoder and console;
  - in the CSS tooling, the Ajv schema (not in the repository; a file's
    verdict is given), and `validateAllCSSDefines` and `test-validation.ts`,
    which only print a report of each file's verdict;

  See `PROJECT.json`.

## Plan

Module order:

1. `Dispatcher`, refining `DispatchAbstract`;
2. `MTSErrorParser`, now the whole of `parse`;
3. `FrameMapper`;
4. `LynxErrorParser` with the BTS channel (done);
5. a composition of `Dispatcher` with `LynxErrorParser`, so that a thrown
   child and a rejected load are seen end to end;
6. MTS phase A feeding `FrameMapper` through the `MTSResourceProvider`;
7. `TextInput`, `InputFocus` and `SoftInputMode` (done). Next, the IME
   connection's `served` flag, which gates `isComposing` in `getValue` and
   in the input event. The composition of `InputFocus` with
   `SoftInputMode` was tried and is out of TLC's reach.
8. `ApiParser` (done), `CSSTypeGen` (done; the typed-array body check
   became a further check to free its run slot).
9. The logbox header's view navigation (`pages/header`). Its click handlers
   read `currentView` and `viewsCount` from the last render. Between a
   delete and the next render, a `previous` or `next` click asks the native
   side for a view that no longer exists. This needs a run slot.

------------------------------- MODULE Launch -------------------------------
(***************************************************************************)
(* From the command line of a sandbox-exec to what its run is recorded     *)
(* with: ParseArgs of internal/sbx, readProfileFile of internal/correlate  *)
(* and the session detectors of internal/detect.                           *)
(*                                                                         *)
(* A word of a command line and a profile text are sequences of symbols:   *)
(* "-", letters, Claude's session tags and Cursor's fingerprint.           *)
(***************************************************************************)
EXTENDS Integers, SequencesExt

CONSTANTS
    Tag,                \* the sessions Claude Code tags its profiles with (Tag.Suffix)
    Conversation,       \* the values of CURSOR_CONVERSATION_ID
    MaxProfileSize,     \* the longest profile file, in symbols
    NULL

ASSUME SizeAssumption == MaxProfileSize \in Nat
ASSUME NullAssumption == NULL \notin Nat

Fingerprint == "; Added on top of Chrome profile"

\* The symbols that are neither a tag nor a conversation.
Symbol == {"-", "", "(", "/", "a", "c", "d", "D", "e", "f", "n", "p", "t", "x", Fingerprint}

ASSUME SymbolAssumption == NULL \notin Tag \cup Conversation \cup Symbol /\ Symbol \cap (Tag \cup Conversation) = {}

-----------------------------------------------------------------------------
(* ParseArgs. *)

WithValue == {"D", "e", "f", "n", "p", "t"}
SourceOf == [f |-> "file", n |-> "named", p |-> "inline"]

\* A ProfileSpec; "value" is the field (Inline, File or Name) that belongs to Source.
NoSpec == [source |-> "unknown", value |-> <<>>, params |-> <<>>, extra |-> <<>>, command |-> <<>>, err |-> FALSE]

\* apply
Applied(s, opt, val) ==
    CASE opt = "D" -> [s EXCEPT !.params = Append(@, val)]
      [] opt \in DOMAIN SourceOf -> [s EXCEPT !.source = SourceOf[opt], !.value = val]
      [] OTHER -> [s EXCEPT !.extra = @ \o << <<"-", opt>>, val>>]

\* Where the loop over argv is: among the options or past them, and the option that waits for the
\* next word to be its value.
Start == [options |-> TRUE, waiting |-> NULL, spec |-> NoSpec]

\* A word of letters: flags up to the first option with a value, whose value is the rest or the next word.
Letters(st, word) ==
    LET at == SelectInSeq(Tail(word), LAMBDA c : c \in WithValue) + 1
        flags == IF at = 1 THEN Tail(word) ELSE SubSeq(word, 2, at - 1)
        flagged == [st.spec EXCEPT !.extra = @ \o [i \in DOMAIN flags |-> <<"-", flags[i]>>]]
        val == SubSeq(word, at + 1, Len(word))
    IN
    IF at = 1 THEN [st EXCEPT !.spec = flagged]
    ELSE IF val = <<>> THEN [st EXCEPT !.spec = flagged, !.waiting = word[at]]
    ELSE [st EXCEPT !.spec = Applied(flagged, word[at], val)]

\* Mutant of Step: a value that looks like an option is read as one.
StepNoDashValue(st, word) ==
    IF ~st.options THEN [st EXCEPT !.spec.command = Append(@, word)]
    ELSE IF st.waiting # NULL /\ word # <<>> /\ Head(word) # "-" THEN
         [st EXCEPT !.spec = Applied(@, st.waiting, word), !.waiting = NULL]
    ELSE IF word = <<"-", "-">> THEN [st EXCEPT !.options = FALSE]
    ELSE IF Len(word) < 2 \/ Head(word) # "-" THEN [st EXCEPT !.options = FALSE, !.spec.command = <<word>>]
    ELSE Letters(st, word)

Step(st, word) ==
    IF st.waiting # NULL THEN [st EXCEPT !.spec = Applied(@, st.waiting, word), !.waiting = NULL]
    ELSE IF ~st.options THEN [st EXCEPT !.spec.command = Append(@, word)]
    ELSE IF word = <<"-", "-">> THEN [st EXCEPT !.options = FALSE]
    ELSE IF Len(word) < 2 \/ Head(word) # "-" THEN [st EXCEPT !.options = FALSE, !.spec.command = <<word>>]
    ELSE Letters(st, word)

\* Only a missing profile option or a missing option value is an error.
ParseArgs(argv) ==
    LET after[n \in 0..Len(argv) - 1] == IF n = 0 THEN Start ELSE Step(after[n - 1], argv[n + 1])
        end == after[Len(argv) - 1]
    IN
    IF end.waiting # NULL THEN [end.spec EXCEPT !.source = "unknown", !.err = TRUE]
    ELSE [end.spec EXCEPT !.err = end.spec.source = "unknown"]

-----------------------------------------------------------------------------
(* The profile. *)

\* A file that the path of -f leads to, through symlinks: what it is, its content at the stat and
\* at the read.
File(kind, before, after) == [kind |-> kind, before |-> before, after |-> after]

\* At most n symbols (io.LimitReader).
Limited(text, n) == SubSeq(text, 1, IF Len(text) < n THEN Len(text) ELSE n)

\* Mutant of Read: cut at the size allowed.
ReadCut(text) == Limited(text, MaxProfileSize)

\* One more than what is allowed.
Read(text) == Limited(text, MaxProfileSize + 1)

\* readProfileFile: devPathError before and after the symlinks are resolved, then open, stat, read.
\* Every refusal is an error and no text.
ReadProfileFile(f) ==
    IF f.kind = "regular" /\ Len(f.before) <= MaxProfileSize /\ Len(Read(f.after)) <= MaxProfileSize
    THEN [text |-> Read(f.after), err |-> FALSE]
    ELSE [text |-> <<>>, err |-> TRUE]

-----------------------------------------------------------------------------
(* The detectors.  Of an environment only the entries for CURSOR_CONVERSATION_ID count, a sequence
   of values. *)

\* Mutant of PickEnv: the last entry wins.
PickEnvLast(env) == IF env = <<>> THEN NULL ELSE Last(env)

\* As with getenv, the first entry for a name wins.
PickEnv(env) == IF env = <<>> THEN NULL ELSE Head(env)

\* FindTag: the first tag in a text.
FindTag(text) == IF SelectInSeq(text, LAMBDA c : c \in Tag) = 0 THEN NULL ELSE text[SelectInSeq(text, LAMBDA c : c \in Tag)]

\* A session is its kind and key.
Claude(text) == IF FindTag(text) = NULL THEN {} ELSE {<<"claude-code", FindTag(text)>>}

\* Mutant of CursorKey: no CursorUnknownKey.
CursorKeyRaw(value) == IF value = NULL THEN "" ELSE value

CursorKey(value) == IF value \in {NULL, ""} THEN "unknown" ELSE value

Cursor(text, env) == IF Contains(text, Fingerprint) THEN {<<"cursor", CursorKey(PickEnv(env))>>} ELSE {}

\* detect.Run: the first detector of All that claims the run.
DetectRun(text, env) == IF Claude(text) # {} THEN Claude(text) ELSE Cursor(text, env)

\* detect.Denial: only Claude's denials carry a tag.
DetectDenial(message) == Claude(message)

\* What startSandboxExecRun records of a command line, "file" being what a -f in it leads to.
ReadProfile(argv, file) ==
    LET spec == ParseArgs(argv)
        read == ReadProfileFile(file)
    IN  [source |-> spec.source,
         text |-> CASE spec.source = "inline" -> spec.value
                    [] spec.source = "file" -> read.text
                    [] OTHER -> <<>>,
         err |-> spec.err \/ (spec.source = "file" /\ read.err)]
=============================================================================

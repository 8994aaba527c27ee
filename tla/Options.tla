------------------------------ MODULE Options ------------------------------
(***************************************************************************)
(* The command line of msearch (cli/options.c): one pass over the          *)
(* arguments, in which a later setting replaces an earlier one and the     *)
(* first argument that asks for help or cannot be used ends the parsing.   *)
(*                                                                         *)
(* Arguments are whole texts; the two spellings of an option are one.      *)
(* What strtol, strtod and the first character make of a text is given.    *)
(***************************************************************************)
EXTENDS Integers, Sequences, SequencesExt, Registry

CONSTANTS
    Compiled,       \* the optional backends of the build
    NumberOf,       \* the texts that strtol reads to their end, and as what
    PositiveTexts,  \* the texts that strtod reads to their end as positive
    UnknownOptions  \* texts that begin with a dash, and are no option

MaxValue == 1000000     \* the bound of parse_int_arg

Defaults == [
    input_path |-> "input.txt", output_path |-> "output.txt", backend_name |-> "auto",
    threads |-> 0, device |-> -1, zero_eps |-> "default", bench_reps |-> 0,
    verify |-> FALSE, log_level |-> "info"]

\* The options that take a value, and the setting that each of them makes.
ValueOptions == {"-i", "-o", "-b", "-t", "-d", "--bench", "--zero-eps"}

Setting == [option \in ValueOptions |->
    CASE option = "-i" -> "input_path"
      [] option = "-o" -> "output_path"
      [] option = "-b" -> "backend_name"
      [] option = "-t" -> "threads"
      [] option = "-d" -> "device"
      [] option = "--bench" -> "bench_reps"
      [] OTHER -> "zero_eps"]

Numeric == {"-t", "-d", "--bench"}
EarlyActions == {"-h", "-V", "--list-backends"}
Switches == {"--verify", "-q", "-v"}

ASSUME UnknownAssumption ==
    UnknownOptions \cap (ValueOptions \cup EarlyActions \cup Switches) = {}

parse_int_arg(text, least) ==
    text \in DOMAIN NumberOf /\ NumberOf[text] \in least .. MaxValue

Usable(option, text) ==
    /\ option = "-b" =>
           text = "auto" \/ msearch_backend_find(Compiled, text) # NotRegistered
    /\ option \in {"-t", "--bench"} => parse_int_arg(text, 1)
    /\ option = "-d" => parse_int_arg(text, 0)
    /\ option = "--zero-eps" => text \in PositiveTexts

ValueOf(option, text) == IF option \in Numeric THEN NumberOf[text] ELSE text

-----------------------------------------------------------------------------
(* msearch_config_parse *)

NoOption == ""

Start == [
    config |-> Defaults, verbosity |-> 0, action |-> "none", status |-> "OK",
    option |-> NoOption,    \* waits for its value
    returned |-> FALSE]

Refuse(s) == [s EXCEPT !.status = "INVALID", !.returned = TRUE]

TakeValue(s, text) ==
    IF Usable(s.option, text)
    THEN [s EXCEPT !.config[Setting[s.option]] = ValueOf(s.option, text),
                   !.option = NoOption]
    ELSE Refuse(s)

\* Defect: the level is counted up from wherever it is.
LouderByOne(verbosity) == verbosity + 1
Louder(verbosity) == IF verbosity < 1 THEN 1 ELSE 2

TakeWord(s, word) ==
    CASE word \in EarlyActions -> [s EXCEPT !.action = word, !.returned = TRUE]
      [] word \in ValueOptions -> [s EXCEPT !.option = word]
      [] word = "--verify" -> [s EXCEPT !.config.verify = TRUE]
      [] word = "-q" -> [s EXCEPT !.verbosity = -1]
      [] word = "-v" -> [s EXCEPT !.verbosity = Louder(@)]
      [] word \in UnknownOptions -> Refuse(s)
      [] OTHER -> [s EXCEPT !.config.input_path = word]

TakeArgument(s, text) ==
    IF s.returned THEN s
    ELSE IF s.option # NoOption THEN TakeValue(s, text) ELSE TakeWord(s, text)

LogLevel(verbosity) ==
    CASE verbosity < 0 -> "error"
      [] verbosity >= 2 -> "debug"
      [] OTHER -> "info"

\* What the loop has made of the first arguments, none to all of them.
Pass(argv) ==
    LET pass[p \in 0 .. Len(argv)] ==
            IF p = 0 THEN Start ELSE TakeArgument(pass[p - 1], argv[p])
    IN  pass

msearch_config_parse(argv) ==
    LET s == Pass(argv)[Len(argv)]
        end == IF s.returned \/ s.option = NoOption THEN s ELSE Refuse(s)
    IN  [status |-> end.status, action |-> end.action,
         config |-> IF end.returned THEN end.config
                    ELSE [end.config EXCEPT !.log_level = LogLevel(end.verbosity)]]

-----------------------------------------------------------------------------
(* What a command line says, without a pass over it *)

\* The positions that hold values: the word before is an option that takes one.
ValuePositions(argv) ==
    CHOOSE V \in SUBSET DOMAIN argv : \A p \in DOMAIN argv :
        p \in V <=> p - 1 \in DOMAIN argv \ V /\ argv[p - 1] \in ValueOptions

Words(argv) == DOMAIN argv \ ValuePositions(argv)

Unusable(argv, p) ==
    \/ argv[p] \in UnknownOptions
    \/ /\ argv[p] \in ValueOptions
       /\ p = Len(argv) \/ ~Usable(argv[p], argv[p + 1])

Endings(argv) == {p \in Words(argv) : argv[p] \in EarlyActions \/ Unusable(argv, p)}

\* The words that set a field of the configuration; the last one counts.
Setters(argv, field) ==
    {p \in Words(argv) :
        \/ argv[p] \in ValueOptions /\ Setting[argv[p]] = field
        \/ field = "input_path" /\ argv[p] \notin ValueOptions \cup Switches}

SettingOf(argv, field) ==
    IF Setters(argv, field) = {} THEN Defaults[field]
    ELSE LET p == Max(Setters(argv, field))
         IN  IF argv[p] \in ValueOptions THEN ValueOf(argv[p], argv[p + 1]) ELSE argv[p]

\* "-v" counts from the last "-q" on: once for information, twice for debugging.
LevelOf(argv) ==
    LET quiet == {p \in Words(argv) : argv[p] = "-q"}
        louder == {p \in Words(argv) : argv[p] = "-v" /\ \A q \in quiet : q < p}
    IN  IF louder # {} THEN IF Min(louder) = Max(louder) THEN "info" ELSE "debug"
        ELSE IF quiet # {} THEN "error" ELSE "info"

SaysOf(argv, parsed) ==
    IF Endings(argv) # {}
    THEN LET p == Min(Endings(argv))
         IN  IF Unusable(argv, p) THEN parsed.status = "INVALID"
             ELSE parsed.status = "OK" /\ parsed.action = argv[p]
    ELSE /\ parsed.status = "OK" /\ parsed.action = "none"
         /\ \A field \in {Setting[option] : option \in ValueOptions} :
                parsed.config[field] = SettingOf(argv, field)
         /\ parsed.config.verify <=> \E p \in Words(argv) : argv[p] = "--verify"
         /\ parsed.config.log_level = LevelOf(argv)

=============================================================================

------------------------------- MODULE Config -------------------------------
(***************************************************************************)
(* config.py: from the file to the configuration the program runs with, or *)
(* to the exception that load_config raises.  A document is a TOML file:   *)
(* its form, its mode, and the value of each key.  A value has its TOML    *)
(* type; of a string the model keeps its word, what float() makes of it    *)
(* (in hundredths), its unit of time, and its code if it is one character. *)
(***************************************************************************)
EXTENDS Integers, Sequences

CONSTANTS
    MaxDuration,    \* MAX_DURATION_SECONDS
    Keysyms,        \* NAMED_KEYSYMS: a function from names
    NotFinite,      \* what is not a number, or infinite
    Huge,           \* an integer, or a finite float, of some 308 digits
    Absent,         \* the key is not there
    ConfigError,
    Uncaught        \* OverflowError, RecursionError, OSError: not a ShimError

ASSUME ConfigAssumption ==
    /\ MaxDuration \in Nat
    /\ \A name \in DOMAIN Keysyms : Keysyms[name] \in Nat

Failed(result) == result \in {ConfigError, Uncaught}

(* Values *)
Number(n) == [type |-> "integer", number |-> n]
Flag(b) == [type |-> "boolean", flag |-> b]
Float(hundredths) == [type |-> "float", number |-> hundredths]
Text(word) == [type |-> "string", word |-> word, number |-> NotFinite, unit |-> 1, code |-> 0]
Amount(hundredths, unit) == [Text("amount") EXCEPT !.number = hundredths, !.unit = unit]
Letter(code) == [Text("letter") EXCEPT !.code = code]
List(values) == [type |-> "list", items |-> values]

Blank(text) == text.word \in {"", " "}

-----------------------------------------------------------------------------
(* parse_duration *)

(* A plausible bug: zero seconds are accepted.                             *)
AcceptsZero(seconds) == IF seconds \in 0..MaxDuration THEN seconds ELSE ConfigError

Bounded(seconds) == IF seconds \in 1..MaxDuration THEN seconds ELSE ConfigError

(* A float must be whole; a string is multiplied by its unit and truncated,*)
(* and the product may be infinite though the number is not.               *)
parse_duration(v) ==
    LET finite == v.number \notin {NotFinite, Huge} IN
    CASE v.type = "integer" /\ v.number # Huge -> Bounded(v.number)
      [] v.type = "float" /\ finite /\ v.number % 100 = 0 -> Bounded(v.number \div 100)
      [] v.type = "string" /\ finite -> Bounded((v.number * v.unit) \div 100)
      [] v.type = "string" /\ v.number = Huge /\ v.unit > 1 -> Uncaught
      [] OTHER -> ConfigError

resolve_keysym(v) ==
    CASE v.type = "string" /\ v.code \in 32..126 -> v.code
      [] v.type = "string" /\ v.word \in DOMAIN Keysyms -> Keysyms[v.word]
      [] OTHER -> ConfigError

-----------------------------------------------------------------------------
(* _Table: every getter refuses a value of another type *)

str_(v) == IF v.type = "string" THEN v ELSE ConfigError

int_(v, range) ==
    IF v.type = "integer" /\ v.number \in range THEN v.number ELSE ConfigError

(* In hundredths.  float() of an integer may overflow.                         *)
float_(v, range) ==
    CASE v.type = "integer" /\ v.number = Huge -> Uncaught
      [] v.type = "integer" /\ v.number * 100 \in range -> v.number * 100
      [] v.type = "float" /\ v.number \in range -> v.number
      [] OTHER -> ConfigError

bool_(v) == IF v.type = "boolean" THEN v.flag ELSE ConfigError

str_list(v) ==
    IF v.type = "list" /\ \A i \in 1..Len(v.items) : v.items[i].type = "string"
    THEN v.items ELSE ConfigError

choice(v, options) == IF v.type = "string" /\ v.word \in options THEN v.word ELSE ConfigError

-----------------------------------------------------------------------------
(* parse_config *)

(* The keys in the order in which they are read, each table followed by    *)
(* the checks that close it.                                               *)
Order ==
    <<"state.dir", "state", "target.host", "target",
      "ping.interval", "ping.retry_interval", "ping.threshold", "ping.command",
      "ping.timeout", "ping",
      "vnc.host", "vnc.port", "vnc.password", "vnc.tls", "vnc.tls_verify",
      "vnc.tls_ca", "vnc.connect_timeout", "vnc.read_timeout", "vnc",
      "detect.text", "detect.key", "detect.engine", "detect.calibration",
      "detect.tolerance", "detect",
      "recovery.interval", "recovery.post_fix_sleep", "recovery.max_per_day",
      "recovery.notify_command", "recovery",
      "log.level", "log.syslog", "log.file", "log.screenshot_dir",
      "log.screenshot_keep", "log", "root">>

Tables == {"state", "target", "ping", "vnc", "detect", "recovery", "log", "root"}

Keys == {Order[i] : i \in 1..Len(Order)} \ Tables

Default ==
    [key \in Keys |->
        CASE key \in {"ping.interval", "ping.retry_interval"} -> Number(120)
          [] key = "ping.timeout" -> Number(15)
          [] key = "vnc.connect_timeout" -> Number(10)
          [] key = "vnc.read_timeout" -> Number(30)
          [] key = "recovery.interval" -> Number(60)
          [] key = "recovery.post_fix_sleep" -> Number(600)
          [] key \in {"ping.threshold", "recovery.max_per_day"} -> Number(3)
          [] key = "vnc.port" -> Number(5901)
          [] key = "log.screenshot_keep" -> Number(20)
          [] key = "detect.tolerance" -> Float(2)
          [] key \in {"vnc.tls", "vnc.tls_verify"} -> Flag(FALSE)
          [] key = "detect.key" -> Letter(89)
          [] key = "detect.engine" -> Text("calibrated")
          [] key = "log.level" -> Text("INFO")
          [] key = "log.syslog" -> Text("auto")
          [] key \in {"state.dir", "detect.calibration", "log.screenshot_dir"} -> Text("default")
          [] key = "ping.command" -> List(<<Text("ping"), Text("{host}")>>)
          [] key = "recovery.notify_command" -> List(<<>>)
          [] OTHER -> Absent]

Optional == {"vnc.password", "vnc.tls_ca", "log.file"}

Durations == {"ping.interval", "ping.retry_interval", "ping.timeout", "vnc.connect_timeout",
              "vnc.read_timeout", "recovery.interval", "recovery.post_fix_sleep"}

Counts == {"ping.threshold", "vnc.port", "recovery.max_per_day", "log.screenshot_keep"}

RangeOf(key) ==
    CASE key = "ping.threshold" -> 1..1000
      [] key = "vnc.port" -> 1..65535
      [] key = "recovery.max_per_day" -> 0..100000
      [] key = "log.screenshot_keep" -> 1..100000

Options ==
    [key \in {"detect.engine", "log.level", "log.syslog"} |->
        CASE key = "detect.engine" -> {"calibrated", "ocr"}
          [] key = "log.level" -> {"DEBUG", "INFO", "WARNING", "ERROR", "CRITICAL"}
          [] key = "log.syslog" -> {"auto", "always", "never"}]

Given(document, key) ==
    IF document.keys[key] = Absent THEN Default[key] ELSE document.keys[key]

(* What the getter of a key makes of its value, or raises. *)
Gets(key, v) ==
    CASE v = Absent -> IF key \in Optional THEN Absent ELSE ConfigError
      [] v # Absent /\ key \in Durations -> parse_duration(v)
      [] v # Absent /\ key \in Counts -> int_(v, RangeOf(key))
      [] v # Absent /\ key \in {"vnc.tls", "vnc.tls_verify"} -> bool_(v)
      [] v # Absent /\ key \in DOMAIN Options -> choice(v, Options[key])
      [] v # Absent /\ key \in {"ping.command", "recovery.notify_command"} -> str_list(v)
      [] v # Absent /\ key = "detect.key" -> resolve_keysym(v)
      [] v # Absent /\ key = "detect.tolerance" -> float_(v, 0..100)
      [] OTHER -> str_(v)

Got(document, key) == Gets(key, Given(document, key))

(* finish, and the conditions on the table as a whole. *)
Closes(document, table) ==
    LET got(key) == Got(document, key) IN
    /\ table \notin document.flat \cup document.stray
    /\ table = "target" => ~Blank(got("target.host"))
    /\ table = "ping" => \E i \in 1..Len(got("ping.command")) :
                            got("ping.command")[i].word = "{host}"
    /\ table = "vnc" => /\ ~Blank(got("vnc.host"))
                        /\ got("vnc.tls_verify") \/ got("vnc.tls_ca") # Absent =>
                            got("vnc.tls")
    /\ table = "detect" => ~Blank(got("detect.text"))

Step(document, s) ==
    IF s \in Keys THEN Got(document, s)
    ELSE IF Closes(document, s) THEN "closed" ELSE ConfigError

(* The configuration, or the first exception. *)
parse_config(document) ==
    LET Fails(i) == Failed(Step(document, Order[i])) IN
    IF \E i \in 1..Len(Order) : Fails(i)
    THEN Step(document, Order[CHOOSE i \in 1..Len(Order) :
                                Fails(i) /\ \A j \in 1..(i - 1) : ~Fails(j)])
    ELSE [key \in Keys |-> Got(document, key)]

Forms == {"unreadable", "not text", "not TOML", "too deep", "TOML"}

(* A file that holds a password must not be readable by all.               *)
check_permissions(document, config) ==
    IF ~Failed(config) /\ config["vnc.password"] # Absent /\ document.world_readable
    THEN ConfigError ELSE config

load_config(document) ==
    CASE document.form \in {"unreadable", "not text", "not TOML"} -> ConfigError
      [] document.form = "too deep" -> Uncaught
      [] document.form = "TOML" -> check_permissions(document, parse_config(document))

-----------------------------------------------------------------------------
(* What the rest of the program takes for granted of its configuration.    *)
Sane(config) ==
    /\ \A key \in Durations : config[key] \in 1..MaxDuration
    /\ \A key \in Counts : config[key] \in RangeOf(key)
    /\ config["detect.key"] \in 32..126 \cup {Keysyms[name] : name \in DOMAIN Keysyms}
    /\ config["detect.tolerance"] \in 0..100
    /\ \E i \in 1..Len(config["ping.command"]) : config["ping.command"][i].word = "{host}"
    /\ \A key \in {"target.host", "vnc.host", "detect.text"} : ~Blank(config[key])
    /\ config["vnc.tls_verify"] => config["vnc.tls"]
    /\ config["log.syslog"] \in Options["log.syslog"]
=============================================================================

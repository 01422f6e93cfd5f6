----------------------------- MODULE MCService ------------------------------
(***************************************************************************)
(* Constants for model-checking Service: a configuration file with little  *)
(* in it, and that file with a value changed here and there.               *)
(***************************************************************************)
EXTENDS Service, SequencesExt

MCKeysyms == ("Return" :> 65293) @@ ("F1" :> 65470)

Plain ==
    [form |-> "TOML", world_readable |-> FALSE, stray |-> {}, flat |-> {},
     keys |-> [key \in Keys |->
        CASE key \in {"target.host", "vnc.host"} -> Text("host")
          [] key = "detect.text" -> Text("message")
          [] OTHER -> Absent]]

With(edits) ==
    [Plain EXCEPT !.keys = [key \in Keys |->
        IF key \in DOMAIN edits THEN edits[key] ELSE @[key]]]

Logging ==
    {With(("log.syslog" :> Text(s)) @@ ("log.file" :> f)) :
        s \in {"auto", "always", "never"}, f \in {Absent, Text("path")}}

Odd ==
    {With("ping.interval" :> v) :
        v \in {Number(0), Number(Huge), Float(150), Float(Huge), Float(NotFinite),
               Amount(50, 1), Amount(3000, 86400), Amount(3100, 86400), Amount(Huge, 1),
               Amount(Huge, 86400), Amount(-100, 60), Text(""), Flag(TRUE), List(<<>>)}}
    \cup {With("ping.threshold" :> v) : v \in {Number(0), Number(1001), Flag(TRUE)}}
    \cup {With("detect.tolerance" :> v) :
        v \in {Number(1), Number(Huge), Float(101), Float(NotFinite)}}
    \cup {With("detect.key" :> v) :
        v \in {Letter(127), Text("Return"), Text("Shift"), Text("")}}
    \cup {With("ping.command" :> v) :
        v \in {List(<<>>), List(<<Text("ping")>>), List(<<Text("{host}"), Number(1)>>)}}
    \cup {With("detect.text" :> v) : v \in {Absent, Text(" "), List(<<Text("message")>>)}}
    \cup {With("target.host" :> Text(" ")), With("log.level" :> Text("NOTICE")),
          With("vnc.tls_verify" :> Flag(TRUE)), With("vnc.tls_ca" :> Text("ca")),
          With(("vnc.tls_verify" :> Flag(TRUE)) @@ ("vnc.tls" :> Flag(TRUE))),
          [Plain EXCEPT !.stray = {"root"}], [Plain EXCEPT !.stray = {"log"}],
          [Plain EXCEPT !.flat = {"recovery"}],
          [With("vnc.password" :> Text("secret")) EXCEPT !.world_readable = TRUE],
          [Plain EXCEPT !.world_readable = TRUE]}
    \cup {[Plain EXCEPT !.form = form] : form \in {"unreadable", "not text", "not TOML", "too deep"}}

Files ==
    FoldSet(LAMBDA d, s : Append(s, d), <<Plain>>, (Logging \cup Odd) \ {Plain})

Results == FoldLeft(LAMBDA s, d : Append(s, load_config(d)), <<>>, Files)

(* By a name of their own, TLC evaluates them once.                        *)
MCDocuments == Files
MCLoaded == Results
=============================================================================

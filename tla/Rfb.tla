-------------------------------- MODULE Rfb ---------------------------------
(***************************************************************************)
(* rfb.py's RFBClient and the VNC server of a management controller, over  *)
(* one connection.  The server frames its messages as RFB 3.8 says, fills  *)
(* them with whatever it likes, and is as slow as it likes or gone.        *)
(*                                                                         *)
(* A token of the stream is a header together with the type byte before    *)
(* it, or a run of payload bytes; what is in one is its value.  pc names   *)
(* the kind of token the client reads next.  Sending is one step with what *)
(* it follows: the messages are shorter than any socket buffer.            *)
(***************************************************************************)
EXTENDS Naturals, Sequences

CONSTANTS
    Regions,      \* the parts of the screen that rectangles cover
    Looks,        \* what a region may show
    Blank,        \* a region of a frame that nothing has been painted on
    Passwords,    \* {TRUE}: vnc.password is set; {FALSE}: not; both: either
    ReadTimeout,  \* vnc.read_timeout
    MaxRects,     \* MAX_RECTANGLES
    MaxWire       \* bound on tokens in flight, either way

ASSUME RfbAssumption ==
    /\ Blank \notin Looks
    /\ Passwords \subseteq BOOLEAN
    /\ ReadTimeout \in Nat \ {0}
    /\ MaxRects \in Nat
    /\ MaxWire \in Nat

VARIABLES
    pc,        \* "none": no socket; "ready", "failed", or a kind of token
    outcome,   \* of the last call: "", "ok", "frame" or an exception
    password,  \* whether there is one
    left,      \* what remains of the operation's _Deadline
    rects,     \* rectangles of the update still to be read
    region,    \* the region the next pixels are for
    pixels     \* the frame

VARIABLES
    toClient,  \* tokens sent and not read
    toServer,  \* messages sent and not heard
    gone       \* the server has closed or died

VARIABLES
    stage,     \* the message the server waits for, or "greet", "over"
    asked,     \* which of pixel format and encodings the server was told
    pending,   \* a request has not been answered
    owing,     \* rectangles of the update still to be sent
    screen     \* what the console shows

(* History variables. *)
VARIABLES
    spent,     \* time since the operation began (counted to ReadTimeout + 1)
    since      \* what each region has shown since the request

client == <<pc, outcome, password, left, rects, region, pixels>>
server == <<stage, asked, pending, owing, screen>>
ghosts == <<spent, since>>
vars   == <<client, toClient, toServer, gone, server, ghosts>>

Reads == {"banner", "types", "reason", "challenge", "result", "init",
          "message", "payload", "rect", "pixels"}

Token(kind, value) == [kind |-> kind, value |-> value]

NoPixels == [r \in Regions |-> Blank]

Init ==
    /\ pc = "none" /\ outcome = "" /\ password \in Passwords
    /\ left = 0 /\ rects = 0 /\ region \in Regions /\ pixels = NoPixels
    /\ toClient = <<>> /\ toServer = <<>> /\ gone = FALSE
    /\ stage = "over" /\ asked = {} /\ pending = FALSE /\ owing = 0
    /\ screen \in [Regions -> Looks]
    /\ spent = 0 /\ since = [r \in Regions |-> {}]

-----------------------------------------------------------------------------
(* _recv, _send, _Deadline *)

(* A plausible bug: a timeout for every read, not a deadline for all.      *)
TakesAfresh(kind) ==
    /\ pc = kind
    /\ left > 0 /\ left' = ReadTimeout
    /\ toClient # <<>> /\ Head(toClient).kind = kind
    /\ toClient' = Tail(toClient)

(* deadline.check() comes before recv: with no time left, what has arrived *)
(* is not read.                                                            *)
Take(kind) ==
    /\ pc = kind
    /\ left > 0 /\ UNCHANGED left
    /\ toClient # <<>> /\ Head(toClient).kind = kind
    /\ toClient' = Tail(toClient)

Value == Head(toClient).value

Send(messages) == toServer' = toServer \o messages

(* The client goes on to read the next token, or ends its call.            *)
Continue(to) ==
    /\ pc' = to
    /\ UNCHANGED <<outcome, password, rects, region, pixels>>

Return(result) ==
    /\ pc' = "ready"
    /\ outcome' = result
    /\ UNCHANGED <<password, rects, region, pixels>>

Raise(error) ==
    /\ pc' = "failed"
    /\ outcome' = error
    /\ UNCHANGED <<password, rects, region, pixels>>

(* _read_reason tolerates that the reason never comes.                     *)
ErrorOr(error) == IF pc = "reason" THEN "AuthError" ELSE error

(* A plausible bug: recv that times out is called again.                   *)
RetriesTheRead ==
    /\ pc \in Reads
    /\ left = 0 /\ left' = ReadTimeout
    /\ UNCHANGED <<client, toClient, toServer, gone, server, ghosts>>

TimeOut ==
    /\ pc \in Reads
    /\ left = 0
    /\ Raise(ErrorOr("Timeout"))
    /\ UNCHANGED <<left, toClient, toServer, gone, server, ghosts>>

(* recv returns nothing or raises, or a send does.                         *)
HangUp ==
    /\ gone
    /\ \/ pc \in Reads /\ toClient = <<>>
       \/ pc \in {"banner", "types", "challenge", "result", "init", "ready"}
    /\ Raise(ErrorOr("ProtocolError"))
    /\ UNCHANGED <<left, toClient, toServer, gone, server, ghosts>>

-----------------------------------------------------------------------------
(* connect *)

Connect ==
    /\ pc = "none"
    /\ pc' = "banner" /\ outcome' = "" /\ left' = ReadTimeout
    /\ stage' = "greet"
    /\ UNCHANGED <<password, rects, region, pixels, toClient, toServer, gone,
                   asked, pending, owing, screen, ghosts>>

(* Refused, unreachable, or TLS failed; nothing is left open.              *)
ConnectFails ==
    /\ pc = "none"
    /\ outcome' = "ConnectionFailed"
    /\ UNCHANGED <<pc, password, left, rects, region, pixels,
                   toClient, toServer, gone, server, ghosts>>

ReadBanner ==
    /\ Take("banner")
    /\ \/ Value = "3.8" /\ Send(<<"version">>) /\ Continue("types")
       \/ Value # "3.8" /\ Send(<<>>) /\ Raise("ProtocolError")
    /\ UNCHANGED <<gone, server, ghosts>>

(* VNC authentication if there is a password for it, else none at all.     *)
ReadTypes ==
    /\ Take("types")
    /\ \/ /\ Value = {}
          /\ Send(<<>>) /\ Continue("reason")
       \/ /\ "vnc" \in Value /\ password
          /\ Send(<<"vnc">>) /\ Continue("challenge")
       \/ /\ "none" \in Value /\ ~("vnc" \in Value /\ password)
          /\ Send(<<"none">>) /\ Continue("result")
       \/ /\ Value # {} /\ "none" \notin Value /\ ~("vnc" \in Value /\ password)
          /\ Send(<<>>) /\ Raise("AuthError")
    /\ UNCHANGED <<gone, server, ghosts>>

ReadReason ==
    /\ Take("reason")
    /\ Send(<<>>) /\ Raise("AuthError")
    /\ UNCHANGED <<gone, server, ghosts>>

ReadChallenge ==
    /\ Take("challenge")
    /\ Send(<<"response">>) /\ Continue("result")
    /\ UNCHANGED <<gone, server, ghosts>>

(* A plausible bug: the result is read past, not looked at.                *)
IgnoresTheResult ==
    /\ Take("result")
    /\ Send(<<"client_init">>) /\ Continue("init")
    /\ UNCHANGED <<gone, server, ghosts>>

ReadResult ==
    /\ Take("result")
    /\ \/ Value = "ok" /\ Send(<<"client_init">>) /\ Continue("init")
       \/ Value # "ok" /\ Send(<<>>) /\ Continue("reason")
    /\ UNCHANGED <<gone, server, ghosts>>

(* ServerInit with the desktop name; the rest of connect only sends.       *)
ReadInit ==
    /\ Take("init")
    /\ \/ Value = "ok" /\ Send(<<"pixel_format", "encodings">>) /\ Return("ok")
       \/ Value # "ok" /\ Send(<<>>) /\ Raise("ProtocolError")
    /\ UNCHANGED <<gone, server, ghosts>>

-----------------------------------------------------------------------------
(* capture *)

(* A plausible bug: one buffer for all frames.                             *)
PaintsOverTheLastFrame ==
    /\ pc = "ready"
    /\ toServer = <<>>
    /\ Send(<<"request">>)
    /\ pc' = "message" /\ outcome' = "" /\ left' = ReadTimeout
    /\ spent' = 0 /\ since' = [r \in Regions |-> {screen[r]}]
    /\ UNCHANGED <<password, rects, region, pixels, toClient, gone, server>>

Capture ==
    /\ pc = "ready"
    /\ toServer = <<>>    \* bound: one request or key in flight
    /\ Send(<<"request">>)
    /\ pc' = "message" /\ outcome' = "" /\ left' = ReadTimeout
    /\ pixels' = NoPixels
    /\ spent' = 0 /\ since' = [r \in Regions |-> {screen[r]}]
    /\ UNCHANGED <<password, rects, region, toClient, gone, server>>

(* An update without a painted rectangle is an error, not a black screen.  *)
FinishUpdate(painted) ==
    /\ rects' = 0
    /\ pixels' = painted
    /\ \/ painted # NoPixels /\ pc' = "ready" /\ outcome' = "frame"
       \/ painted = NoPixels /\ pc' = "failed" /\ outcome' = "ProtocolError"
    /\ UNCHANGED <<password, region>>

NextRect(painted) ==
    \/ rects = 1 /\ FinishUpdate(painted)
    \/ /\ rects > 1 /\ rects' = rects - 1
       /\ pc' = "rect" /\ pixels' = painted
       /\ UNCHANGED <<outcome, password, region>>

(* A plausible bug: a cut text is taken for its header.                    *)
SkipsTheText ==
    /\ Take("message")
    /\ \/ Value.type = "update" /\ Value.count > MaxRects /\ Raise("ProtocolError")
       \/ Value.type = "update" /\ Value.count = 0 /\ FinishUpdate(pixels)
       \/ /\ Value.type = "update" /\ Value.count \in 1..MaxRects
          /\ pc' = "rect" /\ rects' = Value.count
          /\ UNCHANGED <<outcome, password, region, pixels>>
       \/ Value.type \in {"bell", "colours", "cut"} /\ Continue("message")
       \/ Value.type = "other" /\ Raise("ProtocolError")
    /\ UNCHANGED <<toServer, gone, server, ghosts>>

(* _await_update: bells, colour maps and cut texts may come first.  A      *)
(* count beyond MaxRects or a text beyond a megabyte is not waited for.    *)
ReadMessage ==
    /\ Take("message")
    /\ \/ Value.type = "update" /\ Value.count > MaxRects /\ Raise("ProtocolError")
       \/ Value.type = "update" /\ Value.count = 0 /\ FinishUpdate(pixels)
       \/ /\ Value.type = "update" /\ Value.count \in 1..MaxRects
          /\ pc' = "rect" /\ rects' = Value.count
          /\ UNCHANGED <<outcome, password, region, pixels>>
       \/ Value.type \in {"bell", "colours", "cut"} /\ Value.count = 0 /\ Continue("message")
       \/ Value.type \in {"colours", "cut"} /\ Value.count = 1 /\ Continue("payload")
       \/ Value.type = "cut" /\ Value.count > 1 /\ Raise("ProtocolError")
       \/ Value.type = "other" /\ Raise("ProtocolError")
    /\ UNCHANGED <<toServer, gone, server, ghosts>>

ReadPayload ==
    /\ Take("payload")
    /\ Continue("message")
    /\ UNCHANGED <<toServer, gone, server, ghosts>>

(* _read_update: only Raw, only inside the framebuffer; an empty rectangle *)
(* has no pixels.                                                          *)
ReadRect ==
    /\ Take("rect")
    /\ \/ Value.shape \in {"encoded", "outside"} /\ Raise("ProtocolError")
       \/ Value.shape = "empty" /\ NextRect(pixels)
       \/ /\ Value.shape = "raw"
          /\ pc' = "pixels" /\ region' = Value.region
          /\ UNCHANGED <<outcome, password, rects, pixels>>
    /\ UNCHANGED <<toServer, gone, server, ghosts>>

(* A plausible bug: pixels are blitted as they come, padding and all.      *)
BlitsThePadding ==
    /\ Take("pixels")
    /\ NextRect([pixels EXCEPT ![region] = <<Value, "padding">>])
    /\ UNCHANGED <<toServer, gone, server, ghosts>>

ReadPixels ==
    /\ Take("pixels")
    /\ NextRect([pixels EXCEPT ![region] = Value])
    /\ UNCHANGED <<toServer, gone, server, ghosts>>

-----------------------------------------------------------------------------
(* send_key, close *)

SendKey ==
    /\ pc = "ready"
    /\ toServer = <<>>
    /\ Send(<<"key_down", "key_up">>)
    /\ outcome' = "ok"
    /\ UNCHANGED <<pc, password, left, rects, region, pixels, toClient, gone, server, ghosts>>

Close ==
    /\ pc \in {"ready", "failed"}
    /\ pc' = "none" /\ outcome' = ""
    /\ left' = 0 /\ rects' = 0 /\ pixels' = NoPixels
    /\ toClient' = <<>> /\ toServer' = <<>> /\ gone' = FALSE
    /\ stage' = "over" /\ asked' = {} /\ pending' = FALSE /\ owing' = 0
    /\ spent' = 0 /\ since' = [r \in Regions |-> {}]
    /\ UNCHANGED <<password, region, screen>>

Client ==
    \/ TimeOut \/ HangUp
    \/ ReadBanner \/ ReadTypes \/ ReadReason \/ ReadChallenge \/ ReadResult \/ ReadInit
    \/ ReadMessage \/ ReadPayload \/ ReadRect \/ ReadPixels

Caller == Connect \/ ConnectFails \/ Capture \/ SendKey \/ Close

-----------------------------------------------------------------------------
(* The server: tools/fake_vnc_server.py, whose faults are choices here,    *)
(* and every other that frames its messages.                               *)

Says(tokens) ==
    /\ ~gone
    /\ Len(toClient) + Len(tokens) <= MaxWire
    /\ toClient' = toClient \o tokens

Hears(message) ==
    /\ ~gone
    /\ toServer # <<>> /\ Head(toServer) = message
    /\ toServer' = Tail(toServer)

Greet ==
    /\ stage = "greet"
    /\ \E v \in {"3.8", "3.3", "junk"} : Says(<<Token("banner", v)>>)
    /\ stage' = "version"
    /\ UNCHANGED <<client, toServer, gone, asked, pending, owing, screen, ghosts>>

(* A server that refuses may or may not say why.                           *)
Offer ==
    /\ stage = "version" /\ Hears("version")
    /\ \/ \E t \in (SUBSET {"none", "vnc", "other"}) \ {{}} :
            Says(<<Token("types", t)>>) /\ stage' = "choice"
       \/ /\ stage' = "over"
          /\ \/ Says(<<Token("types", {})>>)
             \/ Says(<<Token("types", {}), Token("reason", "bytes")>>)
    /\ UNCHANGED <<client, gone, asked, pending, owing, screen, ghosts>>

Challenge ==
    /\ stage = "choice" /\ Hears("vnc")
    /\ Says(<<Token("challenge", "bytes")>>)
    /\ stage' = "response"
    /\ UNCHANGED <<client, gone, asked, pending, owing, screen, ghosts>>

Judge ==
    /\ \/ stage = "choice" /\ Hears("none")
       \/ stage = "response" /\ Hears("response")
    /\ \/ Says(<<Token("result", "ok")>>) /\ stage' = "client_init"
       \/ /\ stage' = "over"
          /\ \/ Says(<<Token("result", "no")>>)
             \/ Says(<<Token("result", "no"), Token("reason", "bytes")>>)
    /\ UNCHANGED <<client, gone, asked, pending, owing, screen, ghosts>>

Introduce ==
    /\ stage = "client_init" /\ Hears("client_init")
    /\ \E v \in {"ok", "no area", "long name"} : Says(<<Token("init", v)>>)
    /\ stage' = "serving"
    /\ UNCHANGED <<client, gone, asked, pending, owing, screen, ghosts>>

Settings == {"pixel_format", "encodings"}

Listen ==
    /\ stage = "serving"
    /\ \/ \E m \in Settings : Hears(m) /\ asked' = asked \cup {m} /\ UNCHANGED pending
       \/ Hears("request") /\ pending' = TRUE /\ UNCHANGED asked
       \/ \E m \in {"key_down", "key_up"} : Hears(m) /\ UNCHANGED <<asked, pending>>
    /\ UNCHANGED <<client, toClient, gone, stage, owing, screen, ghosts>>

Message(type, count) == Token("message", [type |-> type, count |-> count])

(* The update that answers a request, one rectangle at a time; it need not *)
(* cover the screen.                                                       *)
BeginUpdate ==
    /\ stage = "serving" /\ pending /\ owing = 0
    /\ \E n \in 0..MaxRects + 1 :
        /\ Says(<<Message("update", n)>>)
        /\ owing' = n
    /\ pending' = FALSE
    /\ UNCHANGED <<client, toServer, gone, stage, asked, screen, ghosts>>

SendRect ==
    /\ owing > 0 /\ owing' = owing - 1
    /\ \E r \in Regions :
        LET Rect(shape) == Token("rect", [shape |-> shape, region |-> r]) IN
        \/ Says(<<Rect("raw"), Token("pixels", screen[r])>>)
        \/ Says(<<Rect("empty")>>)
        \/ Says(<<Rect("outside"), Token("pixels", screen[r])>>)
        \/ Says(<<Rect("encoded"), Token("encoded", screen[r])>>)
    /\ UNCHANGED <<client, toServer, gone, stage, asked, pending, screen, ghosts>>

(* Between updates a server may ring, recolour, copy, or babble.           *)
Noise ==
    /\ stage = "serving" /\ owing = 0
    /\ \/ \E type \in {"bell", "colours", "cut"} : Says(<<Message(type, 0)>>)
       \/ \E type \in {"colours", "cut"} : Says(<<Message(type, 1), Token("payload", "bytes")>>)
       \/ Says(<<Message("cut", 2), Token("payload", "bytes")>>)
       \/ Says(<<Message("other", 0), Token("payload", "bytes")>>)
    /\ UNCHANGED <<client, toServer, gone, server, ghosts>>

(* A server that closes or dies may take with it what is still in flight;  *)
(* half a token is none, for it is never read.                             *)
Vanish ==
    /\ pc # "none" /\ ~gone
    /\ gone' = TRUE
    /\ \E n \in 0..Len(toClient) : toClient' = SubSeq(toClient, 1, n)
    /\ UNCHANGED <<client, toServer, server, ghosts>>

Server ==
    \/ Greet \/ Offer \/ Challenge \/ Judge \/ Introduce \/ Listen
    \/ BeginUpdate \/ SendRect \/ Noise \/ Vanish

-----------------------------------------------------------------------------
(* The world *)

ScreenChanges ==
    /\ \E r \in Regions, l \in Looks :
        /\ screen' = [screen EXCEPT ![r] = l]
        /\ since' = IF pc \in Reads THEN [since EXCEPT ![r] = @ \cup {l}] ELSE since
    /\ UNCHANGED <<client, toClient, toServer, gone, stage, asked, pending, owing, spent>>

Tick ==
    /\ pc \in Reads /\ left > 0
    /\ left' = left - 1
    /\ spent' = IF spent > ReadTimeout THEN spent ELSE spent + 1
    /\ UNCHANGED <<pc, outcome, password, rects, region, pixels,
                   toClient, toServer, gone, server, since>>

Next == Client \/ Caller \/ Server \/ ScreenChanges \/ Tick

Spec == Init /\ [][Next]_vars

(* The client runs and time passes; nothing is expected of the server.     *)
FairSpec == Spec /\ WF_vars(Client) /\ WF_vars(Tick)

-----------------------------------------------------------------------------
(* Properties *)

(* Every variable keeps its type. *)
TypeOK ==
    /\ pc \in Reads \cup {"none", "ready", "failed"}
    /\ outcome \in {"", "ok", "frame", "ConnectionFailed", "ProtocolError",
                    "AuthError", "Timeout"}
    /\ password \in BOOLEAN
    /\ left \in 0..ReadTimeout
    /\ rects \in 0..MaxRects
    /\ region \in Regions
    /\ pixels \in [Regions -> Looks \cup {Blank}]
    /\ Len(toClient) <= MaxWire
    /\ gone \in BOOLEAN
    /\ stage \in {"over", "greet", "version", "choice", "response", "client_init", "serving"}
    /\ asked \subseteq Settings
    /\ pending \in BOOLEAN
    /\ owing \in 0..MaxRects + 1
    /\ screen \in [Regions -> Looks]
    /\ since \in [Regions -> SUBSET Looks]

(* The client never takes payload for a header, nor a header for payload,  *)
(* whatever it skips, tolerates or refuses.                                *)
InSync ==
    pc \in Reads /\ toClient # <<>> => Head(toClient).kind = pc

(* The server never hears what the protocol does not allow it to expect,   *)
(* nor a request for pixels before it knows their format; it hears from a  *)
(* client it has refused no more.                                          *)
ServerUnderstands ==
    toServer # <<>> =>
        CASE stage = "choice"  -> Head(toServer) \in {"vnc", "none"}
          [] stage = "serving" ->
                \/ Head(toServer) \in Settings
                \/ Head(toServer) \in {"request", "key_down", "key_up"} /\ asked = Settings
          [] OTHER             -> Head(toServer) = stage

(* No call outlasts its deadline, however the server dribbles.             *)
WithinDeadline == pc \in Reads => spent + left <= ReadTimeout

(* A frame shows in every region what the screen showed there between the  *)
(* request and the end of the update, or nothing.                          *)
FrameIsFresh ==
    outcome = "frame" => \A r \in Regions : pixels[r] \in since[r] \cup {Blank}

(* Every call returns or raises, though the server may never be silent.    *)
CallsEnd == pc \in Reads ~> pc \notin Reads
=============================================================================

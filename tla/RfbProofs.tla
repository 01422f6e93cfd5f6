----------------------------- MODULE RfbProofs ------------------------------
(***************************************************************************)
(* Theorems about Rfb, for any screen, timeout, number of rectangles and   *)
(* amount in flight.  Four invariants, each resting on those before it:    *)
(* BasicInv (types and the clock), TalkInv (who has said what until the    *)
(* session begins, and what the server is still to hear), PaintInv (what   *)
(* the frame owes to the screen), and StreamInv (the tokens in flight are  *)
(* a run of the reader from where the client is to where the server is).   *)
(***************************************************************************)
EXTENDS Rfb, SequenceTheorems, TLAPS

USE DEF vars, client, server, ghosts

(* Reads after connect. *)
Session == {"message", "payload", "rect", "pixels"}

-----------------------------------------------------------------------------
(* Types *)

(* What a server says, as far as types go. *)
Words == {"bytes", "3.8", "3.3", "junk", "ok", "no", "no area", "long name"}

Tokens ==
    [kind : {"message"},
     value : [type : {"update", "bell", "colours", "cut", "other"}, count : Nat]]
    \cup [kind : {"rect"},
          value : [shape : {"raw", "empty", "outside", "encoded"}, region : Regions]]
    \cup [kind : {"pixels", "encoded"}, value : Looks]
    \cup [kind : {"types"}, value : SUBSET {"none", "vnc", "other"}]
    \cup [kind : {"banner", "reason", "challenge", "result", "init", "payload"}, value : Words]

(* What a client says. *)
Messages ==
    {"version", "vnc", "none", "response", "client_init", "pixel_format", "encodings",
     "request", "key_down", "key_up"}

WireType == toClient \in Seq(Tokens) /\ toServer \in Seq(Messages)

ClockInv ==
    /\ spent \in Nat
    /\ pc = "none" => spent = 0
    /\ pc \in Reads => spent + left <= ReadTimeout

BasicInv == TypeOK /\ WireType /\ ClockInv

LEMMA Numbers ==
    /\ ReadTimeout \in Nat /\ ReadTimeout > 0 /\ MaxRects \in Nat /\ MaxWire \in Nat
    /\ 0 \in 0..ReadTimeout /\ ReadTimeout \in 0..ReadTimeout
    /\ 0 \in 0..MaxRects /\ 0 \in 0..MaxRects + 1
    /\ \A n \in 0..MaxRects + 1 : n \in Nat
    /\ 0 <= MaxWire
    /\ Passwords \subseteq BOOLEAN
  <1>1. ReadTimeout \in Nat \ {0} /\ MaxRects \in Nat /\ MaxWire \in Nat
        /\ Passwords \subseteq BOOLEAN
    BY RfbAssumption
  <1> QED
    BY <1>1

LEMMA StartsOnTime ==
    ASSUME spent' = 0, pc' \in Reads => left' = ReadTimeout
    PROVE  ClockInv'
  <1>1. 0 \in Nat /\ 0 + ReadTimeout <= ReadTimeout
    BY Numbers
  <1> QED
    BY <1>1 DEF ClockInv

LEMMA NoFrame ==
    /\ NoPixels \in [Regions -> Looks \cup {Blank}]
    /\ [r \in Regions |-> {}] \in [Regions -> SUBSET Looks]
  BY DEF NoPixels

LEMMA Silence ==
    /\ <<>> \in Seq(Tokens) /\ <<>> \in Seq(Messages) /\ Len(<<>>) = 0
  BY EmptySeq

(* What is left after a token is read, and what comes with those said.     *)
LEMMA TakeResult ==
    ASSUME WireType, NEW kind, Take(kind)
    PROVE  /\ pc = kind /\ Head(toClient).kind = kind
           /\ Head(toClient) = toClient[1] /\ toClient[1] \in Tokens
           /\ Len(toClient) \in Nat \ {0}
           /\ toClient' \in Seq(Tokens) /\ Len(toClient') = Len(toClient) - 1
           /\ \A i \in 1..Len(toClient') : toClient'[i] = toClient[i + 1]
           /\ UNCHANGED left
  <1>1. toClient \in Seq(Tokens) /\ toClient # <<>> /\ toClient' = Tail(toClient)
    BY DEF WireType, Take
  <1>2. Len(toClient) \in Nat \ {0}
    BY <1>1, EmptySeq
  <1>3. toClient[1] \in Tokens /\ Head(toClient) = toClient[1]
    BY <1>1, <1>2, ElementOfSeq
  <1>4. /\ toClient' \in Seq(Tokens) /\ Len(toClient') = Len(toClient) - 1
        /\ \A i \in 1..Len(toClient') : toClient'[i] = toClient[i + 1]
    BY <1>1, HeadTailProperties
  <1> QED
    BY <1>2, <1>3, <1>4 DEF Take

LEMMA SaysOne ==
    ASSUME WireType, NEW t \in Tokens, Says(<<t>>)
    PROVE  /\ ~gone
           /\ toClient' \in Seq(Tokens) /\ Len(toClient') = Len(toClient) + 1
           /\ Len(toClient') <= MaxWire
           /\ toClient' = Append(toClient, t)
  <1>1. toClient \in Seq(Tokens) /\ toClient' = toClient \o <<t>>
    BY DEF WireType, Says
  <1>2. toClient' = Append(toClient, t)
    BY <1>1, AppendIsConcat
  <1>3. Len(toClient) \in Nat /\ Len(<<t>>) = 1
    BY <1>1, LenProperties
  <1>4. Len(toClient') = Len(toClient) + 1 /\ toClient' \in Seq(Tokens)
    BY <1>1, <1>2, AppendProperties
  <1> QED
    BY <1>2, <1>3, <1>4 DEF Says

LEMMA SaysTwo ==
    ASSUME WireType, NEW t \in Tokens, NEW u \in Tokens, Says(<<t, u>>)
    PROVE  /\ ~gone
           /\ toClient' \in Seq(Tokens) /\ Len(toClient') = Len(toClient) + 2
           /\ Len(toClient') <= MaxWire
           /\ Append(toClient, t) \in Seq(Tokens)
           /\ toClient' = Append(Append(toClient, t), u)
  <1>1. toClient \in Seq(Tokens) /\ toClient' = toClient \o <<t, u>>
    BY DEF WireType, Says
  <1>2. <<t, u>> = <<t>> \o <<u>> /\ <<t>> \in Seq(Tokens) /\ <<u>> \in Seq(Tokens)
    <2>1. /\ <<t>> \in Seq(Tokens) /\ Len(<<t>>) = 1 /\ <<t>>[1] = t
          /\ <<u>> \in Seq(Tokens) /\ Len(<<u>>) = 1 /\ <<u>>[1] = u
      OBVIOUS
    <2>2. <<t, u>> \in Seq(Tokens) /\ Len(<<t, u>>) = 2 /\ <<t, u>>[1] = t /\ <<t, u>>[2] = u
      OBVIOUS
    <2> DEFINE s == <<t>>
               r == <<u>>
    <2> HIDE DEF s, r
    <2>3. /\ s \o r \in Seq(Tokens) /\ Len(s \o r) = 2
          /\ (s \o r)[1] = t /\ (s \o r)[2] = u
      BY <2>1, ConcatProperties DEF s, r
    <2>4. <<t, u>> = s \o r
      <3> DEFINE v == <<t, u>>
                 w == s \o r
      <3>1. v \in Seq(Tokens) /\ Len(v) = 2 /\ v[1] = t /\ v[2] = u
        BY <2>2
      <3>2. w \in Seq(Tokens) /\ Len(w) = 2 /\ w[1] = t /\ w[2] = u
        BY <2>3
      <3> HIDE DEF v, w
      <3>3. \A i \in 1..Len(v) : v[i] = w[i]
        BY <3>1, <3>2
      <3>4. v = w
        BY <3>1, <3>2, <3>3, SeqEqual
      <3> QED
        BY <3>4 DEF v, w
    <2> QED
      BY <2>1, <2>4 DEF s, r
  <1>3. toClient' = (toClient \o <<t>>) \o <<u>>
    BY <1>1, <1>2, ConcatAssociative
  <1>4. Append(toClient, t) \in Seq(Tokens) /\ Append(toClient, t) = toClient \o <<t>>
        /\ Len(Append(toClient, t)) = Len(toClient) + 1
    BY <1>1, AppendIsConcat, AppendProperties
  <1>5. toClient' = Append(Append(toClient, t), u)
    BY <1>3, <1>4, AppendIsConcat
  <1>6. Len(toClient) \in Nat /\ Len(<<t, u>>) = 2
    BY <1>1, LenProperties
  <1>7. Len(toClient') = Len(toClient) + 2 /\ toClient' \in Seq(Tokens)
    BY <1>4, <1>5, <1>6, AppendProperties
  <1> QED
    BY <1>4, <1>5, <1>6, <1>7 DEF Says

LEMMA HearsResult ==
    ASSUME WireType, NEW m, Hears(m)
    PROVE  toServer' \in Seq(Messages) /\ ~gone
  BY HeadTailProperties DEF WireType, Hears

LEMMA SendResult ==
    ASSUME WireType, NEW messages \in Seq(Messages), Send(messages)
    PROVE  toServer' \in Seq(Messages) /\ (toServer = <<>> => toServer' = messages)
  <1>1. toServer \in Seq(Messages) /\ toServer' = toServer \o messages
    BY DEF WireType, Send
  <1> QED
    BY <1>1, ConcatProperties, ConcatEmptySeq

LEMMA TupleSeq ==
    ASSUME NEW S, NEW a \in S, NEW b \in S
    PROVE  <<a>> \in Seq(S) /\ <<a, b>> \in Seq(S)
  OBVIOUS

(* What the client sends. *)
LEMMA Sendable ==
    /\ <<>> \in Seq(Messages)
    /\ \A m \in {"version", "vnc", "none", "response", "client_init", "request"} :
            <<m>> \in Seq(Messages)
    /\ <<"pixel_format", "encodings">> \in Seq(Messages)
    /\ <<"key_down", "key_up">> \in Seq(Messages)
  <1>1. <<>> \in Seq(Messages)
    BY EmptySeq
  <1>2. \A m \in {"version", "vnc", "none", "response", "client_init", "request"} :
            <<m>> \in Seq(Messages)
    BY TupleSeq DEF Messages
  <1>3. /\ <<"pixel_format", "encodings">> \in Seq(Messages)
        /\ <<"key_down", "key_up">> \in Seq(Messages)
    BY TupleSeq DEF Messages
  <1> QED
    BY <1>1, <1>2, <1>3

(* The steps that read, with what is the same in all of them. *)
Reading ==
    \/ ReadBanner \/ ReadTypes \/ ReadReason \/ ReadChallenge \/ ReadResult \/ ReadInit
    \/ ReadMessage \/ ReadPayload \/ ReadRect \/ ReadPixels

LEMMA ReadingResult ==
    ASSUME BasicInv, Reading
    PROVE  /\ \E kind \in Reads : Take(kind)
           /\ UNCHANGED <<password, left, gone, server, ghosts>>
           /\ toServer' \in Seq(Messages)
  <1>1. WireType
    BY DEF BasicInv
  <1>2. \E kind \in Reads : Take(kind)
    BY DEF Reading, ReadBanner, ReadTypes, ReadReason, ReadChallenge, ReadResult, ReadInit,
           ReadMessage, ReadPayload, ReadRect, ReadPixels, Reads
  <1>3. UNCHANGED <<password, left, gone, server, ghosts>>
    BY DEF Reading, ReadBanner, ReadTypes, ReadReason, ReadChallenge, ReadResult, ReadInit,
           ReadMessage, ReadPayload, ReadRect, ReadPixels, Take, Continue, Return, Raise,
           FinishUpdate, NextRect
  <1>4. ASSUME ReadMessage \/ ReadPayload \/ ReadRect \/ ReadPixels
        PROVE  toServer' \in Seq(Messages)
    <2>1. UNCHANGED toServer
      BY <1>4 DEF ReadMessage, ReadPayload, ReadRect, ReadPixels
    <2> QED
      BY <1>1, <2>1 DEF WireType
  <1>5. ASSUME \/ ReadBanner \/ ReadTypes \/ ReadReason \/ ReadChallenge \/ ReadResult
               \/ ReadInit
        PROVE  toServer' \in Seq(Messages)
    <2>1. \E messages \in Seq(Messages) : Send(messages)
      BY <1>5, Sendable DEF ReadBanner, ReadTypes, ReadReason, ReadChallenge, ReadResult, ReadInit
    <2> QED
      BY <1>1, <2>1, SendResult
  <1>6. toServer' \in Seq(Messages)
    BY <1>4, <1>5 DEF Reading
  <1> QED
    BY <1>2, <1>3, <1>6, Zenon

LEMMA ReadingTypes ==
    ASSUME BasicInv, Reading
    PROVE  BasicInv'
  <1> USE DEF BasicInv
  <1>1. /\ \E kind \in Reads : Take(kind)
        /\ UNCHANGED <<password, left, gone, server, ghosts>>
        /\ toServer' \in Seq(Messages)
    BY ReadingResult
  <1>2. /\ pc \in Reads
        /\ toClient[1] \in Tokens /\ Head(toClient) = toClient[1] /\ toClient[1].kind = pc
        /\ toClient' \in Seq(Tokens) /\ Len(toClient') <= MaxWire
    <2>1. /\ toClient[1] \in Tokens /\ Head(toClient) = toClient[1]
          /\ Head(toClient).kind = pc /\ pc \in Reads
          /\ Len(toClient) \in Nat /\ Len(toClient') = Len(toClient) - 1
          /\ toClient' \in Seq(Tokens)
      BY <1>1, TakeResult
    <2>2. Len(toClient) <= MaxWire /\ MaxWire \in Nat
      BY RfbAssumption DEF TypeOK
    <2>3. Len(toClient') <= MaxWire
      BY <2>1, <2>2
    <2> QED
      BY <2>1, <2>3
  <1>3. /\ pc' \in Reads \cup {"ready", "failed"}
        /\ outcome' \in {"", "ok", "frame", "ConnectionFailed", "ProtocolError",
                         "AuthError", "Timeout"}
    BY DEF Reading, ReadBanner, ReadTypes, ReadReason, ReadChallenge, ReadResult, ReadInit,
           ReadMessage, ReadPayload, ReadRect, ReadPixels, Continue, Return, Raise,
           FinishUpdate, NextRect, TypeOK, Reads
  <1>4. rects' \in 0..MaxRects
    <2>1. rects \in 0..MaxRects /\ MaxRects \in Nat
      BY RfbAssumption DEF TypeOK
    <2>2. CASE UNCHANGED rects
      BY <2>1, <2>2
    <2>3. CASE ReadMessage
      BY <2>1, <2>3 DEF ReadMessage, Raise, FinishUpdate, Continue
    <2>4. ASSUME NEW painted, NextRect(painted) PROVE rects' \in 0..MaxRects
      BY <2>1, <2>4 DEF NextRect, FinishUpdate
    <2>5. \/ UNCHANGED rects \/ ReadMessage
          \/ \E painted \in {pixels, [pixels EXCEPT ![region] = Value]} : NextRect(painted)
      BY DEF Reading, ReadBanner, ReadTypes, ReadReason, ReadChallenge, ReadResult, ReadInit,
             ReadPayload, ReadRect, ReadPixels, Continue, Return, Raise
    <2> QED
      BY <2>2, <2>3, <2>4, <2>5
  <1>5. region' \in Regions
    <2>1. CASE ReadRect
      <3>1. toClient[1].value.region \in Regions
        BY <1>2, <2>1 DEF ReadRect, Take, Tokens
      <3> QED
        BY <1>2, <2>1, <3>1 DEF ReadRect, Raise, NextRect, FinishUpdate, Value, TypeOK
    <2> QED
      BY <2>1
         DEF Reading, ReadBanner, ReadTypes, ReadReason, ReadChallenge, ReadResult, ReadInit,
             ReadMessage, ReadPayload, ReadPixels, Continue, Return, Raise,
             FinishUpdate, NextRect, TypeOK
  <1>6. pixels' \in [Regions -> Looks \cup {Blank}]
    <2>1. CASE ReadPixels
      <3>1. toClient[1].value \in Looks
        BY <1>2, <2>1 DEF ReadPixels, Take, Tokens
      <3>2. pixels' = [pixels EXCEPT ![region] = toClient[1].value]
        BY <1>2, <2>1 DEF ReadPixels, NextRect, FinishUpdate, Value
      <3> QED
        BY <3>1, <3>2 DEF TypeOK
    <2> QED
      BY <2>1
         DEF Reading, ReadBanner, ReadTypes, ReadReason, ReadChallenge, ReadResult, ReadInit,
             ReadMessage, ReadPayload, ReadRect, Continue, Return, Raise,
             FinishUpdate, NextRect, TypeOK
  <1>7. TypeOK'
    BY <1>1, <1>2, <1>3, <1>4, <1>5, <1>6 DEF TypeOK
  <1>8. ClockInv'
    BY <1>1, <1>2, <1>3 DEF ClockInv, Reads
  <1> QED
    BY <1>1, <1>2, <1>7, <1>8 DEF WireType

LEMMA OwnTypes ==
    ASSUME BasicInv,
           TimeOut \/ HangUp \/ Connect \/ ConnectFails \/ Capture \/ SendKey \/ Close
    PROVE  BasicInv'
  <1> USE DEF BasicInv
  <1>1. CASE TimeOut \/ HangUp
    <2>1. /\ pc' = "failed" /\ outcome' \in {"AuthError", "Timeout", "ProtocolError"}
          /\ UNCHANGED <<password, left, rects, region, pixels, toClient, toServer, gone,
                         server, ghosts>>
      BY <1>1 DEF TimeOut, HangUp, Raise, ErrorOr
    <2> QED
      BY <2>1 DEF TypeOK, WireType, ClockInv, Reads
  <1>2. CASE Connect \/ ConnectFails
    <2>1. /\ left' \in {ReadTimeout, left} /\ outcome' \in {"", "ConnectionFailed"}
          /\ pc' \in {"banner", "none"} /\ stage' \in {"greet", stage}
          /\ pc' = "banner" => left' = ReadTimeout
          /\ pc = "none"
          /\ UNCHANGED <<password, rects, region, pixels, toClient, toServer, gone,
                         asked, pending, owing, screen, ghosts>>
      BY <1>2 DEF Connect, ConnectFails
    <2>2. left' \in 0..ReadTimeout
      BY <2>1, Numbers DEF TypeOK
    <2>3. TypeOK' /\ WireType'
      BY <2>1, <2>2 DEF TypeOK, WireType, Reads
    <2>4. spent' = 0 /\ (pc' \in Reads => left' = ReadTimeout)
      BY <2>1 DEF ClockInv, Reads
    <2>5. ClockInv'
      BY <2>4, StartsOnTime
    <2> QED
      BY <2>3, <2>5
  <1>3. CASE Capture
    <2>1. /\ pc' = "message" /\ outcome' = "" /\ left' = ReadTimeout /\ spent' = 0
          /\ pixels' = NoPixels /\ since' = [r \in Regions |-> {screen[r]}]
          /\ UNCHANGED <<password, rects, region, toClient, gone, server>>
      BY <1>3 DEF Capture
    <2>2. toServer' \in Seq(Messages)
      BY <1>3, SendResult, Sendable DEF Capture
    <2>3. [r \in Regions |-> {screen[r]}] \in [Regions -> SUBSET Looks]
      BY DEF TypeOK
    <2>4. TypeOK'
      BY <2>1, <2>3, Numbers, NoFrame DEF TypeOK, Reads
    <2>5. ClockInv'
      BY <2>1, StartsOnTime
    <2> QED
      BY <2>1, <2>2, <2>4, <2>5 DEF WireType
  <1>4. CASE SendKey
    <2>1. /\ outcome' = "ok"
          /\ UNCHANGED <<pc, password, left, rects, region, pixels, toClient, gone, server, ghosts>>
      BY <1>4 DEF SendKey
    <2>2. toServer' \in Seq(Messages)
      BY <1>4, SendResult, Sendable DEF SendKey
    <2> QED
      BY <2>1, <2>2 DEF TypeOK, WireType, ClockInv
  <1>5. CASE Close
    <2>1. /\ pc' = "none" /\ outcome' = ""
          /\ left' = 0 /\ rects' = 0 /\ pixels' = NoPixels
          /\ toClient' = <<>> /\ toServer' = <<>> /\ gone' = FALSE
          /\ stage' = "over" /\ asked' = {} /\ pending' = FALSE /\ owing' = 0
          /\ spent' = 0 /\ since' = [r \in Regions |-> {}]
          /\ UNCHANGED <<password, region, screen>>
      BY <1>5 DEF Close
    <2>2. Len(toClient') <= MaxWire /\ WireType'
      BY <2>1, Silence, Numbers DEF WireType
    <2>3. TypeOK'
      BY <2>1, <2>2, Numbers, NoFrame DEF TypeOK
    <2>4. ClockInv'
      BY <2>1 DEF ClockInv, Reads
    <2> QED
      BY <2>2, <2>3, <2>4
  <1> QED
    BY <1>1, <1>2, <1>3, <1>4, <1>5

(* Whatever the server says, it says tokens, and leaves the client alone. *)
LEMMA ServerResult ==
    ASSUME BasicInv, Server
    PROVE  /\ UNCHANGED <<client, screen, ghosts>>
           /\ toClient' \in Seq(Tokens) /\ Len(toClient') <= MaxWire
           /\ toServer' \in Seq(Messages)
           /\ gone' \in BOOLEAN
  <1> USE DEF BasicInv
  <1>1. UNCHANGED <<client, screen, ghosts>>
    BY DEF Server, Greet, Offer, Challenge, Judge, Introduce, Listen, BeginUpdate,
           SendRect, Noise, Vanish
  <1>2. toServer' \in Seq(Messages)
    <2>1. (\E m \in Messages : Hears(m)) \/ UNCHANGED toServer
      BY DEF Server, Greet, Offer, Challenge, Judge, Introduce, Listen, BeginUpdate,
             SendRect, Noise, Vanish, Messages, Settings
    <2> QED
      BY <2>1, HearsResult DEF WireType
  <1>3. gone' \in BOOLEAN
    BY DEF Server, Greet, Offer, Challenge, Judge, Introduce, Listen, BeginUpdate,
           SendRect, Noise, Vanish, TypeOK
  <1>4. /\ \A n \in 0..MaxRects + 1 : n \in Nat
        /\ \A r \in Regions : screen[r] \in Looks
    BY Numbers DEF TypeOK
  <1>5. CASE Vanish
    <2>1. PICK n \in 0..Len(toClient) : toClient' = SubSeq(toClient, 1, n)
      BY <1>5 DEF Vanish
    <2>2. toClient \in Seq(Tokens) /\ Len(toClient) \in Nat /\ Len(toClient) <= MaxWire
      BY LenProperties DEF WireType, TypeOK
    <2>3. \A i \in 1..n : toClient[i] \in Tokens
      BY <2>2, ElementOfSeq
    <2>4. toClient' \in Seq(Tokens) /\ Len(toClient') = IF 1 <= n THEN n - 1 + 1 ELSE 0
      BY <2>1, <2>2, <2>3, SubSeqProperties
    <2>5. Len(toClient') <= MaxWire
      BY <2>2, <2>4, RfbAssumption
    <2> QED
      BY <1>1, <1>2, <1>3, <2>4, <2>5
  <1>6. ASSUME ~Vanish
        PROVE  toClient' \in Seq(Tokens) /\ Len(toClient') <= MaxWire
    <2>1. \/ UNCHANGED toClient
          \/ \E t \in Tokens : Says(<<t>>)
          \/ \E t, u \in Tokens : Says(<<t, u>>)
      <3>1. CASE Greet \/ Challenge \/ Judge \/ Introduce
        BY <3>1 DEF Greet, Challenge, Judge, Introduce, Tokens, Token, Words
      <3>2. CASE Offer
        BY <3>2 DEF Offer, Tokens, Token, Words
      <3>3. CASE Listen
        BY <3>3 DEF Listen
      <3>4. CASE BeginUpdate
        BY <1>4, <3>4 DEF BeginUpdate, Tokens, Token, Message
      <3>5. CASE SendRect
        BY <1>4, <3>5 DEF SendRect, Tokens, Token
      <3>6. CASE Noise
        BY <3>6 DEF Noise, Tokens, Token, Message, Words
      <3> QED
        BY <1>6, <3>1, <3>2, <3>3, <3>4, <3>5, <3>6 DEF Server
    <2> QED
      BY <2>1, SaysOne, SaysTwo DEF WireType, TypeOK
  <1> QED
    BY <1>1, <1>2, <1>3, <1>5, <1>6

LEMMA ServerTypes ==
    ASSUME BasicInv, Server
    PROVE  BasicInv'
  <1> USE DEF BasicInv
  <1>1. /\ UNCHANGED <<client, screen, ghosts>>
        /\ toClient' \in Seq(Tokens) /\ Len(toClient') <= MaxWire
        /\ toServer' \in Seq(Messages)
        /\ gone' \in BOOLEAN
    BY ServerResult
  <1>2. /\ stage' \in {"over", "greet", "version", "choice", "response", "client_init", "serving"}
        /\ asked' \subseteq Settings
        /\ pending' \in BOOLEAN
    BY DEF Server, Greet, Offer, Challenge, Judge, Introduce, Listen, BeginUpdate,
           SendRect, Noise, Vanish, TypeOK
  <1>3. owing' \in 0..MaxRects + 1
    <2>1. owing \in 0..MaxRects + 1 /\ MaxRects \in Nat
      BY RfbAssumption DEF TypeOK
    <2>2. \/ UNCHANGED owing
          \/ owing' \in 0..MaxRects + 1
          \/ owing > 0 /\ owing' = owing - 1
      BY DEF Server, Greet, Offer, Challenge, Judge, Introduce, Listen, BeginUpdate,
             SendRect, Noise, Vanish
    <2> QED
      BY <2>1, <2>2
  <1>4. TypeOK'
    BY <1>1, <1>2, <1>3 DEF TypeOK
  <1>5. ClockInv'
    BY <1>1 DEF ClockInv
  <1> QED
    BY <1>1, <1>4, <1>5 DEF WireType

LEMMA WorldTypes ==
    ASSUME BasicInv, ScreenChanges \/ Tick
    PROVE  BasicInv'
  <1> USE DEF BasicInv
  <1>1. CASE ScreenChanges
    <2>1. PICK r \in Regions, l \in Looks :
            /\ screen' = [screen EXCEPT ![r] = l]
            /\ since' = IF pc \in Reads THEN [since EXCEPT ![r] = @ \cup {l}] ELSE since
      BY <1>1 DEF ScreenChanges
    <2>2. screen' \in [Regions -> Looks] /\ since' \in [Regions -> SUBSET Looks]
      BY <2>1 DEF TypeOK
    <2>3. UNCHANGED <<client, toClient, toServer, gone, stage, asked, pending, owing, spent>>
      BY <1>1 DEF ScreenChanges
    <2> QED
      BY <2>2, <2>3 DEF TypeOK, WireType, ClockInv
  <1>2. CASE Tick
    <2>1. /\ pc \in Reads /\ left \in 0..ReadTimeout /\ left > 0 /\ left' = left - 1
          /\ spent \in Nat /\ spent + left <= ReadTimeout /\ ReadTimeout \in Nat
          /\ spent' = IF spent > ReadTimeout THEN spent ELSE spent + 1
      BY <1>2, RfbAssumption DEF Tick, TypeOK, ClockInv
    <2>2. left' \in 0..ReadTimeout /\ spent' \in Nat /\ spent' + left' <= ReadTimeout
      BY <2>1
    <2>3. UNCHANGED <<pc, outcome, password, rects, region, pixels,
                      toClient, toServer, gone, server, since>>
      BY <1>2 DEF Tick
    <2>4. UNCHANGED <<stage, asked, pending, owing, screen>>
      BY <1>2 DEF Tick, server
    <2>5. TypeOK'
      BY <2>2, <2>3, <2>4 DEF TypeOK
    <2>6. WireType'
      BY <2>3 DEF WireType
    <2>7. ClockInv'
      BY <2>1, <2>2, <2>3 DEF ClockInv, Reads
    <2> QED
      BY <2>5, <2>6, <2>7
  <1> QED
    BY <1>1, <1>2

LEMMA BasicStep == BasicInv /\ [Next]_vars => BasicInv'
  <1>1. CASE UNCHANGED vars
    BY <1>1 DEF BasicInv, TypeOK, WireType, ClockInv
  <1> QED
    BY <1>1, ReadingTypes, OwnTypes, ServerTypes, WorldTypes DEF Next, Client, Caller, Reading

LEMMA BasicInvariant == Spec => []BasicInv
  <1>1. ASSUME Init PROVE BasicInv
    <2>1. Len(toClient) <= MaxWire /\ WireType
      BY <1>1, Silence, Numbers DEF Init, WireType
    <2>2. password \in BOOLEAN
      BY <1>1, Numbers DEF Init
    <2>3. TypeOK
      BY <1>1, <2>1, <2>2, Numbers, NoFrame DEF Init, TypeOK
    <2>4. ClockInv
      BY <1>1 DEF Init, ClockInv, Reads
    <2> QED
      BY <2>1, <2>3, <2>4 DEF BasicInv
  <1> QED
    BY <1>1, BasicStep, PTL DEF Spec

(* Every variable keeps its type. *)
THEOREM ClientTypeCorrect == Spec => []TypeOK
  BY BasicInvariant, PTL DEF BasicInv

(* No call outlasts its deadline, for any timeout, however the server      *)
(* dribbles.                                                               *)
THEOREM DeadlineHolds == Spec => []WithinDeadline
  <1>1. BasicInv => WithinDeadline
    BY DEF BasicInv, ClockInv, WithinDeadline
  <1> QED
    BY <1>1, BasicInvariant, PTL

-----------------------------------------------------------------------------

(* The conversation: who has said what, and who is to speak. *)

(* The client has said message, which the server waits for. *)
Waits(at, message) == stage = at /\ toServer = <<message>> /\ toClient = <<>>

(* The server has answered, with a token of this kind, lost if it is gone. *)
Told(at, kind) ==
    /\ stage = at /\ toServer = <<>>
    /\ Len(toClient) <= 1
    /\ 1 <= Len(toClient) => toClient[1].kind = kind

(* The server has refused, and may have given its reason. *)
Refused(kind, no) ==
    /\ stage = "over" /\ toServer = <<>>
    /\ Len(toClient) <= 2
    /\ 1 <= Len(toClient) => toClient[1].kind = kind /\ toClient[1].value = no
    /\ 2 <= Len(toClient) => toClient[2].kind = "reason"

(* What is on its way to the server is what it waits for. *)
Heard ==
    \/ toServer = <<>>
    \/ toServer = <<"version">> /\ stage = "version"
    \/ toServer = <<"vnc">> /\ stage = "choice"
    \/ toServer = <<"none">> /\ stage = "choice"
    \/ toServer = <<"response">> /\ stage = "response"
    \/ toServer = <<"client_init">> /\ stage = "client_init"
    \/ stage = "serving" /\ toServer = <<"pixel_format", "encodings">>
    \/ stage = "serving" /\ toServer = <<"encodings">> /\ "pixel_format" \in asked
    \/ stage = "serving" /\ asked = Settings /\ toServer = <<"request">>
    \/ stage = "serving" /\ asked = Settings /\ toServer = <<"key_down", "key_up">>
    \/ stage = "serving" /\ asked = Settings /\ toServer = <<"key_up">>

Agreed ==
    /\ pc = "none" => stage = "over" /\ toServer = <<>> /\ toClient = <<>>
    /\ pc = "banner" => \/ stage = "greet" /\ toServer = <<>> /\ toClient = <<>>
                        \/ Told("version", "banner")
    /\ pc = "types" =>
        \/ Waits("version", "version")
        \/ Told("choice", "types") /\ (1 <= Len(toClient) => toClient[1].value # {})
        \/ Refused("types", {})
    /\ pc = "reason" => Told("over", "reason")
    /\ pc = "challenge" => Waits("choice", "vnc") \/ Told("response", "challenge")
    /\ pc = "result" =>
        \/ Waits("choice", "none") \/ Waits("response", "response")
        \/ Told("client_init", "result") /\ (1 <= Len(toClient) => toClient[1].value = "ok")
        \/ Refused("result", "no")
    /\ pc = "init" =>
        Waits("client_init", "client_init") \/ (stage = "serving" /\ toServer = <<>>)
    /\ pc \in Session \cup {"ready"} =>
        stage = "serving" /\ (toServer = <<>> => asked = Settings)

IdleBefore == stage # "serving" => ~pending /\ owing = 0

TalkInv == Heard /\ Agreed /\ IdleBefore

LEMMA Words1 ==
    ASSUME NEW m, NEW n
    PROVE  /\ <<m>> # <<>> /\ Head(<<m>>) = m /\ Tail(<<m>>) = <<>>
           /\ <<m, n>> # <<>> /\ Head(<<m, n>>) = m /\ Tail(<<m, n>>) = <<n>>
  OBVIOUS

LEMMA TokenParts ==
    ASSUME NEW kind, NEW value
    PROVE  Token(kind, value).kind = kind /\ Token(kind, value).value = value
  BY DEF Token

(* A client that has been spoken to has nothing on the way to the server. *)
LEMMA ToldMeansHeard ==
    ASSUME BasicInv, TalkInv, NEW kind \in Reads \ Session, Take(kind)
    PROVE  /\ toServer = <<>> /\ pc = kind
           /\ Len(toClient) \in Nat /\ 1 <= Len(toClient)
           /\ toClient[1] = Head(toClient)
           /\ toClient' \in Seq(Tokens) /\ Len(toClient') = Len(toClient) - 1
           /\ Len(toClient) = 1 => toClient' = <<>>
           /\ \A i \in 1..Len(toClient') : toClient'[i] = toClient[i + 1]
  <1>1. /\ pc = kind /\ Head(toClient) = toClient[1]
        /\ Len(toClient) \in Nat \ {0}
        /\ toClient' \in Seq(Tokens) /\ Len(toClient') = Len(toClient) - 1
        /\ \A i \in 1..Len(toClient') : toClient'[i] = toClient[i + 1]
    BY TakeResult DEF BasicInv
  <1>2. toClient # <<>>
    BY DEF Take
  <1>3. toServer = <<>>
    BY <1>1, <1>2 DEF TalkInv, Agreed, Told, Refused, Waits, Reads, Session
  <1>4. Len(toClient) = 1 => toClient' = <<>>
    BY <1>1, EmptySeq
  <1> QED
    BY <1>1, <1>3, <1>4

LEMMA ReadingTalks ==
    ASSUME BasicInv, TalkInv, Reading
    PROVE  TalkInv'
  <1> USE DEF TalkInv
  <1>1. UNCHANGED server
    BY ReadingResult
  <1>2. IdleBefore'
    BY <1>1 DEF IdleBefore
  <1>3. \A messages \in Seq(Messages) : toServer = <<>> /\ Send(messages) => toServer' = messages
    BY SendResult DEF BasicInv
  <1>4. CASE ReadBanner
    <2>1. /\ toServer = <<>> /\ pc = "banner" /\ stage = "version" /\ toClient' = <<>>
      BY <1>4, ToldMeansHeard DEF ReadBanner, Reads, Session, Agreed, Told
    <2>2. \/ pc' = "types" /\ toServer' = <<"version">>
          \/ pc' = "failed" /\ toServer' = <<>>
      BY <1>3, <1>4, <2>1, Sendable DEF ReadBanner, Continue, Raise
    <2> QED
      BY <1>1, <1>2, <2>1, <2>2 DEF Heard, Agreed, Waits, Session
  <1>5. CASE ReadTypes
    <2>1. /\ toServer = <<>> /\ pc = "types" /\ toClient[1] = Head(toClient)
          /\ Len(toClient) \in Nat /\ 1 <= Len(toClient) /\ Len(toClient') = Len(toClient) - 1
          /\ Len(toClient) = 1 => toClient' = <<>>
          /\ \A i \in 1..Len(toClient') : toClient'[i] = toClient[i + 1]
      BY <1>5, ToldMeansHeard DEF ReadTypes, Reads, Session
    <2>2. CASE Value = {}
      <3>1. Refused("types", {})
        BY <2>1, <2>2 DEF Agreed, Waits, Value, Told
      <3>2. pc' = "reason" /\ toServer' = <<>>
        BY <1>3, <1>5, <2>1, <2>2, Sendable DEF ReadTypes, Continue
      <3>3. Told("over", "reason")'
        BY <1>1, <2>1, <3>1, <3>2 DEF Told, Refused
      <3> QED
        BY <1>2, <3>2, <3>3 DEF Heard, Agreed, Session
    <2>3. CASE Value # {}
      <3>1. Told("choice", "types")
        BY <2>1, <2>3 DEF Agreed, Waits, Value, Refused, Token
      <3>2. toClient' = <<>> /\ stage = "choice"
        BY <2>1, <3>1 DEF Told
      <3>3. \/ pc' = "challenge" /\ toServer' = <<"vnc">>
            \/ pc' = "result" /\ toServer' = <<"none">>
            \/ pc' = "failed" /\ toServer' = <<>>
        BY <1>3, <1>5, <2>1, <2>3, Sendable DEF ReadTypes, Continue, Raise
      <3> QED
        BY <1>1, <1>2, <3>2, <3>3 DEF Heard, Agreed, Waits, Session
    <2> QED
      BY <2>2, <2>3
  <1>6. CASE ReadReason
    <2>1. toServer = <<>>
      BY <1>6, ToldMeansHeard DEF ReadReason, Reads, Session
    <2>2. pc' = "failed" /\ toServer' = <<>>
      BY <1>3, <1>6, <2>1, Sendable DEF ReadReason, Raise
    <2> QED
      BY <1>2, <2>2 DEF Heard, Agreed, Session
  <1>7. CASE ReadChallenge
    <2>1. /\ toServer = <<>> /\ pc = "challenge" /\ toClient' = <<>> /\ stage = "response"
      BY <1>7, ToldMeansHeard DEF ReadChallenge, Reads, Session, Agreed, Told, Waits
    <2>2. pc' = "result" /\ toServer' = <<"response">>
      BY <1>3, <1>7, <2>1, Sendable DEF ReadChallenge, Continue
    <2> QED
      BY <1>1, <1>2, <2>1, <2>2 DEF Heard, Agreed, Waits, Session
  <1>8. CASE ReadResult
    <2>1. /\ toServer = <<>> /\ pc = "result" /\ toClient[1] = Head(toClient)
          /\ Len(toClient) \in Nat /\ 1 <= Len(toClient) /\ Len(toClient') = Len(toClient) - 1
          /\ Len(toClient) = 1 => toClient' = <<>>
          /\ \A i \in 1..Len(toClient') : toClient'[i] = toClient[i + 1]
      BY <1>8, ToldMeansHeard DEF ReadResult, Reads, Session
    <2>2. CASE Value = "ok"
      <3>1. Told("client_init", "result")
        BY <2>1, <2>2 DEF Agreed, Waits, Value, Refused, Token
      <3>2. toClient' = <<>> /\ stage = "client_init"
        BY <2>1, <3>1 DEF Told
      <3>3. pc' = "init" /\ toServer' = <<"client_init">>
        BY <1>3, <1>8, <2>1, <2>2, Sendable DEF ReadResult, Continue
      <3> QED
        BY <1>1, <1>2, <3>2, <3>3 DEF Heard, Agreed, Waits, Session
    <2>3. CASE Value # "ok"
      <3>1. Refused("result", "no")
        BY <2>1, <2>3 DEF Agreed, Waits, Value, Told
      <3>2. pc' = "reason" /\ toServer' = <<>>
        BY <1>3, <1>8, <2>1, <2>3, Sendable DEF ReadResult, Continue
      <3>3. Told("over", "reason")'
        BY <1>1, <2>1, <3>1, <3>2 DEF Told, Refused
      <3> QED
        BY <1>2, <3>2, <3>3 DEF Heard, Agreed, Session
    <2> QED
      BY <2>2, <2>3
  <1>9. CASE ReadInit
    <2>1. /\ toServer = <<>> /\ pc = "init"
      BY <1>9, ToldMeansHeard DEF ReadInit, Reads, Session
    <2>2. stage = "serving"
      BY <2>1, Words1 DEF Agreed, Waits
    <2>3. \/ pc' = "ready" /\ toServer' = <<"pixel_format", "encodings">>
          \/ pc' = "failed" /\ toServer' = <<>>
      BY <1>3, <1>9, <2>1, Sendable DEF ReadInit, Return, Raise
    <2>4. <<"pixel_format", "encodings">> # <<>>
      BY Words1
    <2> QED
      BY <1>1, <1>2, <2>2, <2>3, <2>4 DEF Heard, Agreed, Session
  <1>10. CASE ReadMessage \/ ReadPayload \/ ReadRect \/ ReadPixels
    <2>1. pc \in Session /\ UNCHANGED toServer /\ stage = "serving"
      BY <1>10 DEF ReadMessage, ReadPayload, ReadRect, ReadPixels, Take, Session, Agreed
    <2>2. pc' \in Session \cup {"ready", "failed"}
      BY <1>10 DEF ReadMessage, ReadPayload, ReadRect, ReadPixels, Session, Raise, Continue,
                   FinishUpdate, NextRect
    <2> QED
      BY <1>1, <1>2, <2>1, <2>2 DEF Heard, Agreed, Session
  <1> QED
    BY <1>4, <1>5, <1>6, <1>7, <1>8, <1>9, <1>10 DEF Reading

LEMMA OwnTalk ==
    ASSUME BasicInv, TalkInv,
           \/ TimeOut \/ HangUp \/ Connect \/ ConnectFails \/ Capture \/ SendKey \/ Close
           \/ ScreenChanges \/ Tick
    PROVE  TalkInv'
  <1> USE DEF TalkInv
  <1>1. CASE TimeOut \/ HangUp
    <2>1. pc' = "failed" /\ UNCHANGED <<toClient, toServer, server>>
      BY <1>1 DEF TimeOut, HangUp, Raise
    <2> QED
      BY <2>1 DEF Heard, Agreed, IdleBefore, Session
  <1>2. CASE Connect
    <2>1. /\ pc = "none" /\ pc' = "banner" /\ stage' = "greet"
          /\ UNCHANGED <<toClient, toServer, pending, owing>>
      BY <1>2 DEF Connect
    <2> QED
      BY <2>1 DEF Heard, Agreed, IdleBefore, Session
  <1>3. CASE ConnectFails
    <2>1. UNCHANGED <<pc, toClient, toServer, server>>
      BY <1>3 DEF ConnectFails
    <2> QED
      BY <2>1 DEF Heard, Agreed, IdleBefore, Session, Told, Refused, Waits
  <1>4. CASE Capture \/ SendKey
    <2>1. /\ pc = "ready" /\ toServer = <<>> /\ stage = "serving" /\ asked = Settings
          /\ pc' \in {"ready", "message"} /\ UNCHANGED server
      BY <1>4 DEF Capture, SendKey, Agreed
    <2>2. toServer' = <<"request">> \/ toServer' = <<"key_down", "key_up">>
      BY <1>4, <2>1, SendResult, Sendable DEF Capture, SendKey, BasicInv
    <2> QED
      BY <2>1, <2>2 DEF Heard, Agreed, IdleBefore, Session
  <1>5. CASE Close
    <2>1. /\ pc' = "none" /\ toClient' = <<>> /\ toServer' = <<>>
          /\ stage' = "over" /\ pending' = FALSE /\ owing' = 0
      BY <1>5 DEF Close
    <2> QED
      BY <2>1 DEF Heard, Agreed, IdleBefore, Session
  <1>6. CASE ScreenChanges \/ Tick
    <2>1. UNCHANGED <<pc, toClient, toServer, stage, asked, pending, owing>>
      BY <1>6 DEF ScreenChanges, Tick
    <2> QED
      BY <2>1 DEF Heard, Agreed, IdleBefore, Session, Told, Refused, Waits
  <1> QED
    BY <1>1, <1>2, <1>3, <1>4, <1>5, <1>6

(* Before the session, the server hears the one word there is. *)
LEMMA OneWord ==
    ASSUME TalkInv, stage # "serving", NEW m \in Messages, Hears(m)
    PROVE  toServer = <<m>> /\ toServer' = <<>> /\ toServer # <<>>
  <1>1. toServer # <<>> /\ Head(toServer) = m /\ toServer' = Tail(toServer)
    BY DEF Hears
  <1>2. PICK n \in Messages : toServer = <<n>>
    BY <1>1 DEF TalkInv, Heard, Messages
  <1> QED
    BY <1>1, <1>2, Words1

LEMMA SaysFirst ==
    ASSUME WireType, toClient = <<>>, NEW kind, NEW value,
           Token(kind, value) \in Tokens, Says(<<Token(kind, value)>>)
    PROVE  Len(toClient') = 1 /\ toClient'[1].kind = kind /\ toClient'[1].value = value
  <1> DEFINE t == Token(kind, value)
  <1>1. t.kind = kind /\ t.value = value /\ t \in Tokens /\ Says(<<t>>)
    BY TokenParts
  <1> HIDE DEF t
  <1>2. toClient \in Seq(Tokens) /\ Len(toClient) = 0 /\ toClient' = Append(toClient, t)
    BY <1>1, SaysOne, Silence DEF WireType
  <1>3. Len(toClient') = 1 /\ toClient'[1] = t
    BY <1>1, <1>2, AppendProperties
  <1> QED
    BY <1>1, <1>3

LEMMA SaysBoth ==
    ASSUME WireType, toClient = <<>>, NEW kind, NEW value, NEW reason,
           Token(kind, value) \in Tokens, Token("reason", reason) \in Tokens,
           Says(<<Token(kind, value), Token("reason", reason)>>)
    PROVE  /\ Len(toClient') = 2
           /\ toClient'[1].kind = kind /\ toClient'[1].value = value
           /\ toClient'[2].kind = "reason"
  <1> DEFINE t == Token(kind, value)
             u == Token("reason", reason)
  <1>1. /\ t.kind = kind /\ t.value = value /\ t \in Tokens
        /\ u.kind = "reason" /\ u \in Tokens /\ Says(<<t, u>>)
    BY TokenParts
  <1> HIDE DEF t, u
  <1>2. /\ toClient \in Seq(Tokens) /\ Len(toClient) = 0
        /\ Append(toClient, t) \in Seq(Tokens)
        /\ toClient' = Append(Append(toClient, t), u)
    BY <1>1, SaysTwo, Silence DEF WireType
  <1>3. Len(Append(toClient, t)) = 1 /\ Append(toClient, t)[1] = t
    BY <1>1, <1>2, AppendProperties
  <1>4. Len(toClient') = 2 /\ toClient'[1] = t /\ toClient'[2] = u
    BY <1>1, <1>2, <1>3, AppendProperties
  <1> QED
    BY <1>1, <1>4

(* The words of the server before the session. *)
LEMMA Spoken ==
    /\ \A v \in {"3.8", "3.3", "junk"} : Token("banner", v) \in Tokens
    /\ \A t \in SUBSET {"none", "vnc", "other"} : Token("types", t) \in Tokens
    /\ Token("types", {}) \in Tokens
    /\ Token("reason", "bytes") \in Tokens /\ Token("challenge", "bytes") \in Tokens
    /\ Token("result", "ok") \in Tokens /\ Token("result", "no") \in Tokens
    /\ \A v \in {"ok", "no area", "long name"} : Token("init", v) \in Tokens
  BY DEF Tokens, Token, Words

LEMMA VanishResult ==
    ASSUME BasicInv, Vanish
    PROVE  \E n \in 0..Len(toClient) :
              /\ Len(toClient) \in Nat
              /\ toClient' \in Seq(Tokens) /\ Len(toClient') = n
              /\ \A i \in 1..n : toClient'[i] = toClient[i]
  <1>1. PICK n \in 0..Len(toClient) : toClient' = SubSeq(toClient, 1, n)
    BY DEF Vanish
  <1>2. toClient \in Seq(Tokens) /\ Len(toClient) \in Nat
    BY LenProperties DEF WireType, BasicInv
  <1>3. \A i \in 1..n : toClient[i] \in Tokens
    BY <1>2, ElementOfSeq
  <1>4. /\ toClient' \in Seq(Tokens) /\ Len(toClient') = IF 1 <= n THEN n - 1 + 1 ELSE 0
        /\ \A i \in 1..n - 1 + 1 : toClient'[i] = toClient[1 + i - 1]
    BY <1>1, <1>2, <1>3, SubSeqProperties
  <1>5. n \in Nat /\ n - 1 + 1 = n /\ (\A i \in 1..n : 1 + i - 1 = i)
    BY <1>2
  <1> QED
    BY <1>2, <1>4, <1>5

LEMMA ServerTalks ==
    ASSUME BasicInv, TalkInv, Server
    PROVE  TalkInv'
  <1> USE DEF TalkInv
  <1>1. UNCHANGED pc /\ WireType
    BY ServerResult DEF BasicInv
  <1>2. CASE Greet
    <2>1. stage = "greet" /\ stage' = "version" /\ UNCHANGED <<toServer, pending, owing>>
      BY <1>2 DEF Greet
    <2>2. PICK v \in {"3.8", "3.3", "junk"} : Says(<<Token("banner", v)>>)
      BY <1>2 DEF Greet
    <2>3. toServer = <<>> /\ pc \in {"banner", "failed"}
      BY <2>1 DEF Heard, Agreed, Told, Waits, Refused, BasicInv, TypeOK, Reads, Session
    <2>4. pc = "banner" => Len(toClient') = 1 /\ toClient'[1].kind = "banner" /\ toClient'[1].value = v
      BY <1>1, <2>1, <2>2, SaysFirst, Spoken DEF Agreed, Told
    <2> QED
      BY <1>1, <2>1, <2>3, <2>4 DEF Heard, Agreed, IdleBefore, Told, Session
  <1>3. CASE Offer
    <2>1. stage = "version" /\ UNCHANGED <<pending, owing>>
      BY <1>3 DEF Offer
    <2>2. toServer = <<"version">> /\ toServer' = <<>> /\ toServer # <<>>
      BY <1>3, <2>1, OneWord DEF Offer, Messages
    <2>3. pc \in {"types", "failed"}
      BY <2>1, <2>2 DEF Agreed, Told, Waits, Refused, BasicInv, TypeOK, Reads, Session
    <2>4. pc = "types" => toClient = <<>>
      BY <2>1, <2>2 DEF Agreed, Told, Waits, Refused
    <2>5. \/ \E t \in (SUBSET {"none", "vnc", "other"}) \ {{}} :
                Says(<<Token("types", t)>>) /\ stage' = "choice"
          \/ stage' = "over" /\ Says(<<Token("types", {})>>)
          \/ stage' = "over" /\ Says(<<Token("types", {}), Token("reason", "bytes")>>)
      BY <1>3 DEF Offer
    <2>6. pc = "types" => \/ Told("choice", "types")' /\ toClient'[1].value # {}
                          \/ Refused("types", {})'
      <3>1. SUFFICES ASSUME toClient = <<>>
                     PROVE  \/ Told("choice", "types")' /\ toClient'[1].value # {}
                            \/ Refused("types", {})'
        BY <2>4
      <3>2. ASSUME NEW t \in (SUBSET {"none", "vnc", "other"}) \ {{}},
                   Says(<<Token("types", t)>>), stage' = "choice"
            PROVE  Told("choice", "types")' /\ toClient'[1].value # {}
        <4>1. Len(toClient') = 1 /\ toClient'[1].kind = "types" /\ toClient'[1].value = t
          BY <1>1, <3>1, <3>2, SaysFirst, Spoken
        <4>2. toClient'[1].kind = "types" /\ toClient'[1].value = t
          BY <4>1, TokenParts
        <4>3. toServer' = <<>>
          BY <2>2
        <4> QED
          BY <3>2, <4>1, <4>2, <4>3 DEF Told
      <3>3. ASSUME stage' = "over", Says(<<Token("types", {})>>)
            PROVE  Refused("types", {})'
        <4>1. Len(toClient') = 1 /\ toClient'[1].kind = "types" /\ toClient'[1].value = {}
          BY <1>1, <3>1, <3>3, SaysFirst, Spoken
        <4> QED
          BY <2>2, <3>3, <4>1 DEF Refused
      <3>4. ASSUME stage' = "over", Says(<<Token("types", {}), Token("reason", "bytes")>>)
            PROVE  Refused("types", {})'
        <4>1. /\ Len(toClient') = 2
              /\ toClient'[1].kind = "types" /\ toClient'[1].value = {}
              /\ toClient'[2].kind = "reason"
          BY <1>1, <3>1, <3>4, SaysBoth, Spoken
        <4> QED
          BY <2>2, <3>4, <4>1 DEF Refused
      <3> QED
        BY <2>5, <3>2, <3>3, <3>4
    <2>7. stage' # "serving"
      BY <2>5
    <2> QED
      BY <1>1, <2>1, <2>2, <2>3, <2>6, <2>7 DEF Heard, Agreed, IdleBefore, Session
  <1>4. CASE Challenge
    <2>1. stage = "choice" /\ stage' = "response" /\ UNCHANGED <<pending, owing>>
      BY <1>4 DEF Challenge
    <2>2. toServer = <<"vnc">> /\ toServer' = <<>> /\ toServer # <<>> /\ <<"vnc">> # <<"none">>
      BY <1>4, <2>1, OneWord DEF Challenge, Messages
    <2>3. pc \in {"challenge", "failed"}
      BY <2>1, <2>2 DEF Agreed, Told, Waits, Refused, BasicInv, TypeOK, Reads, Session
    <2>4. pc = "challenge" => Len(toClient') = 1 /\ toClient'[1].kind = "challenge"
      BY <1>1, <1>4, <2>1, <2>2, SaysFirst, Spoken DEF Agreed, Told, Waits, Challenge
    <2>5. pc = "challenge" => Told("response", "challenge")'
      <3>1. stage' = "response" /\ toServer' = <<>>
        BY <2>1, <2>2
      <3> QED
        BY <2>4, <3>1 DEF Told
    <2> QED
      BY <1>1, <2>1, <2>2, <2>3, <2>5 DEF Heard, Agreed, IdleBefore, Session
  <1>5. CASE Judge
    <2>1. stage \in {"choice", "response"} /\ UNCHANGED <<pending, owing>>
      BY <1>5 DEF Judge
    <2>2. /\ toServer' = <<>> /\ toServer # <<>>
          /\ \/ stage = "choice" /\ toServer = <<"none">> /\ <<"vnc">> # <<"none">>
             \/ stage = "response" /\ toServer = <<"response">>
      BY <1>5, <2>1, OneWord DEF Judge, Messages
    <2>3. pc \in {"result", "failed"}
      BY <2>1, <2>2 DEF Agreed, Told, Waits, Refused, BasicInv, TypeOK, Reads, Session
    <2>4. pc = "result" => toClient = <<>>
      BY <2>1, <2>2 DEF Agreed, Told, Waits, Refused
    <2>5. \/ Says(<<Token("result", "ok")>>) /\ stage' = "client_init"
          \/ stage' = "over" /\ Says(<<Token("result", "no")>>)
          \/ stage' = "over" /\ Says(<<Token("result", "no"), Token("reason", "bytes")>>)
      BY <1>5 DEF Judge
    <2>6. pc = "result" => \/ Told("client_init", "result")' /\ toClient'[1].value = "ok"
                           \/ Refused("result", "no")'
      <3>1. SUFFICES ASSUME toClient = <<>>
                     PROVE  \/ Told("client_init", "result")' /\ toClient'[1].value = "ok"
                            \/ Refused("result", "no")'
        BY <2>4
      <3>2. ASSUME Says(<<Token("result", "ok")>>), stage' = "client_init"
            PROVE  Told("client_init", "result")' /\ toClient'[1].value = "ok"
        <4>1. Len(toClient') = 1 /\ toClient'[1].kind = "result" /\ toClient'[1].value = "ok"
          BY <1>1, <3>1, <3>2, SaysFirst, Spoken
        <4> QED
          BY <2>2, <3>2, <4>1 DEF Told
      <3>3. ASSUME stage' = "over", Says(<<Token("result", "no")>>)
            PROVE  Refused("result", "no")'
        <4>1. Len(toClient') = 1 /\ toClient'[1].kind = "result" /\ toClient'[1].value = "no"
          BY <1>1, <3>1, <3>3, SaysFirst, Spoken
        <4> QED
          BY <2>2, <3>3, <4>1 DEF Refused
      <3>4. ASSUME stage' = "over", Says(<<Token("result", "no"), Token("reason", "bytes")>>)
            PROVE  Refused("result", "no")'
        <4>1. /\ Len(toClient') = 2
              /\ toClient'[1].kind = "result" /\ toClient'[1].value = "no"
              /\ toClient'[2].kind = "reason"
          BY <1>1, <3>1, <3>4, SaysBoth, Spoken
        <4> QED
          BY <2>2, <3>4, <4>1 DEF Refused
      <3> QED
        BY <2>5, <3>2, <3>3, <3>4
    <2>7. stage' # "serving"
      BY <2>5
    <2> QED
      BY <1>1, <2>1, <2>2, <2>3, <2>6, <2>7 DEF Heard, Agreed, IdleBefore, Session
  <1>6. CASE Introduce
    <2>1. stage = "client_init" /\ stage' = "serving"
      BY <1>6 DEF Introduce
    <2>2. toServer' = <<>> /\ toServer # <<>>
      BY <1>6, <2>1, OneWord DEF Introduce, Messages
    <2>3. pc \in {"init", "failed"}
      BY <2>1, <2>2 DEF Agreed, Told, Waits, Refused, BasicInv, TypeOK, Reads, Session
    <2> QED
      BY <1>1, <2>1, <2>2, <2>3 DEF Heard, Agreed, IdleBefore, Session
  <1>7. CASE Listen
    <2>1. stage = "serving" /\ UNCHANGED <<stage, toClient>> /\ toServer # <<>>
          /\ toServer' = Tail(toServer)
      BY <1>7 DEF Listen, Hears
    <2>2. pc \in Session \cup {"ready", "failed"}
      BY <2>1 DEF Agreed, Told, Waits, Refused, BasicInv, TypeOK, Reads, Session
    <2>3. CASE toServer = <<"pixel_format", "encodings">>
      <3>1. toServer' = <<"encodings">> /\ Head(toServer) = "pixel_format"
        BY <2>1, <2>3, Words1
      <3>2. asked' = asked \cup {"pixel_format"}
        BY <1>7, <3>1 DEF Listen, Hears, Settings
      <3> QED
        BY <1>1, <2>1, <2>2, <3>1, <3>2, Words1 DEF Heard, Agreed, IdleBefore, Session
    <2>4. CASE toServer = <<"encodings">> /\ "pixel_format" \in asked
      <3>1. toServer' = <<>> /\ Head(toServer) = "encodings"
        BY <2>1, <2>4, Words1
      <3>2. asked' = asked \cup {"encodings"}
        BY <1>7, <3>1 DEF Listen, Hears, Settings
      <3>3. asked' = Settings
        BY <2>4, <3>2 DEF Settings, BasicInv, TypeOK
      <3> QED
        BY <1>1, <2>1, <2>2, <3>1, <3>3 DEF Heard, Agreed, IdleBefore, Session
    <2>5. CASE asked = Settings /\ toServer \in {<<"request">>, <<"key_up">>}
      <3>1. toServer' = <<>> /\ Head(toServer) \notin Settings
        BY <2>1, <2>5, Words1 DEF Settings
      <3>2. UNCHANGED asked
        BY <1>7, <3>1 DEF Listen, Hears
      <3> QED
        BY <1>1, <2>1, <2>2, <2>5, <3>1, <3>2 DEF Heard, Agreed, IdleBefore, Session
    <2>6. CASE asked = Settings /\ toServer = <<"key_down", "key_up">>
      <3>1. toServer' = <<"key_up">> /\ Head(toServer) \notin Settings
        BY <2>1, <2>6, Words1 DEF Settings
      <3>2. UNCHANGED asked
        BY <1>7, <3>1 DEF Listen, Hears
      <3> QED
        BY <1>1, <2>1, <2>2, <2>6, <3>1, <3>2, Words1 DEF Heard, Agreed, IdleBefore, Session
    <2> QED
      BY <2>1, <2>3, <2>4, <2>5, <2>6 DEF Heard
  <1>8. CASE BeginUpdate \/ SendRect \/ Noise
    <2>1. stage = "serving" /\ UNCHANGED <<stage, asked, toServer>>
      <3>1. CASE SendRect
        <4>1. owing > 0 /\ UNCHANGED <<stage, asked, toServer>>
          BY <3>1 DEF SendRect
        <4> QED
          BY <4>1 DEF IdleBefore
      <3> QED
        BY <1>8, <3>1 DEF BeginUpdate, Noise
    <2>2. pc \in Session \cup {"init", "ready", "failed"}
      BY <2>1 DEF Agreed, Told, Waits, Refused, BasicInv, TypeOK, Reads, Session
    <2> QED
      BY <1>1, <2>1, <2>2 DEF Heard, Agreed, IdleBefore, Waits, Session
  <1>9. CASE Vanish
    <2>1. UNCHANGED <<toServer, server>>
      BY <1>9 DEF Vanish
    <2>2. PICK n \in 0..Len(toClient) :
            /\ Len(toClient) \in Nat
            /\ toClient' \in Seq(Tokens) /\ Len(toClient') = n
            /\ \A i \in 1..n : toClient'[i] = toClient[i]
      BY <1>9, VanishResult
    <2>3. toClient = <<>> => toClient' = <<>>
      BY <2>2, EmptySeq
    <2>4. \A at, kind : Told(at, kind) => Told(at, kind)'
      BY <2>1, <2>2 DEF Told
    <2>5. \A kind, no : Refused(kind, no) => Refused(kind, no)'
      BY <2>1, <2>2 DEF Refused
    <2>6. /\ 1 <= Len(toClient') => 1 <= Len(toClient) /\ toClient'[1] = toClient[1]
      BY <2>2
    <2> QED
      BY <1>1, <2>1, <2>3, <2>4, <2>5, <2>6 DEF Heard, Agreed, IdleBefore, Waits, Session
  <1> QED
    BY <1>2, <1>3, <1>4, <1>5, <1>6, <1>7, <1>8, <1>9 DEF Server

LEMMA TalkStep == BasicInv /\ TalkInv /\ [Next]_vars => TalkInv'
  <1>1. CASE UNCHANGED vars
    BY <1>1 DEF TalkInv, Heard, Agreed, IdleBefore, Waits, Told, Refused
  <1> QED
    BY <1>1, ReadingTalks, OwnTalk, ServerTalks DEF Next, Client, Caller, Reading

LEMMA TalkInvariant == Spec => []TalkInv
  <1>1. Init => TalkInv
    BY DEF Init, TalkInv, Heard, Agreed, IdleBefore, Session
  <1> QED
    BY <1>1, TalkStep, BasicInvariant, PTL DEF Spec

(* Whatever either side does, the server hears only what it is to expect, *)
(* and a request only once it knows the format of what it is to send.     *)
THEOREM ServerFollows == Spec => []ServerUnderstands
  <1>1. ASSUME TalkInv PROVE ServerUnderstands
    <2>1. SUFFICES ASSUME toServer # <<>> PROVE ServerUnderstands
      BY DEF ServerUnderstands
    <2>2. \/ toServer = <<"version">> /\ stage = "version"
          \/ toServer = <<"response">> /\ stage = "response"
          \/ toServer = <<"client_init">> /\ stage = "client_init"
          \/ (toServer = <<"vnc">> \/ toServer = <<"none">>) /\ stage = "choice"
          \/ /\ stage = "serving"
             /\ \/ Head(toServer) \in Settings
                \/ asked = Settings /\ Head(toServer) \in {"request", "key_down", "key_up"}
      BY <1>1, <2>1, Words1 DEF TalkInv, Heard, Settings
    <2> QED
      BY <2>2, Words1 DEF ServerUnderstands
  <1> QED
    BY <1>1, TalkInvariant, PTL

-----------------------------------------------------------------------------
(* The picture *)

PaintInv ==
    /\ pc \in {"message", "payload"} => pixels = NoPixels
    /\ pc \in {"rect", "pixels"} => \A r \in Regions : pixels[r] \in since[r] \cup {Blank}
    /\ pc \in Session => \A r \in Regions : screen[r] \in since[r]
    /\ outcome = "frame" => pc = "ready" /\ FrameIsFresh

(* The value of the next pixels is one the screen has shown. *)
PixelsAreFresh ==
    pc = "pixels" /\ toClient # <<>> /\ Head(toClient).kind = "pixels"
        => Value \in since[region]

LEMMA PaintStep ==
    ASSUME BasicInv, TalkInv, PaintInv, PixelsAreFresh, [Next]_vars
    PROVE  PaintInv'
  <1> USE DEF PaintInv
  <1>1. ASSUME NEW painted, NextRect(painted), UNCHANGED <<screen, since>>,
               pc \in {"rect", "pixels"},
               \A r \in Regions : painted[r] \in since[r] \cup {Blank}
        PROVE  PaintInv'
    BY <1>1 DEF NextRect, FinishUpdate, FrameIsFresh, Session
  <1>2. CASE Reading
    <2>1. UNCHANGED <<screen, since>>
      BY <1>2, ReadingResult
    <2>2. CASE ReadBanner \/ ReadTypes \/ ReadReason \/ ReadChallenge \/ ReadResult \/ ReadInit
      <3>1. /\ pc' \notin Session
            /\ outcome' \in {outcome, "ok", "ProtocolError", "AuthError"}
            /\ pc \notin {"ready"}
        BY <2>2 DEF ReadBanner, ReadTypes, ReadReason, ReadChallenge, ReadResult, ReadInit,
                    Take, Continue, Raise, Return, Session
      <3> QED
        BY <3>1 DEF Session
    <2>3. CASE ReadMessage
      <3>1. /\ pc = "message" /\ pixels = NoPixels /\ outcome # "frame"
        BY <2>3 DEF ReadMessage, Take
      <3>2. CASE FinishUpdate(pixels)
        <4>1. pc' = "failed" /\ outcome' = "ProtocolError"
          BY <3>1, <3>2 DEF FinishUpdate
        <4> QED
          BY <4>1 DEF Session
      <3>3. CASE Raise("ProtocolError")
        BY <3>3 DEF Raise, Session
      <3>4. CASE pc' \in {"message", "payload"} /\ UNCHANGED <<outcome, pixels>>
        BY <2>1, <3>1, <3>4 DEF Session
      <3>5. CASE pc' = "rect" /\ UNCHANGED <<outcome, pixels>>
        BY <2>1, <3>1, <3>5 DEF Session, NoPixels
      <3> QED
        BY <2>3, <3>2, <3>3, <3>4, <3>5 DEF ReadMessage, Continue
    <2>4. CASE ReadPayload
      BY <2>1, <2>4 DEF ReadPayload, Take, Continue, Session
    <2>5. CASE ReadRect
      <3>1. pc = "rect" /\ (\A r \in Regions : pixels[r] \in since[r] \cup {Blank})
        BY <2>5 DEF ReadRect, Take
      <3>2. CASE Raise("ProtocolError")
        BY <3>2 DEF Raise, Session
      <3>3. CASE NextRect(pixels)
        BY <1>1, <2>1, <3>1, <3>3
      <3>4. CASE pc' = "pixels" /\ UNCHANGED <<outcome, pixels>>
        BY <2>1, <3>1, <3>4 DEF Session
      <3> QED
        BY <2>5, <3>2, <3>3, <3>4 DEF ReadRect
    <2>6. CASE ReadPixels
      <3>1. /\ pc = "pixels" /\ NextRect([pixels EXCEPT ![region] = Value])
            /\ \A r \in Regions : pixels[r] \in since[r] \cup {Blank}
            /\ Value \in since[region]
        BY <2>6 DEF ReadPixels, Take, PixelsAreFresh
      <3>2. pixels \in [Regions -> Looks \cup {Blank}] /\ region \in Regions
        BY DEF BasicInv, TypeOK
      <3> DEFINE painted == [pixels EXCEPT ![region] = Value]
      <3>3. \A r \in Regions : painted[r] \in since[r] \cup {Blank}
        BY <3>1, <3>2
      <3>4. NextRect(painted)
        BY <3>1
      <3> QED
        BY <1>1, <2>1, <3>1, <3>3, <3>4
    <2> QED
      BY <1>2, <2>2, <2>3, <2>4, <2>5, <2>6 DEF Reading
  <1>3. CASE TimeOut \/ HangUp
    <2>1. pc' = "failed" /\ outcome' # "frame"
      BY <1>3 DEF TimeOut, HangUp, Raise, ErrorOr
    <2> QED
      BY <2>1 DEF Session
  <1>4. CASE Connect \/ ConnectFails \/ Close
    <2>1. pc' \notin Session /\ outcome' # "frame"
      BY <1>4 DEF Connect, ConnectFails, Close, Session
    <2> QED
      BY <2>1 DEF Session
  <1>5. CASE Capture
    <2>1. /\ pc' = "message" /\ outcome' # "frame" /\ pixels' = NoPixels
          /\ since' = [r \in Regions |-> {screen[r]}] /\ UNCHANGED screen
      BY <1>5 DEF Capture
    <2> QED
      BY <2>1 DEF Session, NoPixels
  <1>6. CASE SendKey
    <2>1. pc' = "ready" /\ outcome' = "ok"
      BY <1>6 DEF SendKey
    <2> QED
      BY <2>1 DEF Session
  <1>7. CASE Server
    <2>1. UNCHANGED <<client, screen, ghosts>>
      BY <1>7, ServerResult
    <2> QED
      BY <2>1 DEF FrameIsFresh
  <1>8. CASE ScreenChanges
    <2>1. UNCHANGED client
      BY <1>8 DEF ScreenChanges
    <2>2. PICK r \in Regions, l \in Looks :
            /\ screen' = [screen EXCEPT ![r] = l]
            /\ since' = IF pc \in Reads THEN [since EXCEPT ![r] = @ \cup {l}] ELSE since
      BY <1>8 DEF ScreenChanges
    <2>3. screen \in [Regions -> Looks] /\ since \in [Regions -> SUBSET Looks]
      BY DEF BasicInv, TypeOK
    <2>4. \A q \in Regions : since[q] \subseteq since'[q]
      BY <2>2, <2>3
    <2>5. pc \in Session => \A q \in Regions : screen'[q] \in since'[q]
      BY <2>2, <2>3 DEF Session, Reads
    <2> QED
      BY <2>1, <2>4, <2>5 DEF FrameIsFresh, Session
  <1>9. CASE Tick \/ UNCHANGED vars
    <2>1. UNCHANGED <<pc, outcome, pixels, screen, since>>
      BY <1>9 DEF Tick
    <2> QED
      BY <2>1 DEF FrameIsFresh
  <1> QED
    BY <1>2, <1>3, <1>4, <1>5, <1>6, <1>7, <1>8, <1>9 DEF Next, Client, Caller, Reading

-----------------------------------------------------------------------------

(* The stream: what a reader of it waits for, token by token. *)

(* Waiting for the update or, in between two, for nothing ("ready",        *)
(* "skips"); in the midst of an update, with rects to come; or lost, after *)
(* what ends the session.                                                  *)
Quiet   == {"init", "ready", "skips"}
Settled == Quiet \cup {"lost"}
Live    == Session \cup {"init", "ready"}

States == [reads : Live \cup {"skips", "lost"}, rects : 0..MaxRects, region : Regions]

Rest(s, to) ==
    \/ s.rects = 1 /\ to.reads = "ready"
    \/ s.rects > 1 /\ to.reads = "rect" /\ to.rects = s.rects - 1

GoesOn(s, v, to) ==
    \/ /\ v.type \in {"bell", "colours", "cut"} /\ v.count = 0
       /\ to.reads = s.reads
    \/ /\ v.type \in {"colours", "cut"} /\ v.count = 1
       /\ to.reads = IF s.reads = "ready" THEN "skips" ELSE "payload"
    \/ v.type = "cut" /\ v.count > 1 /\ to.reads = "lost"
    \/ v.type = "other" /\ to.reads = "lost"
    \/ /\ v.type = "update" /\ s.reads = "message"
       /\ \/ v.count \in 1..MaxRects /\ to.reads = "rect" /\ to.rects = v.count
          \/ v.count \notin 1..MaxRects /\ to.reads = "lost"

Paints(s, v, to) ==
    \/ v.shape \in {"encoded", "outside"} /\ to.reads = "lost"
    \/ v.shape = "empty" /\ Rest(s, to)
    \/ /\ v.shape = "raw"
       /\ to.reads = "pixels" /\ to.rects = s.rects /\ to.region = v.region

Goes(s, token, to, shown) ==
    \/ s.reads = "lost" /\ to.reads = "lost"
    \/ /\ s.reads = "init" /\ token.kind = "init"
       /\ to.reads = IF token.value = "ok" THEN "ready" ELSE "lost"
    \/ s.reads \in {"ready", "message"} /\ token.kind = "message" /\ GoesOn(s, token.value, to)
    \/ s.reads = "skips" /\ token.kind = "payload" /\ to.reads = "ready"
    \/ s.reads = "payload" /\ token.kind = "payload" /\ to.reads = "message"
    \/ s.reads = "rect" /\ token.kind = "rect" /\ Paints(s, token.value, to)
    \/ /\ s.reads = "pixels" /\ token.kind = "pixels"
       /\ token.value \in shown[s.region] /\ Rest(s, to)

(* A reader at rest stays at rest, and a lost one lost. *)
Later(s, to) ==
    /\ s.reads \in Settled => to.reads \in Settled
    /\ s.reads = "lost" => to.reads = "lost"

Run(q, wire, shown) ==
    /\ q \in [1..Len(wire) + 1 -> States]
    /\ \A i \in 1..Len(wire) : Goes(q[i], wire[i], q[i + 1], shown)
    /\ \A i, j \in 1..Len(wire) + 1 : i <= j => Later(q[i], q[j])

SomeQuiet(q, n) == \E i \in 1..n : q[i].reads \in Quiet

LEMMA GoesLater ==
    ASSUME NEW s, NEW token, NEW to, NEW shown, Goes(s, token, to, shown)
    PROVE  Later(s, to)
  BY DEF Goes, GoesOn, Later, Settled, Quiet

LEMMA RunTail ==
    ASSUME NEW wire \in Seq(Tokens), NEW rest \in Seq(Tokens), NEW q, NEW shown,
           Run(q, wire, shown), 1 <= Len(wire), Len(rest) = Len(wire) - 1,
           \A i \in 1..Len(rest) : rest[i] = wire[i + 1]
    PROVE  \E p :
             /\ Run(p, rest, shown)
             /\ p[1] = q[2] /\ p[Len(rest) + 1] = q[Len(wire) + 1]
             /\ SomeQuiet(p, Len(rest) + 1) => SomeQuiet(q, Len(wire) + 1)
  <1> DEFINE n == Len(wire)
             p == [i \in 1..n |-> q[i + 1]]
  <1>1. n \in Nat /\ 1 <= n /\ Len(rest) = n - 1 /\ Len(rest) + 1 = n
    BY LenProperties
  <1>2. q \in [1..n + 1 -> States]
    BY DEF Run
  <1> HIDE DEF n
  <1>3. \A i \in 1..n : i + 1 \in 1..n + 1 /\ q[i + 1] \in States /\ p[i] = q[i + 1]
    BY <1>1, <1>2
  <1>4. p \in [1..n -> States]
    BY <1>3
  <1>5. ASSUME NEW i \in 1..Len(rest) PROVE Goes(p[i], rest[i], p[i + 1], shown)
    <2>1. i \in 1..n /\ i + 1 \in 1..n
      BY <1>1
    <2>2. p[i] = q[i + 1] /\ p[i + 1] = q[i + 1 + 1] /\ rest[i] = wire[i + 1]
      BY <2>1, <1>3
    <2>3. Goes(q[i + 1], wire[i + 1], q[i + 1 + 1], shown)
      BY <2>1 DEF Run, n
    <2> QED
      BY <2>2, <2>3
  <1>6. ASSUME NEW i \in 1..n, NEW j \in 1..n, i <= j
        PROVE  Later(p[i], p[j])
    <2>1. i + 1 \in 1..n + 1 /\ j + 1 \in 1..n + 1 /\ i + 1 <= j + 1
      BY <1>1, <1>6
    <2> QED
      BY <2>1, <1>3, <1>6 DEF Run, n
  <1>7. Run(p, rest, shown)
    BY <1>1, <1>4, <1>5, <1>6 DEF Run
  <1>8. p[1] = q[2] /\ p[n] = q[n + 1]
    <2>1. 1 \in 1..n /\ n \in 1..n /\ 1 + 1 = 2
      BY <1>1
    <2> QED
      BY <1>3, <2>1
  <1>9. SomeQuiet(p, n) => SomeQuiet(q, n + 1)
    BY <1>3 DEF SomeQuiet
  <1> QED
    BY <1>1, <1>7, <1>8, <1>9 DEF n

LEMMA RunPrefix ==
    ASSUME NEW wire \in Seq(Tokens), NEW part \in Seq(Tokens), NEW q, NEW shown,
           Run(q, wire, shown), Len(part) <= Len(wire),
           \A i \in 1..Len(part) : part[i] = wire[i]
    PROVE  \E p :
             /\ Run(p, part, shown)
             /\ p[1] = q[1]
             /\ SomeQuiet(p, Len(part) + 1) => SomeQuiet(q, Len(wire) + 1)
  <1> DEFINE n == Len(wire)
             k == Len(part)
             p == [i \in 1..k + 1 |-> q[i]]
  <1>1. n \in Nat /\ k \in Nat /\ k <= n
    BY LenProperties
  <1>2. q \in [1..n + 1 -> States]
    BY DEF Run
  <1>3. \A i \in 1..k : part[i] = wire[i]
    OBVIOUS
  <1> HIDE DEF n, k
  <1>4. \A i \in 1..k + 1 : i \in 1..n + 1 /\ q[i] \in States /\ p[i] = q[i]
    BY <1>1, <1>2
  <1>5. p \in [1..k + 1 -> States]
    BY <1>4
  <1>6. ASSUME NEW i \in 1..k PROVE Goes(p[i], part[i], p[i + 1], shown)
    <2>1. i \in 1..k + 1 /\ i + 1 \in 1..k + 1 /\ i \in 1..n
      BY <1>1
    <2> QED
      BY <1>3, <1>4, <2>1 DEF Run, n
  <1>7. ASSUME NEW i \in 1..k + 1, NEW j \in 1..k + 1, i <= j
        PROVE  Later(p[i], p[j])
    BY <1>4, <1>7 DEF Run, n
  <1>8. Run(p, part, shown)
    BY <1>5, <1>6, <1>7 DEF Run, k
  <1>9. p[1] = q[1]
    BY <1>1, <1>4
  <1>10. SomeQuiet(p, k + 1) => SomeQuiet(q, n + 1)
    BY <1>4 DEF SomeQuiet
  <1> QED
    BY <1>8, <1>9, <1>10 DEF k, n

LEMMA RunAppend ==
    ASSUME NEW wire \in Seq(Tokens), NEW token \in Tokens, NEW q, NEW shown, NEW s \in States,
           Run(q, wire, shown), Goes(q[Len(wire) + 1], token, s, shown)
    PROVE  \E p :
             /\ Run(p, Append(wire, token), shown)
             /\ p[1] = q[1] /\ p[Len(Append(wire, token)) + 1] = s
             /\ SomeQuiet(p, Len(Append(wire, token)) + 1)
                    => SomeQuiet(q, Len(wire) + 1) \/ s.reads \in Quiet
  <1> DEFINE n == Len(wire)
             more == Append(wire, token)
             p == [i \in 1..n + 2 |-> IF i <= n + 1 THEN q[i] ELSE s]
  <1>1. /\ n \in Nat /\ Len(more) = n + 1 /\ Len(more) + 1 = n + 2
        /\ (\A i \in 1..n : more[i] = wire[i]) /\ more[n + 1] = token
    BY LenProperties, AppendProperties
  <1>2. q \in [1..n + 1 -> States] /\ Goes(q[n + 1], token, s, shown)
    BY DEF Run
  <1>a. /\ \A i \in 1..n : Goes(q[i], wire[i], q[i + 1], shown)
        /\ \A i, j \in 1..n + 1 : i <= j => Later(q[i], q[j])
    BY DEF Run
  <1> HIDE DEF n, more
  <1>3. /\ \A i \in 1..n + 1 : p[i] = q[i] /\ p[i] \in States
        /\ p[n + 2] = s
    BY <1>1, <1>2
  <1>4. p \in [1..n + 2 -> States]
    BY <1>1, <1>2
  <1> HIDE DEF p
  <1>5. ASSUME NEW i \in 1..n + 1 PROVE Goes(p[i], more[i], p[i + 1], shown)
    <2>1. CASE i \in 1..n
      <3>1. i + 1 \in 1..n + 1
        BY <1>1, <2>1
      <3> QED
        BY <1>1, <1>a, <1>3, <2>1, <3>1
    <2>2. CASE i = n + 1
      <3>1. i + 1 = n + 2
        BY <1>1, <2>2
      <3> QED
        BY <1>1, <1>2, <1>3, <2>2, <3>1
    <2> QED
      BY <1>1, <2>1, <2>2
  <1>6. ASSUME NEW i \in 1..n + 2, NEW j \in 1..n + 2, i <= j
        PROVE  Later(p[i], p[j])
    <2>1. CASE j \in 1..n + 1
      <3>1. i \in 1..n + 1
        BY <1>1, <1>6, <2>1
      <3> QED
        BY <1>a, <1>3, <1>6, <2>1, <3>1
    <2>2. CASE i \in 1..n + 1 /\ j = n + 2
      <3>1. n + 1 \in 1..n + 1 /\ i <= n + 1
        BY <1>1, <2>2
      <3>2. Later(q[i], q[n + 1])
        BY <1>a, <2>2, <3>1
      <3>3. Later(q[n + 1], s)
        BY <1>2, GoesLater
      <3>4. Later(q[i], s)
        BY <3>2, <3>3 DEF Later
      <3> QED
        BY <1>3, <2>2, <3>4
    <2>3. CASE i = n + 2 /\ j = n + 2
      BY <2>3 DEF Later
    <2> QED
      BY <1>1, <1>6, <2>1, <2>2, <2>3
  <1>7. Run(p, more, shown)
    BY <1>1, <1>4, <1>5, <1>6 DEF Run
  <1>8. p[1] = q[1] /\ p[Len(more) + 1] = s
    BY <1>1, <1>3
  <1>9. SomeQuiet(p, n + 2) => SomeQuiet(q, n + 1) \/ s.reads \in Quiet
    <2>1. SUFFICES ASSUME NEW i \in 1..n + 2, p[i].reads \in Quiet
                   PROVE  SomeQuiet(q, n + 1) \/ s.reads \in Quiet
      BY DEF SomeQuiet
    <2>2. CASE i \in 1..n + 1
      BY <1>3, <2>1, <2>2 DEF SomeQuiet
    <2>3. CASE i = n + 2
      BY <1>3, <2>1, <2>3
    <2> QED
      BY <1>1, <2>2, <2>3
  <1> QED
    BY <1>1, <1>7, <1>8, <1>9 DEF more, n

(* What has been shown may grow, and matters to nobody who is at rest. *)
LEMMA RunShown ==
    ASSUME NEW wire \in Seq(Tokens), NEW q, NEW shown, NEW more, Run(q, wire, shown),
           \A r \in Regions : shown[r] \subseteq more[r]
    PROVE  Run(q, wire, more)
  <1>1. \A i \in 1..Len(wire) : q[i] \in States /\ q[i].region \in Regions
    <2>1. Len(wire) \in Nat
      BY LenProperties
    <2>2. \A i \in 1..Len(wire) : i \in 1..Len(wire) + 1
      BY <2>1
    <2> QED
      BY <2>2 DEF Run, States
  <1>2. \A i \in 1..Len(wire) : Goes(q[i], wire[i], q[i + 1], more)
    BY <1>1 DEF Run, Goes
  <1> QED
    BY <1>2 DEF Run

Woken(s) ==
    [s EXCEPT !.reads = IF @ = "ready" THEN "message" ELSE IF @ = "skips" THEN "payload" ELSE @]

(* A reader at rest that asks for an update reads the same with new eyes. *)
LEMMA RunWoken ==
    ASSUME NEW wire \in Seq(Tokens), NEW q, NEW shown, NEW more, Run(q, wire, shown),
           q[1].reads = "ready"
    PROVE  \E p :
             /\ Run(p, wire, more)
             /\ p[1].reads = "message"
             /\ ~SomeQuiet(p, Len(wire) + 1)
             /\ LET a == q[Len(wire) + 1]
                    b == p[Len(wire) + 1]
                IN  \/ a.reads = "lost" /\ b.reads = "lost"
                    \/ a.reads = "ready" /\ b.reads = "message"
                    \/ a.reads = "skips" /\ b.reads = "payload"
  <1> DEFINE n == Len(wire)
             p == [i \in 1..n + 1 |-> Woken(q[i])]
  <1>1. n \in Nat /\ 1 \in 1..n + 1 /\ n + 1 \in 1..n + 1
    BY LenProperties
  <1>2. /\ q \in [1..n + 1 -> States]
        /\ \A i \in 1..n : Goes(q[i], wire[i], q[i + 1], shown)
        /\ \A i, j \in 1..n + 1 : i <= j => Later(q[i], q[j])
    BY DEF Run
  <1> HIDE DEF n
  <1>3. \A i \in 1..n + 1 : q[i].reads \in Settled
    <2>1. \A i \in 1..n + 1 : 1 <= i
      BY <1>1
    <2> QED
      BY <1>1, <1>2, <2>1 DEF Later, Settled, Quiet
  <1>4. ASSUME NEW i \in 1..n + 1 PROVE q[i].reads \in {"ready", "skips", "lost"}
    <2>1. CASE i = 1
      BY <2>1
    <2>2. CASE i # 1
      <3>1. i - 1 \in 1..n /\ i - 1 + 1 = i
        BY <1>1, <2>2
      <3>2. Goes(q[i - 1], wire[i - 1], q[i], shown)
        BY <1>2, <3>1
      <3>3. i - 1 \in 1..n + 1
        BY <1>1, <3>1
      <3>4. q[i - 1].reads \in Settled
        BY <1>3, <3>3
      <3> QED
        BY <3>2, <3>4 DEF Goes, GoesOn, Settled, Quiet
    <2> QED
      BY <2>1, <2>2
  <1>5. ASSUME NEW i \in 1..n + 1
        PROVE  /\ p[i] \in States /\ p[i] = Woken(q[i])
               /\ \/ q[i].reads = "lost" /\ p[i].reads = "lost"
                  \/ q[i].reads = "ready" /\ p[i].reads = "message"
                  \/ q[i].reads = "skips" /\ p[i].reads = "payload"
    <2>1. q[i] \in States /\ p[i] = Woken(q[i])
      BY <1>2
    <2> QED
      BY <2>1, <1>4 DEF Woken, States, Live, Session
  <1>6. p \in [1..n + 1 -> States]
    BY <1>5
  <1> HIDE DEF p
  <1>7. ASSUME NEW i \in 1..n PROVE Goes(p[i], wire[i], p[i + 1], more)
    <2>1. i \in 1..n + 1 /\ i + 1 \in 1..n + 1
      BY <1>1
    <2>2. Goes(q[i], wire[i], q[i + 1], shown)
      BY <1>2
    <2>3. /\ \/ q[i].reads = "lost" /\ p[i].reads = "lost"
             \/ q[i].reads = "ready" /\ p[i].reads = "message"
             \/ q[i].reads = "skips" /\ p[i].reads = "payload"
          /\ \/ q[i + 1].reads = "lost" /\ p[i + 1].reads = "lost"
             \/ q[i + 1].reads = "ready" /\ p[i + 1].reads = "message"
             \/ q[i + 1].reads = "skips" /\ p[i + 1].reads = "payload"
      BY <1>5, <2>1
    <2> QED
      BY <2>2, <2>3 DEF Goes, GoesOn
  <1>8. \A i \in 1..n + 1 : p[i].reads \in {"message", "payload", "lost"}
    BY <1>5
  <1>9. Run(p, wire, more)
    <2>1. ASSUME NEW i \in 1..n + 1, NEW j \in 1..n + 1, i <= j
          PROVE  Later(p[i], p[j])
      <3>1. Later(q[i], q[j])
        BY <1>2, <2>1
      <3>2. /\ p[i].reads \in Settled => q[i].reads = "lost"
            /\ q[j].reads = "lost" => p[j].reads = "lost"
        BY <1>5 DEF Settled, Quiet
      <3> QED
        BY <3>1, <3>2 DEF Later, Settled
    <2> QED
      BY <1>6, <1>7, <2>1 DEF Run, n
  <1>10. ~SomeQuiet(p, n + 1)
    BY <1>8 DEF SomeQuiet, Quiet
  <1> QED
    BY <1>1, <1>5, <1>9, <1>10 DEF n

-----------------------------------------------------------------------------
(* The client is at the start of a run over the stream, and the server at  *)
(* its end, unless it has said what nobody will read on after.             *)

Asked == pending \/ toServer = <<"request">>

Begins(s) ==
    /\ s.reads = pc
    /\ pc \in {"rect", "pixels"} => s.rects = rects
    /\ pc = "pixels" => s.region = region

Closes(s) ==
    \/ s.reads = "lost"
    \/ stage # "serving" /\ s.reads = "init"
    \/ stage = "serving" /\ owing > 0 /\ s.reads = "rect" /\ s.rects = owing
    \/ stage = "serving" /\ owing = 0 /\ s.reads = IF Asked THEN "message" ELSE "ready"

Joins(q) ==
    /\ Run(q, toClient, since)
    /\ Begins(q[1])
    /\ SomeQuiet(q, Len(toClient) + 1) => ~Asked /\ owing = 0
    /\ ~gone => Closes(q[Len(toClient) + 1])

Once == /\ pending => toServer # <<"request">>
        /\ Asked => owing = 0

StreamInv == pc \in Live => Once /\ \E q : Joins(q)

LEMMA StreamShows ==
    ASSUME BasicInv, StreamInv, pc \in Live \ {"ready"}, toClient # <<>>
    PROVE  /\ Head(toClient).kind = pc
           /\ pc = "pixels" => Value \in since[region]
  <1>1. PICK q : Joins(q)
    BY DEF StreamInv
  <1>2. /\ toClient \in Seq(Tokens) /\ Len(toClient) \in Nat \ {0}
        /\ Head(toClient) = toClient[1]
    <2>1. toClient \in Seq(Tokens) /\ Len(toClient) \in Nat \ {0}
      BY EmptySeq DEF BasicInv, WireType
    <2> QED
      BY <2>1, ElementOfSeq
  <1>3. Goes(q[1], toClient[1], q[1 + 1], since)
    BY <1>1, <1>2 DEF Joins, Run
  <1>4. q[1].reads = pc /\ (pc = "pixels" => q[1].region = region)
    BY <1>1 DEF Joins, Begins
  <1>5. toClient[1].kind = pc
    BY <1>3, <1>4 DEF Goes, Live, Session
  <1>6. pc = "pixels" => toClient[1].value \in since[region]
    BY <1>3, <1>4 DEF Goes
  <1> QED
    BY <1>2, <1>5, <1>6 DEF Value

(* The client reads a token, and begins where the run goes on. *)
LEMMA ReadsOn ==
    ASSUME BasicInv, Once, NEW q, Joins(q), NEW kind \in Reads, Take(kind),
           Begins(q[2])', UNCHANGED <<gone, stage, pending, owing, since>>, Asked' = Asked,
           pending' => toServer' # <<"request">>
    PROVE  StreamInv'
  <1>1. /\ toClient \in Seq(Tokens) /\ toClient' \in Seq(Tokens)
        /\ Len(toClient) \in Nat \ {0} /\ Len(toClient') = Len(toClient) - 1
        /\ \A i \in 1..Len(toClient') : toClient'[i] = toClient[i + 1]
    BY TakeResult DEF BasicInv, WireType
  <1>2. PICK p :
          /\ Run(p, toClient', since)
          /\ p[1] = q[2] /\ p[Len(toClient') + 1] = q[Len(toClient) + 1]
          /\ SomeQuiet(p, Len(toClient') + 1) => SomeQuiet(q, Len(toClient) + 1)
    BY <1>1, RunTail DEF Joins
  <1>3. Joins(p)'
    BY <1>2 DEF Joins, Begins, Closes
  <1>4. Once'
    BY DEF Once
  <1> QED
    BY <1>3, <1>4 DEF StreamInv

LEMMA ReadingStream ==
    ASSUME BasicInv, TalkInv, PaintInv, StreamInv, Reading
    PROVE  StreamInv'
  <1>1. /\ \E kind \in Reads : Take(kind)
        /\ UNCHANGED <<gone, stage, pending, owing, since>>
    BY ReadingResult
  <1>2. CASE pc' \notin Live
    BY <1>2 DEF StreamInv
  <1>3. CASE ReadBanner \/ ReadTypes \/ ReadReason \/ ReadChallenge
    <2>1. pc' \notin Live
      BY <1>3 DEF ReadBanner, ReadTypes, ReadReason, ReadChallenge, Continue, Raise, Live, Session
    <2> QED
      BY <1>2, <2>1
  <1>4. CASE ReadResult /\ pc' \in Live
    <2>1. pc' = "init"
      BY <1>4 DEF ReadResult, Continue, Live, Session
    <2>2. TalkInv'
      BY ReadingTalks
    <2>3. Value = "ok" /\ pc = "result" /\ toClient[1] = Head(toClient)
          /\ 1 <= Len(toClient) /\ Len(toClient) \in Nat
      BY <1>4, ToldMeansHeard DEF ReadResult, Continue, Live, Session, Reads
    <2>4. stage = "client_init"
      BY <2>3 DEF TalkInv, Agreed, Waits, Told, Refused, Value
    <2>5. toClient' = <<>> /\ toServer' = <<"client_init">>
      BY <1>1, <2>1, <2>2, <2>4 DEF TalkInv, Agreed, Waits
    <2>6. ~pending' /\ owing' = 0 /\ ~Asked'
      <3>1. ~pending /\ owing = 0
        BY <2>4 DEF TalkInv, IdleBefore
      <3>2. <<"client_init">> # <<"request">>
        OBVIOUS
      <3> QED
        BY <1>1, <2>5, <3>1, <3>2 DEF Asked
    <2>7. PICK s \in States : s.reads = "init"
      <3>1. [reads |-> "init", rects |-> 0, region |-> region] \in States
        BY Numbers DEF BasicInv, TypeOK, States, Live
      <3> QED
        BY <3>1
    <2>8. PICK q : q \in [1..1 -> States] /\ q[1] = s
      <3>1. /\ [i \in 1..1 |-> s] \in [1..1 -> States]
            /\ [i \in 1..1 |-> s][1] = s
        BY <2>7
      <3> QED
        BY <3>1
    <2>10. Run(q, toClient', since')
      <3>1. Len(toClient') = 0 /\ 0 + 1 = 1 /\ 1..0 = {} /\ (\A i \in 1..1 : i = 1)
        BY <2>5, Silence
      <3>2. Later(q[1], q[1])
        BY DEF Later
      <3> QED
        BY <2>8, <3>1, <3>2 DEF Run
    <2>11. Joins(q)'
      <3>1. Len(toClient') + 1 = 1
        BY <2>5, Silence
      <3> QED
        BY <1>1, <2>1, <2>4, <2>6, <2>7, <2>8, <2>10, <3>1 DEF Joins, Begins, Closes
    <2> QED
      BY <2>6, <2>11 DEF StreamInv, Once
  <1>5. ASSUME ReadInit \/ ReadMessage \/ ReadPayload \/ ReadRect \/ ReadPixels, pc' \in Live
        PROVE  StreamInv'
    <2>1. pc \in Live \ {"ready"} /\ Take(pc) /\ pc \in Reads
      BY <1>5 DEF ReadInit, ReadMessage, ReadPayload, ReadRect, ReadPixels, Take, Live, Session, Reads
    <2>2. PICK q : Joins(q)
      BY <2>1 DEF StreamInv
    <2>3. Once
      BY <2>1 DEF StreamInv
    <2>4. /\ toClient \in Seq(Tokens) /\ Len(toClient) \in Nat \ {0}
          /\ Value = toClient[1] .value
          /\ toClient[1].kind = pc /\ toClient[1] \in Tokens
      BY <2>1, TakeResult DEF BasicInv, WireType, Value
    <2>5. /\ Goes(q[1], toClient[1], q[2], since)
          /\ q[1].reads = pc
          /\ pc \in {"rect", "pixels"} => q[1].rects = rects
          /\ pc = "pixels" => q[1].region = region
      <3>1. Goes(q[1], toClient[1], q[1 + 1], since)
        BY <2>2, <2>4 DEF Joins, Run
      <3> QED
        BY <2>2, <3>1 DEF Joins, Begins
    <2>6. /\ Asked' = Asked /\ (pending' => toServer' # <<"request">>)
      <3>1. CASE ReadInit
        <4>1. toServer = <<>> /\ Send(<<"pixel_format", "encodings">>)
          BY <1>5, <3>1, ToldMeansHeard DEF ReadInit, Raise, Live, Session, Reads
        <4>2. toServer' = <<"pixel_format", "encodings">>
          BY <4>1, SendResult, Sendable DEF BasicInv
        <4>3. <<>> # <<"request">> /\ <<"pixel_format", "encodings">> # <<"request">>
          OBVIOUS
        <4> QED
          BY <1>1, <4>1, <4>2, <4>3 DEF Asked
      <3>2. CASE ~ReadInit
        <4>1. UNCHANGED toServer
          BY <1>5, <3>2 DEF ReadMessage, ReadPayload, ReadRect, ReadPixels
        <4> QED
          BY <1>1, <2>3, <4>1 DEF Asked, Once
      <3> QED
        BY <3>1, <3>2
    <2>7. Begins(q[2])'
      <3>1. CASE ReadInit
        <4>1. pc = "init" /\ Value = "ok" /\ pc' = "ready"
          BY <1>5, <3>1 DEF ReadInit, Take, Return, Raise, Live, Session
        <4>2. q[2].reads = "ready"
          BY <2>4, <2>5, <4>1 DEF Goes
        <4> QED
          BY <4>1, <4>2 DEF Begins
      <3>2. CASE ReadMessage
        <4>1. pc = "message" /\ pixels = NoPixels
          BY <3>2 DEF ReadMessage, Take, PaintInv
        <4>2. GoesOn(q[1], Value, q[2]) /\ q[1].reads = "message"
          BY <2>4, <2>5, <4>1 DEF Goes
        <4>3. \/ /\ Value.type = "update" /\ Value.count \in 1..MaxRects
                 /\ pc' = "rect" /\ rects' = Value.count
              \/ /\ Value.type \in {"bell", "colours", "cut"} /\ Value.count = 0
                 /\ pc' = "message"
              \/ /\ Value.type \in {"colours", "cut"} /\ Value.count = 1
                 /\ pc' = "payload"
          BY <1>5, <3>2, <4>1
             DEF ReadMessage, Raise, Continue, FinishUpdate, Live, Session
        <4>4. Value.type = "update" => Value.count # 0
          BY <4>3
        <4>5. \/ pc' = "rect" /\ q[2].reads = "rect" /\ q[2].rects = rects'
              \/ pc' = "message" /\ q[2].reads = "message"
              \/ pc' = "payload" /\ q[2].reads = "payload"
          BY <4>2, <4>3 DEF GoesOn
        <4> QED
          BY <4>5 DEF Begins
      <3>3. CASE ReadPayload
        <4>1. pc = "payload" /\ pc' = "message"
          BY <3>3 DEF ReadPayload, Take, Continue
        <4>2. q[2].reads = "message"
          BY <2>5, <4>1 DEF Goes
        <4> QED
          BY <4>1, <4>2 DEF Begins
      <3>4. ASSUME NEW painted, NextRect(painted), Rest(q[1], q[2]), q[1].rects = rects
            PROVE  Begins(q[2])'
        <4>1. \/ rects = 1 /\ pc' = "ready"
              \/ rects > 1 /\ rects' = rects - 1 /\ pc' = "rect"
          BY <1>5, <3>4 DEF NextRect, FinishUpdate, Live, Session
        <4> QED
          BY <3>4, <4>1 DEF Rest, Begins
      <3>5. CASE ReadRect
        <4>1. pc = "rect"
          BY <3>5 DEF ReadRect, Take
        <4>2. Paints(q[1], Value, q[2]) /\ q[1].rects = rects
          BY <2>4, <2>5, <4>1 DEF Goes
        <4>3. \/ Value.shape = "empty" /\ NextRect(pixels)
              \/ /\ Value.shape = "raw"
                 /\ pc' = "pixels" /\ region' = Value.region /\ rects' = rects
          BY <1>5, <3>5 DEF ReadRect, Raise, Live, Session
        <4>4. CASE Value.shape = "empty"
          <5>1. NextRect(pixels) /\ Rest(q[1], q[2])
            BY <4>2, <4>3, <4>4 DEF Paints
          <5> QED
            BY <3>4, <4>2, <5>1
        <4>5. CASE Value.shape = "raw"
          BY <4>2, <4>3, <4>5 DEF Paints, Begins
        <4> QED
          BY <4>3, <4>4, <4>5
      <3>6. CASE ReadPixels
        <4>1. pc = "pixels" /\ \E painted : NextRect(painted)
          BY <3>6 DEF ReadPixels, Take
        <4>2. Rest(q[1], q[2]) /\ q[1].rects = rects
          BY <2>5, <4>1 DEF Goes
        <4> QED
          BY <3>4, <4>1, <4>2
      <3> QED
        BY <1>5, <3>1, <3>2, <3>3, <3>5, <3>6
    <2> QED
      BY <1>1, <2>1, <2>2, <2>3, <2>6, <2>7, ReadsOn
  <1> QED
    BY <1>2, <1>3, <1>4, <1>5 DEF Reading

LEMMA OwnStream ==
    ASSUME BasicInv, TalkInv, StreamInv,
           \/ TimeOut \/ HangUp \/ Connect \/ ConnectFails \/ Capture \/ SendKey \/ Close
           \/ ScreenChanges \/ Tick
    PROVE  StreamInv'
  <1>1. CASE TimeOut \/ HangUp \/ Connect \/ ConnectFails \/ Close
    <2>1. pc' \notin Live
      BY <1>1 DEF TimeOut, HangUp, Raise, Connect, ConnectFails, Close, Live, Session
    <2> QED
      BY <2>1 DEF StreamInv
  <1>2. CASE Capture \/ SendKey
    <2>1. /\ pc = "ready" /\ toServer = <<>> /\ stage = "serving" /\ UNCHANGED <<toClient, gone>>
          /\ UNCHANGED <<stage, asked, pending, owing, rects, region>>
      BY <1>2 DEF Capture, SendKey, TalkInv, Agreed
    <2>2. /\ toClient \in Seq(Tokens) /\ Len(toClient) \in Nat
          /\ 1 \in 1..Len(toClient) + 1
      <3>1. toClient \in Seq(Tokens) /\ Len(toClient) \in Nat
        BY LenProperties DEF BasicInv, WireType
      <3> QED
        BY <3>1
    <2>3. PICK q : Joins(q)
      BY <2>1 DEF StreamInv, Live
    <2>4. q[1].reads = "ready" /\ Run(q, toClient, since)
      BY <2>1, <2>3 DEF Joins, Begins
    <2>5. ~Asked /\ owing = 0 /\ ~pending
      BY <2>2, <2>3, <2>4 DEF Joins, SomeQuiet, Quiet, Asked
    <2>6. CASE Capture
      <3>1. pc' = "message" /\ toServer' = <<"request">>
        BY <2>1, <2>6, SendResult, Sendable DEF Capture, BasicInv
      <3>2. PICK p :
              /\ Run(p, toClient, since')
              /\ p[1].reads = "message"
              /\ ~SomeQuiet(p, Len(toClient) + 1)
              /\ \/ q[Len(toClient) + 1].reads = "lost" /\ p[Len(toClient) + 1].reads = "lost"
                 \/ q[Len(toClient) + 1].reads = "ready" /\ p[Len(toClient) + 1].reads = "message"
                 \/ q[Len(toClient) + 1].reads = "skips" /\ p[Len(toClient) + 1].reads = "payload"
        BY <2>2, <2>4, RunWoken
      <3>3. ~gone => q[Len(toClient) + 1].reads \in {"lost", "ready"}
        BY <2>1, <2>3, <2>5 DEF Joins, Closes
      <3>4. ~gone => p[Len(toClient) + 1].reads \in {"lost", "message"}
        BY <3>2, <3>3
      <3>5. Asked' /\ ~pending' /\ owing' = 0
        BY <2>1, <2>5, <3>1 DEF Asked
      <3>6. Joins(p)'
        BY <2>1, <3>1, <3>2, <3>4, <3>5 DEF Joins, Begins, Closes
      <3> QED
        BY <3>5, <3>6 DEF StreamInv, Once
    <2>7. CASE SendKey
      <3>1. pc' = "ready" /\ toServer' = <<"key_down", "key_up">> /\ UNCHANGED since
        BY <2>1, <2>7, SendResult, Sendable DEF SendKey, BasicInv
      <3>2. toServer' # <<"request">> /\ ~Asked'
        BY <2>1, <2>5, <3>1 DEF Asked
      <3>3. Joins(q)'
        BY <2>1, <2>3, <2>5, <3>1, <3>2 DEF Joins, Begins, Closes
      <3> QED
        BY <2>1, <2>5, <3>2, <3>3 DEF StreamInv, Once
    <2> QED
      BY <1>2, <2>6, <2>7
  <1>3. CASE ScreenChanges \/ Tick
    <2>1. UNCHANGED <<pc, rects, region, toClient, toServer, gone, stage, pending, owing>>
      BY <1>3 DEF ScreenChanges, Tick
    <2>2. SUFFICES ASSUME pc \in Live PROVE StreamInv'
      BY <2>1 DEF StreamInv
    <2>3. PICK q : Joins(q)
      BY <2>2 DEF StreamInv
    <2>4. \A r \in Regions : since[r] \subseteq since'[r]
      <3>1. CASE Tick
        BY <3>1 DEF Tick
      <3>2. CASE ScreenChanges
        <4>1. PICK r \in Regions, l \in Looks :
                since' = IF pc \in Reads THEN [since EXCEPT ![r] = @ \cup {l}] ELSE since
          BY <3>2 DEF ScreenChanges
        <4>2. since \in [Regions -> SUBSET Looks]
          BY DEF BasicInv, TypeOK
        <4> QED
          BY <4>1, <4>2
      <3> QED
        BY <1>3, <3>1, <3>2
    <2>5. Run(q, toClient, since')
      BY <2>3, <2>4, RunShown DEF Joins, BasicInv, WireType
    <2>6. Joins(q)' /\ Once'
      BY <2>1, <2>2, <2>3, <2>5 DEF Joins, Begins, Closes, Asked, StreamInv, Once
    <2> QED
      BY <2>6 DEF StreamInv
  <1> QED
    BY <1>1, <1>2, <1>3

(* The server goes on by one token, or by two. *)
LEMMA OneMore ==
    ASSUME BasicInv, NEW q, Joins(q), NEW t \in Tokens, Says(<<t>>), NEW s \in States,
           Goes(q[Len(toClient) + 1], t, s, since),
           UNCHANGED <<client, since>>, Once', Closes(s)',
           SomeQuiet(q, Len(toClient) + 1) \/ s.reads \in Quiet => ~Asked' /\ owing' = 0
    PROVE  StreamInv'
  <1>1. toClient \in Seq(Tokens) /\ toClient' = Append(toClient, t)
    BY SaysOne DEF BasicInv, WireType
  <1>2. PICK p :
          /\ Run(p, toClient', since)
          /\ p[1] = q[1] /\ p[Len(toClient') + 1] = s
          /\ SomeQuiet(p, Len(toClient') + 1) => SomeQuiet(q, Len(toClient) + 1) \/ s.reads \in Quiet
    BY <1>1, RunAppend DEF Joins
  <1>3. Joins(p)'
    BY <1>2 DEF Joins, Begins
  <1> QED
    BY <1>3 DEF StreamInv

LEMMA TwoMore ==
    ASSUME BasicInv, NEW q, Joins(q), NEW t \in Tokens, NEW u \in Tokens, Says(<<t, u>>),
           NEW s \in States, NEW to \in States,
           Goes(q[Len(toClient) + 1], t, s, since), Goes(s, u, to, since),
           UNCHANGED <<client, since>>, Once', Closes(to)',
           SomeQuiet(q, Len(toClient) + 1) \/ s.reads \in Quiet \/ to.reads \in Quiet
                => ~Asked' /\ owing' = 0
    PROVE  StreamInv'
  <1> DEFINE more == Append(toClient, t)
  <1>1. /\ toClient \in Seq(Tokens) /\ more \in Seq(Tokens)
        /\ toClient' = Append(more, u)
    BY SaysTwo DEF BasicInv, WireType
  <1>2. PICK p :
          /\ Run(p, more, since)
          /\ p[1] = q[1] /\ p[Len(more) + 1] = s
          /\ SomeQuiet(p, Len(more) + 1) => SomeQuiet(q, Len(toClient) + 1) \/ s.reads \in Quiet
    BY <1>1, RunAppend DEF Joins
  <1> HIDE DEF more
  <1>3. PICK o :
          /\ Run(o, toClient', since)
          /\ o[1] = p[1] /\ o[Len(toClient') + 1] = to
          /\ SomeQuiet(o, Len(toClient') + 1) => SomeQuiet(p, Len(more) + 1) \/ to.reads \in Quiet
    BY <1>1, <1>2, RunAppend
  <1>4. Joins(o)'
    BY <1>2, <1>3 DEF Joins, Begins
  <1> QED
    BY <1>4 DEF StreamInv

LEMMA MessageParts ==
    ASSUME NEW type, NEW count
    PROVE  /\ Message(type, count).kind = "message"
           /\ Message(type, count).value.type = type
           /\ Message(type, count).value.count = count
  BY DEF Message, Token

LEMMA AnyState ==
    ASSUME NEW mode \in Live \cup {"skips", "lost"}, NEW n \in 0..MaxRects, NEW r \in Regions
    PROVE  \E s \in States : s.reads = mode /\ s.rects = n /\ s.region = r
  <1>1. [reads |-> mode, rects |-> n, region |-> r] \in States
    BY DEF States
  <1> QED
    BY <1>1

(* What the server says in the session. *)
LEMMA SessionTokens ==
    /\ \A type \in {"update", "bell", "colours", "cut", "other"}, n \in 0..MaxRects + 1 :
            Message(type, n) \in Tokens
    /\ \A type \in {"colours", "cut", "other", "bell"}, n \in {0, 1, 2} : Message(type, n) \in Tokens
    /\ Token("payload", "bytes") \in Tokens
    /\ \A r \in Regions, shape \in {"raw", "empty", "outside", "encoded"} :
            Token("rect", [shape |-> shape, region |-> r]) \in Tokens
    /\ \A l \in Looks : Token("pixels", l) \in Tokens /\ Token("encoded", l) \in Tokens
  <1>1. /\ \A type \in {"update", "bell", "colours", "cut", "other"}, n \in Nat :
                Message(type, n) \in Tokens
    BY DEF Message, Tokens, Token
  <1>2. Token("payload", "bytes") \in Tokens
    BY DEF Tokens, Token, Words
  <1>3. \A r \in Regions, shape \in {"raw", "empty", "outside", "encoded"} :
            Token("rect", [shape |-> shape, region |-> r]) \in Tokens
    BY DEF Tokens, Token
  <1>4. \A l \in Looks : Token("pixels", l) \in Tokens /\ Token("encoded", l) \in Tokens
    BY DEF Tokens, Token
  <1>5. \A n \in 0..MaxRects + 1 : n \in Nat
    BY Numbers
  <1> QED
    BY <1>1, <1>2, <1>3, <1>4, <1>5

LEMMA RectParts ==
    ASSUME NEW shape, NEW r
    PROVE  LET t == Token("rect", [shape |-> shape, region |-> r])
           IN  t.kind = "rect" /\ t.value.shape = shape /\ t.value.region = r
  BY DEF Token

LEMMA BeginStream ==
    ASSUME BasicInv, TalkInv, StreamInv, pc \in Live, BeginUpdate
    PROVE  StreamInv'
  <1>1. PICK n \in 0..MaxRects + 1 : Says(<<Message("update", n)>>) /\ owing' = n
    BY DEF BeginUpdate
  <1>2. /\ stage = "serving" /\ pending /\ owing = 0 /\ pending' = FALSE /\ ~gone
        /\ UNCHANGED <<client, toServer, gone, stage, asked, since>>
    BY <1>1 DEF BeginUpdate, Says
  <1>3. PICK q : Joins(q)
    BY DEF StreamInv
  <1>4. Asked /\ toServer # <<"request">> /\ ~Asked'
    BY <1>2 DEF StreamInv, Once, Asked
  <1>5. ~SomeQuiet(q, Len(toClient) + 1)
    BY <1>3, <1>4 DEF Joins
  <1> DEFINE a == q[Len(toClient) + 1]
  <1>6. a.reads = "lost" \/ a.reads = "message"
    BY <1>2, <1>3, <1>4 DEF Joins, Closes
  <1> HIDE DEF a
  <1>7. PICK s \in States : /\ Goes(a, Message("update", n), s, since)
                            /\ \/ s.reads = "lost"
                               \/ s.reads = "rect" /\ s.rects = n /\ n > 0
    <2>1. region \in Regions /\ MaxRects \in Nat
      BY Numbers DEF BasicInv, TypeOK
    <2>2. CASE a.reads = "lost"
      <3>1. PICK s \in States : s.reads = "lost"
        BY <2>1, Numbers, AnyState
      <3> QED
        BY <2>2, <3>1 DEF Goes
    <2>3. CASE a.reads = "message" /\ n \in 1..MaxRects
      <3>1. n \in 0..MaxRects /\ n > 0
        BY <2>1, <2>3
      <3>2. PICK s \in States : s.reads = "rect" /\ s.rects = n
        BY <2>1, <3>1, AnyState DEF Live, Session
      <3> QED
        BY <2>3, <3>1, <3>2, MessageParts DEF Goes, GoesOn
    <2>4. CASE a.reads = "message" /\ n \notin 1..MaxRects
      <3>1. PICK s \in States : s.reads = "lost"
        BY <2>1, Numbers, AnyState
      <3> QED
        BY <2>4, <3>1, MessageParts DEF Goes, GoesOn
    <2> QED
      BY <1>6, <2>2, <2>3, <2>4
  <1>8. s.reads \notin Quiet
    BY <1>7 DEF Quiet
  <1>9. Once' /\ Closes(s)'
    BY <1>1, <1>2, <1>4, <1>7 DEF Once, Closes
  <1>10. Message("update", n) \in Tokens
    BY SessionTokens
  <1> QED
    BY <1>1, <1>2, <1>3, <1>5, <1>7, <1>8, <1>9, <1>10, OneMore DEF a

LEMMA RectStream ==
    ASSUME BasicInv, TalkInv, PaintInv, StreamInv, pc \in Live, SendRect
    PROVE  StreamInv'
  <1>1. /\ owing > 0 /\ owing' = owing - 1 /\ ~gone
        /\ UNCHANGED <<client, toServer, gone, stage, asked, pending, since>>
    BY DEF SendRect, Says
  <1>2. PICK r \in Regions :
          LET Rect(shape) == Token("rect", [shape |-> shape, region |-> r]) IN
          \/ Says(<<Rect("raw"), Token("pixels", screen[r])>>)
          \/ Says(<<Rect("empty")>>)
          \/ Says(<<Rect("outside"), Token("pixels", screen[r])>>)
          \/ Says(<<Rect("encoded"), Token("encoded", screen[r])>>)
    BY DEF SendRect
  <1>3. PICK q : Joins(q)
    BY DEF StreamInv
  <1>4. stage = "serving" /\ ~Asked /\ ~Asked' /\ Once' /\ owing \in Nat /\ owing' \in Nat
    <2>1. owing \in Nat /\ owing # 0
      <3>1. owing \in 0..MaxRects + 1
        BY DEF BasicInv, TypeOK
      <3>2. owing \in Nat
        BY <3>1, Numbers
      <3> QED
        BY <1>1, <3>2
    <2>2. stage = "serving" /\ ~Asked
      BY <2>1 DEF TalkInv, IdleBefore, StreamInv, Once
    <2> QED
      BY <1>1, <2>1, <2>2 DEF Asked, Once
  <1>5. ~SomeQuiet(q, Len(toClient) + 1)
    BY <1>1, <1>3, <1>4 DEF Joins
  <1>6. pc \in Session
    <2>1. 1 \in 1..Len(toClient) + 1
      <3>1. Len(toClient) \in Nat
        BY LenProperties DEF BasicInv, WireType
      <3> QED
        BY <3>1
    <2>2. q[1].reads = pc /\ q[1].reads \notin Quiet
      BY <1>3, <1>5, <2>1 DEF Joins, Begins, SomeQuiet
    <2> QED
      BY <2>2 DEF Live, Quiet
  <1>7. screen[r] \in since[r] /\ screen[r] \in Looks
    BY <1>6 DEF PaintInv, BasicInv, TypeOK
  <1> DEFINE a == q[Len(toClient) + 1]
  <1>8. \/ a.reads = "lost"
        \/ a.reads = "rect" /\ a.rects = owing /\ owing \in 1..MaxRects
    <2>1. \/ a.reads = "lost"
          \/ a.reads = "rect" /\ a.rects = owing
      BY <1>1, <1>3, <1>4 DEF Joins, Closes
    <2>2. a \in States
      <3>1. Len(toClient) \in Nat
        BY LenProperties DEF BasicInv, WireType
      <3>2. Len(toClient) + 1 \in 1..Len(toClient) + 1
        BY <3>1
      <3> QED
        BY <1>3, <3>2 DEF Joins, Run
    <2>3. a.rects \in 0..MaxRects
      BY <2>2 DEF States
    <2> QED
      BY <1>1, <1>4, <2>1, <2>3, Numbers
  <1>9. PICK lost \in States : lost.reads = "lost"
    BY Numbers, AnyState DEF BasicInv, TypeOK
  <1>10. lost.reads \notin Quiet /\ Closes(lost)'
    BY <1>9 DEF Quiet, Closes
  <1>11. ASSUME a.reads = "rect"
         PROVE  \E s \in States : \E to \in States :
                  /\ s.reads = "pixels" /\ s.rects = a.rects /\ s.region = r
                  /\ Rest(a, to) /\ Rest(s, to)
                  /\ Closes(to)'
                  /\ to.reads \in Quiet => owing' = 0
    <2>1. a.rects = owing /\ owing \in 1..MaxRects /\ MaxRects \in Nat
      BY <1>8, <1>11, Numbers
    <2>2. owing \in 0..MaxRects /\ owing - 1 \in 0..MaxRects
      BY <2>1
    <2>3. PICK s \in States : s.reads = "pixels" /\ s.rects = owing /\ s.region = r
      BY <2>2, AnyState DEF Live, Session
    <2>4. CASE owing = 1
      <3>1. PICK to \in States : to.reads = "ready"
        BY <2>2, AnyState DEF Live
      <3>2. owing' = 0
        BY <1>1, <2>4
      <3>3. Closes(to)'
        BY <1>1, <1>4, <3>1, <3>2 DEF Closes
      <3> QED
        BY <2>1, <2>3, <2>4, <3>1, <3>2, <3>3 DEF Rest
    <2>5. CASE owing > 1
      <3>1. PICK to \in States : to.reads = "rect" /\ to.rects = owing - 1
        BY <2>2, AnyState DEF Live, Session
      <3>2. owing' > 0 /\ owing' = owing - 1
        BY <1>1, <2>1, <2>5
      <3>3. Closes(to)'
        BY <1>1, <1>4, <3>1, <3>2 DEF Closes
      <3>4. to.reads \notin Quiet
        BY <3>1 DEF Quiet
      <3> QED
        BY <2>1, <2>3, <2>5, <3>1, <3>3, <3>4 DEF Rest
    <2> QED
      BY <2>1, <2>4, <2>5
  <1> HIDE DEF a
  <1> DEFINE Rect(shape) == Token("rect", [shape |-> shape, region |-> r])
             pix == Token("pixels", screen[r])
             enc == Token("encoded", screen[r])
  <1>12. /\ \A shape \in {"raw", "empty", "outside", "encoded"} :
                /\ Rect(shape) \in Tokens
                /\ Rect(shape).kind = "rect" /\ Rect(shape).value.shape = shape
                /\ Rect(shape).value.region = r
         /\ pix \in Tokens /\ pix.kind = "pixels" /\ pix.value = screen[r]
         /\ enc \in Tokens
    BY <1>7, SessionTokens, RectParts, TokenParts
  <1>13. \/ Says(<<Rect("raw"), pix>>) \/ Says(<<Rect("empty")>>)
         \/ Says(<<Rect("outside"), pix>>) \/ Says(<<Rect("encoded"), enc>>)
    BY <1>2
  <1> HIDE DEF Rect, pix, enc
  <1>14. CASE a.reads = "lost"
    <2>1. \A t : Goes(a, t, lost, since) /\ Goes(lost, t, lost, since)
      BY <1>9, <1>14 DEF Goes
    <2>2. \A t \in Tokens : Says(<<t>>) => StreamInv'
      BY <1>1, <1>3, <1>4, <1>5, <1>10, <2>1, OneMore DEF a
    <2>3. \A t, u \in Tokens : Says(<<t, u>>) => StreamInv'
      BY <1>1, <1>3, <1>4, <1>5, <1>10, <2>1, TwoMore DEF a
    <2> QED
      BY <1>12, <1>13, <2>2, <2>3
  <1>15. CASE a.reads = "rect"
    <2>1. PICK s \in States, to \in States :
                  /\ s.reads = "pixels" /\ s.rects = a.rects /\ s.region = r
                  /\ Rest(a, to) /\ Rest(s, to)
                  /\ Closes(to)'
                  /\ to.reads \in Quiet => owing' = 0
      BY <1>11, <1>15
    <2>2. CASE Says(<<Rect("raw"), pix>>)
      <3>1. Goes(a, Rect("raw"), s, since)
        BY <1>12, <1>15, <2>1 DEF Goes, Paints
      <3>2. Goes(s, pix, to, since)
        BY <1>7, <1>12, <2>1 DEF Goes
      <3>3. s.reads \notin Quiet
        BY <2>1 DEF Quiet
      <3> QED
        BY <1>1, <1>3, <1>4, <1>5, <1>12, <2>1, <2>2, <3>1, <3>2, <3>3, TwoMore DEF a
    <2>3. CASE Says(<<Rect("empty")>>)
      <3>1. Goes(a, Rect("empty"), to, since)
        BY <1>12, <1>15, <2>1 DEF Goes, Paints
      <3> QED
        BY <1>1, <1>3, <1>4, <1>5, <1>12, <2>1, <2>3, <3>1, OneMore DEF a
    <2>4. CASE Says(<<Rect("outside"), pix>>) \/ Says(<<Rect("encoded"), enc>>)
      <3>1. Goes(a, Rect("outside"), lost, since) /\ Goes(a, Rect("encoded"), lost, since)
        BY <1>9, <1>12, <1>15 DEF Goes, Paints
      <3>2. \A t : Goes(lost, t, lost, since)
        BY <1>9 DEF Goes
      <3> QED
        BY <1>1, <1>3, <1>4, <1>5, <1>9, <1>10, <1>12, <2>4, <3>1, <3>2, TwoMore DEF a
    <2> QED
      BY <1>13, <2>2, <2>3, <2>4
  <1> QED
    BY <1>8, <1>14, <1>15

LEMMA NoiseStream ==
    ASSUME BasicInv, TalkInv, StreamInv, pc \in Live, Noise
    PROVE  StreamInv'
  <1>1. /\ stage = "serving" /\ owing = 0 /\ ~gone
        /\ UNCHANGED <<client, toServer, gone, server, ghosts>>
    BY DEF Noise, Says
  <1>2. PICK q : Joins(q)
    BY DEF StreamInv
  <1>3. Once' /\ Asked' = Asked /\ owing' = 0
    BY <1>1 DEF StreamInv, Once, Asked
  <1>4. SomeQuiet(q, Len(toClient) + 1) => ~Asked' /\ owing' = 0
    BY <1>2, <1>3 DEF Joins
  <1> DEFINE a == q[Len(toClient) + 1]
             bytes == Token("payload", "bytes")
  <1>5. a.reads = "lost" \/ a.reads = IF Asked THEN "message" ELSE "ready"
    BY <1>1, <1>2 DEF Joins, Closes
  <1>6. \A m \in Live \cup {"skips", "lost"} : \E s \in States : s.reads = m
    BY Numbers, AnyState DEF BasicInv, TypeOK
  <1>7. PICK lost \in States : lost.reads = "lost"
    BY <1>6
  <1>8. PICK calm \in States : calm.reads = IF Asked THEN "message" ELSE "ready"
    BY <1>6 DEF Live, Session
  <1>9. PICK skip \in States : skip.reads = IF Asked THEN "payload" ELSE "skips"
    BY <1>6 DEF Live, Session
  <1>10. /\ lost.reads \notin Quiet /\ Closes(lost)' /\ Closes(calm)'
         /\ calm.reads \in Quiet => ~Asked' /\ owing' = 0
         /\ skip.reads \in Quiet => ~Asked' /\ owing' = 0
    BY <1>1, <1>3, <1>7, <1>8, <1>9 DEF Quiet, Closes
  <1>11. /\ \A type \in {"colours", "cut", "other", "bell"}, n \in {0, 1, 2} :
                Message(type, n) \in Tokens
         /\ bytes \in Tokens /\ bytes.kind = "payload"
    BY SessionTokens, TokenParts
  <1>12. \/ \E type \in {"bell", "colours", "cut"} : Says(<<Message(type, 0)>>)
         \/ \E type \in {"colours", "cut"} : Says(<<Message(type, 1), bytes>>)
         \/ Says(<<Message("cut", 2), bytes>>)
         \/ Says(<<Message("other", 0), bytes>>)
    BY DEF Noise
  <1> HIDE DEF a, bytes
  <1>13. CASE a.reads = "lost"
    <2>1. \A t : Goes(a, t, lost, since) /\ Goes(lost, t, lost, since)
      BY <1>7, <1>13 DEF Goes
    <2>2. \A t \in Tokens : Says(<<t>>) => StreamInv'
      BY <1>1, <1>2, <1>3, <1>4, <1>10, <2>1, OneMore DEF a
    <2>3. \A t, u \in Tokens : Says(<<t, u>>) => StreamInv'
      BY <1>1, <1>2, <1>3, <1>4, <1>10, <2>1, TwoMore DEF a
    <2> QED
      BY <1>11, <1>12, <2>2, <2>3
  <1>14. CASE a.reads = IF Asked THEN "message" ELSE "ready"
    <2>1. a.reads \in {"ready", "message"} /\ a.reads = calm.reads
          /\ skip.reads = IF a.reads = "ready" THEN "skips" ELSE "payload"
      BY <1>8, <1>9, <1>14
    <2>2. ASSUME NEW type \in {"bell", "colours", "cut"}, Says(<<Message(type, 0)>>)
          PROVE  StreamInv'
      <3>1. Goes(a, Message(type, 0), calm, since)
        BY <2>1, MessageParts DEF Goes, GoesOn
      <3> QED
        BY <1>1, <1>2, <1>3, <1>4, <1>10, <1>11, <2>2, <3>1, OneMore DEF a
    <2>3. ASSUME NEW type \in {"colours", "cut"}, Says(<<Message(type, 1), bytes>>)
          PROVE  StreamInv'
      <3>1. Goes(a, Message(type, 1), skip, since)
        BY <2>1, MessageParts DEF Goes, GoesOn
      <3>2. Goes(skip, bytes, calm, since)
        BY <1>11, <2>1 DEF Goes
      <3> QED
        BY <1>1, <1>2, <1>3, <1>4, <1>10, <1>11, <2>3, <3>1, <3>2, TwoMore DEF a
    <2>4. ASSUME Says(<<Message("cut", 2), bytes>>) \/ Says(<<Message("other", 0), bytes>>)
          PROVE  StreamInv'
      <3>1. Goes(a, Message("cut", 2), lost, since) /\ Goes(a, Message("other", 0), lost, since)
        BY <1>7, <2>1, MessageParts DEF Goes, GoesOn
      <3>2. Goes(lost, bytes, lost, since)
        BY <1>7 DEF Goes
      <3> QED
        BY <1>1, <1>2, <1>3, <1>4, <1>7, <1>10, <1>11, <2>4, <3>1, <3>2, TwoMore DEF a
    <2> QED
      BY <1>12, <2>2, <2>3, <2>4
  <1> QED
    BY <1>5, <1>13, <1>14

LEMMA ServerStream ==
    ASSUME BasicInv, TalkInv, PaintInv, StreamInv, Server
    PROVE  StreamInv'
  <1>1. UNCHANGED <<client, since>>
    BY ServerResult
  <1>2. SUFFICES ASSUME pc \in Live PROVE StreamInv'
    BY <1>1 DEF StreamInv
  <1>3. /\ stage = "serving" \/ (stage = "client_init" /\ pc = "init" /\ toServer = <<"client_init">>)
        /\ Heard
    BY <1>2 DEF TalkInv, Agreed, Waits, Live
  <1>4. PICK q : Joins(q)
    BY <1>2 DEF StreamInv
  <1>5. ~Greet /\ ~Offer /\ ~Challenge /\ ~Judge
    BY <1>3 DEF Greet, Offer, Challenge, Judge
  <1>6. CASE Introduce
    <2>1. /\ stage = "client_init" /\ stage' = "serving" /\ toServer' = <<>> /\ ~gone
          /\ UNCHANGED <<pending, owing>>
      BY <1>6, OneWord DEF Introduce, Says, Messages
    <2>2. PICK v \in {"ok", "no area", "long name"} : Says(<<Token("init", v)>>)
      BY <1>6 DEF Introduce
    <2>3. ~pending /\ owing = 0 /\ ~pending' /\ owing' = 0
      BY <2>1 DEF TalkInv, IdleBefore
    <2>4. ~Asked' /\ Once'
      <3>1. <<>> # <<"request">>
        OBVIOUS
      <3> QED
        BY <2>1, <2>3, <3>1 DEF Asked, Once
    <2> DEFINE a == q[Len(toClient) + 1]
               t == Token("init", v)
    <2>5. a.reads = "lost" \/ a.reads = "init"
      BY <1>4, <2>1 DEF Joins, Closes
    <2>6. t \in Tokens /\ t.kind = "init" /\ t.value = v
      BY Spoken, TokenParts
    <2>7. PICK s \in States :
            s.reads = IF a.reads = "init" /\ v = "ok" THEN "ready" ELSE "lost"
      <3>1. \A m \in {"ready", "lost"} : \E s \in States : s.reads = m
        BY Numbers, AnyState DEF BasicInv, TypeOK, Live
      <3> QED
        BY <3>1
    <2>8. Says(<<t>>)
      BY <2>2
    <2> HIDE DEF t, a
    <2>9. Goes(a, t, s, since)
      BY <2>5, <2>6, <2>7 DEF Goes
    <2>10. Closes(s)'
      BY <2>1, <2>3, <2>4, <2>7 DEF Closes
    <2> QED
      BY <1>1, <1>4, <2>3, <2>4, <2>6, <2>8, <2>9, <2>10, OneMore DEF a
  <1>7. CASE Listen
    <2>1. /\ toServer # <<>> /\ toServer' = Tail(toServer)
          /\ UNCHANGED <<toClient, gone, stage, owing>>
          /\ \/ Head(toServer) # "request" /\ UNCHANGED pending
             \/ Head(toServer) = "request" /\ pending' = TRUE
      BY <1>7 DEF Listen, Hears, Settings
    <2>2. \/ toServer = <<"request">> /\ toServer' = <<>> /\ pending' = TRUE
          \/ toServer # <<"request">> /\ toServer' # <<"request">> /\ UNCHANGED pending
      <3>1. CASE toServer = <<"request">>
        BY <2>1, <3>1, Words1
      <3>2. CASE \E m \in {"version", "vnc", "none", "response", "client_init", "encodings", "key_up"} :
                    toServer = <<m>>
        <4>1. PICK m \in {"version", "vnc", "none", "response", "client_init", "encodings", "key_up"} :
                    toServer = <<m>>
          BY <3>2
        <4>2. Head(toServer) = m /\ toServer' = <<>>
          BY <2>1, <4>1, Words1
        <4>3. toServer # <<"request">> /\ <<>> # <<"request">>
          BY <4>1
        <4> QED
          BY <2>1, <4>1, <4>2, <4>3
      <3>3. ASSUME NEW m \in {"pixel_format", "key_down"}, NEW n \in {"encodings", "key_up"},
                   toServer = <<m, n>>
            PROVE  toServer # <<"request">> /\ toServer' # <<"request">> /\ UNCHANGED pending
        <4>1. Head(toServer) = m /\ toServer' = <<n>>
          BY <2>1, <3>3, Words1
        <4> QED
          BY <2>1, <3>3, <4>1
      <3>4. \/ toServer = <<"request">>
            \/ \E m \in {"version", "vnc", "none", "response", "client_init", "encodings", "key_up"} :
                    toServer = <<m>>
            \/ \E m \in {"pixel_format", "key_down"}, n \in {"encodings", "key_up"} :
                    toServer = <<m, n>>
        BY <1>3, <2>1 DEF Heard
      <3> QED
        BY <3>1, <3>2, <3>3, <3>4
    <2>3. Asked' = Asked
      BY <2>2 DEF Asked
    <2>4. <<>> # <<"request">>
      OBVIOUS
    <2>5. Once'
      BY <1>2, <2>1, <2>2, <2>3, <2>4 DEF StreamInv, Once
    <2>6. Joins(q)'
      BY <1>1, <1>4, <2>1, <2>3 DEF Joins, Begins, Closes
    <2> QED
      BY <2>5, <2>6 DEF StreamInv
  <1>8. CASE Vanish
    <2>1. /\ gone' = TRUE /\ UNCHANGED <<toServer, server>>
      BY <1>8 DEF Vanish
    <2>2. PICK n \in 0..Len(toClient) :
            /\ Len(toClient) \in Nat
            /\ toClient' \in Seq(Tokens) /\ Len(toClient') = n
            /\ \A i \in 1..n : toClient'[i] = toClient[i]
      BY <1>8, VanishResult
    <2>3. PICK p :
            /\ Run(p, toClient', since)
            /\ p[1] = q[1]
            /\ SomeQuiet(p, Len(toClient') + 1) => SomeQuiet(q, Len(toClient) + 1)
      <3>1. toClient \in Seq(Tokens) /\ Len(toClient') <= Len(toClient)
        BY <2>2 DEF BasicInv, WireType
      <3> QED
        BY <1>4, <2>2, <3>1, RunPrefix DEF Joins
    <2>4. Joins(p)'
      BY <1>1, <1>4, <2>1, <2>3 DEF Joins, Begins, Asked
    <2>5. Once'
      BY <1>2, <2>1 DEF StreamInv, Once, Asked
    <2> QED
      BY <2>4, <2>5 DEF StreamInv
  <1> QED
    BY <1>2, <1>5, <1>6, <1>7, <1>8, BeginStream, RectStream, NoiseStream DEF Server

LEMMA StreamStep ==
    BasicInv /\ TalkInv /\ PaintInv /\ StreamInv /\ [Next]_vars => PaintInv' /\ StreamInv'
  <1> SUFFICES ASSUME BasicInv, TalkInv, PaintInv, StreamInv, [Next]_vars
               PROVE  PaintInv' /\ StreamInv'
    OBVIOUS
  <1>1. PixelsAreFresh
    BY StreamShows DEF PixelsAreFresh, Live, Session
  <1>2. PaintInv'
    BY <1>1, PaintStep
  <1>3. ASSUME UNCHANGED vars PROVE StreamInv'
    <2>u. /\ UNCHANGED <<pc, rects, region, toClient, toServer, gone, stage, pending, owing>>
          /\ UNCHANGED since
      BY <1>3
    <2>1. CASE pc \notin Live
      BY <2>u, <2>1 DEF StreamInv
    <2>2. CASE pc \in Live
      <3>1. PICK q : Joins(q)
        BY <2>2 DEF StreamInv
      <3>2. Joins(q)' /\ Once'
        BY <2>u, <2>2, <3>1 DEF StreamInv, Joins, Begins, Closes, Asked, Once
      <3> QED
        BY <3>2 DEF StreamInv
    <2> QED
      BY <1>2, <2>1, <2>2
  <1> QED
    BY <1>2, <1>3, ReadingStream, OwnStream, ServerStream DEF Next, Client, Caller, Reading

LEMMA StreamInvariant == Spec => [](PaintInv /\ StreamInv)
  <1>1. Init => PaintInv /\ StreamInv
    BY DEF Init, PaintInv, StreamInv, Live, Session
  <1> QED
    BY <1>1, StreamStep, BasicInvariant, TalkInvariant, PTL DEF Spec

(* The client never takes payload for a header, nor a header for payload,  *)
(* for any server that frames its messages and whatever the client skips,  *)
(* tolerates or refuses.                                                   *)
THEOREM ClientKeepsStep == Spec => []InSync
  <1>1. ASSUME BasicInv, TalkInv, StreamInv PROVE InSync
    <2>1. SUFFICES ASSUME pc \in Reads, toClient # <<>> PROVE Head(toClient).kind = pc
      BY DEF InSync
    <2>2. CASE pc \in Live
      <3>1. pc \in Live \ {"ready"}
        BY <2>1, <2>2 DEF Reads
      <3> QED
        BY <1>1, <2>1, <3>1, StreamShows
    <2>3. CASE pc \notin Live
      <3>1. Head(toClient) = toClient[1] /\ 1 <= Len(toClient)
        <4>1. toClient \in Seq(Tokens) /\ Len(toClient) \in Nat \ {0}
          BY <1>1, <2>1, EmptySeq DEF BasicInv, WireType
        <4> QED
          BY <4>1, ElementOfSeq
      <3>2. pc \in {"banner", "types", "reason", "challenge", "result"}
        BY <2>1, <2>3 DEF Reads, Live, Session
      <3> QED
        BY <1>1, <2>1, <3>1, <3>2 DEF TalkInv, Agreed, Waits, Told, Refused
    <2> QED
      BY <2>2, <2>3
  <1> QED
    BY <1>1, BasicInvariant, TalkInvariant, StreamInvariant, PTL

(* A frame shows in every region what the screen showed there between the  *)
(* request and the end of the update, or nothing.                          *)
THEOREM FramesAreFresh == Spec => []FrameIsFresh
  <1>1. PaintInv => FrameIsFresh
    BY DEF PaintInv, FrameIsFresh
  <1> QED
    BY <1>1, StreamInvariant, PTL
=============================================================================

-------------------------- MODULE UpgradeHandshake --------------------------
(* One WebSocket upgrade: handle_upgrade of src/proxy/websocket.rs from the   *)
(* connection to the app until both sides have closed.  What travels is a     *)
(* sequence of units: those of the response's head, then frames or a body.    *)
(* A read returns any number of units that have arrived, up to a buffer full. *)
EXTENDS Naturals, SequencesExt

CONSTANTS
  Heads,      \* lengths of the heads the app may send
  Bodies,     \* how many units it may send after the head
  FromClient, \* how many units the client sends once it is upgraded
  Chunk,      \* units a read takes at most, 4096 bytes and 8192 in the drain
  Limit       \* units of head after which it is too large, 65536 bytes

ASSUME UpgradeAssumption ==
  /\ Heads \subseteq Nat \ {0} /\ Bodies \subseteq Nat
  /\ FromClient \in Nat /\ Chunk \in Nat \ {0} /\ Limit \in Nat

VARIABLES
  status,   \* the status the app answers with: 101, another, or 0 if that cannot
            \* be read
  valid,    \* hyper accepts the headers it answers with
  text,     \* the units the app sends, head and rest
  head,     \* how many of them are the head
  wire,     \* those on the way to the proxy
  sent,     \* how many the app has sent
  appEnd,   \* the app's side: "open", "closed" (its end is sent) or "reset"
  at,       \* where handle_upgrade, and then the task it spawns, is
  buf,      \* resp_buf, and then body_data
  answer,   \* the status of the answer to the client, 0 while there is none; a
            \* refusal's body is in buf
  end,      \* why the drain of a refusal's body ended
  toClient, \* what the client got after the head of a 101
  up,       \* what the client has still to send through the tunnel
  toApp,    \* what the app got of it
  client    \* the client's side: "open", "closed" or "gone"

vars == <<status, valid, text, head, wire, sent, appEnd, at, buf, answer, end,
          toClient, up, toApp, client>>
app    == <<status, valid, text, head, wire, sent, appEnd>>
tunnel == <<toClient, up, toApp, client>>

None == "none"
Unit(n) == [i \in 1 .. n |-> i]

Init ==
  /\ status \in {0, 101, 403} /\ valid \in BOOLEAN
  /\ \E h \in Heads, b \in Bodies : head = h /\ text = Unit(h + b)
  /\ wire = <<>> /\ sent = 0 /\ appEnd = "open"
  /\ at = "connect" /\ buf = <<>> /\ answer = 0 /\ end = None
  /\ toClient = <<>> /\ up = Unit(FromClient) /\ toApp = <<>> /\ client = "open"

-----------------------------------------------------------------------------
(* The app: it answers once it is asked, in pieces, and may stop anywhere.    *)
Asked == at \notin {"connect", "write"}

(* Frames may come right behind the head of a 101: nothing waits for it.      *)
AppSends ==
  /\ Asked /\ appEnd = "open" /\ sent < Len(text)
  /\ wire' = Append(wire, text[sent + 1]) /\ sent' = sent + 1
  /\ UNCHANGED <<status, valid, text, head, appEnd, at, buf, answer, end, tunnel>>

AppEnds ==
  /\ appEnd = "open" /\ appEnd' \in {"closed", "reset"}
  /\ UNCHANGED <<status, valid, text, head, wire, sent, at, buf, answer, end, tunnel>>

-----------------------------------------------------------------------------
(* The handler *)

Answer(a) == answer' = a /\ at' = "answered" /\ UNCHANGED <<app, buf, end, tunnel>>
BadGateway == Answer(502)

Connect ==
  /\ at = "connect"
  /\ \/ appEnd = "open" /\ at' = "write" /\ UNCHANGED <<app, buf, answer, end, tunnel>>
     \/ BadGateway

WriteRequest ==
  /\ at = "write"
  /\ \/ at' = "read" /\ UNCHANGED <<app, buf, answer, end, tunnel>>
     \/ BadGateway

(* A read: what has arrived, at most a buffer full.                           *)
Take(n) == /\ n \in 1 .. Chunk /\ n <= Len(wire)
           /\ buf' = buf \o SubSeq(wire, 1, n) /\ wire' = SubSeq(wire, n + 1, Len(wire))
           /\ UNCHANGED <<status, valid, text, head, sent, appEnd>>

(* parse_upstream_response finds the end of the head, and a status.           *)
Parsed(b) == status # 0 /\ Len(b) >= head

(* Mutant: the limit is looked at before the head.                            *)
AfterReadLimitFirst(b) ==
  CASE Len(b) > Limit -> "too large" [] Parsed(b) -> "parsed" [] OTHER -> "read"

(* The limit is looked at only if the head is not complete.                   *)
AfterRead(b) ==
  CASE Parsed(b) -> "parsed" [] ~Parsed(b) /\ Len(b) > Limit -> "too large" [] OTHER -> "read"

ReadHead ==
  /\ at = "read" /\ \E n \in 1 .. Chunk : Take(n)
  /\ at' = AfterRead(buf')
  /\ UNCHANGED <<answer, end, tunnel>>

(* Mutant: the end of the stream is taken for an empty read.                  *)
HeadCutOffByReset == at = "read" /\ wire = <<>> /\ appEnd = "reset" /\ BadGateway

(* Upstream has closed, or reset, the connection before the head is complete. *)
HeadCutOff == at = "read" /\ wire = <<>> /\ appEnd # "open" /\ BadGateway

HeadTooLarge == at = "too large" /\ BadGateway

(* Another status than 101: the body is read until the app closes, the        *)
(* connection fails, or nothing comes for 100 ms.                             *)
Refused ==
  /\ at = "parsed" /\ status # 101
  /\ at' = "drain" /\ buf' = SubSeq(buf, head + 1, Len(buf))
  /\ UNCHANGED <<app, answer, end, tunnel>>

Drain == /\ at = "drain" /\ \E n \in 1 .. Chunk : Take(n)
         /\ UNCHANGED <<at, answer, end, tunnel>>

(* Mutant: the bytes behind the head are not kept.                            *)
DrainEndsWithoutRest ==
  /\ at = "drain" /\ wire = <<>> /\ valid
  /\ end' = IF appEnd = "open" THEN "pause" ELSE appEnd
  /\ answer' = status /\ buf' = SelectSeq(buf, LAMBDA u : u > head + 1)
  /\ at' = "answered" /\ UNCHANGED <<app, tunnel>>

DrainEnds ==
  /\ at = "drain" /\ wire = <<>> /\ valid
  /\ end' = IF appEnd = "open" THEN "pause" ELSE appEnd
  /\ answer' = status
  /\ at' = "answered" /\ UNCHANGED <<app, buf, tunnel>>

(* 101: the head is handed to hyper, and a task waits for the connection.     *)
Upgraded ==
  /\ at = "parsed" /\ status = 101 /\ valid
  /\ answer' = 101 /\ at' = "extra" /\ buf' = SubSeq(buf, head + 1, Len(buf))
  /\ UNCHANGED <<app, end, tunnel>>

(* A header that hyper does not accept makes body().unwrap() panic, which     *)
(* ends the client's connection; a refusal is drained first.                  *)
Panic == /\ \/ at = "parsed" /\ status = 101
            \/ at = "drain" /\ wire = <<>>
         /\ ~valid /\ at' = "panicked"
         /\ UNCHANGED <<app, buf, answer, end, tunnel>>

-----------------------------------------------------------------------------
(* The spawned task *)

(* Mutant: the pipe is opened without what came behind the head.              *)
ExtraDropped ==
  /\ at = "extra" /\ client # "gone" /\ at' = "pipe" /\ buf' = <<>>
  /\ UNCHANGED <<app, answer, end, tunnel>>

(* extra_data is written first.                                               *)
Extra ==
  /\ at = "extra" /\ client # "gone"
  /\ toClient' = toClient \o buf /\ buf' = <<>> /\ at' = "pipe"
  /\ UNCHANGED <<app, answer, end, up, toApp, client>>

(* copy_bidirectional, either way.                                            *)
PipeDown ==
  /\ at = "pipe" /\ client # "gone" /\ wire # <<>>
  /\ toClient' = Append(toClient, Head(wire)) /\ wire' = Tail(wire)
  /\ UNCHANGED <<status, valid, text, head, sent, appEnd, at, buf, answer, end, up, toApp, client>>

PipeUp ==
  /\ at = "pipe" /\ client # "gone" /\ appEnd # "reset" /\ up # <<>>
  /\ toApp' = Append(toApp, Head(up)) /\ up' = Tail(up)
  /\ UNCHANGED <<app, at, buf, answer, end, toClient, client>>

(* Both ends are read to their end, or one has failed: both are dropped.      *)
PipeEnds ==
  /\ \/ at = "pipe" /\ wire = <<>> /\ appEnd = "closed" /\ up = <<>> /\ client = "closed"
     \/ at = "pipe" /\ wire = <<>> /\ appEnd = "reset"
     \/ at \in {"extra", "pipe"} /\ client = "gone"
  /\ at' = "over" /\ UNCHANGED <<app, buf, answer, end, tunnel>>

-----------------------------------------------------------------------------
(* The client *)

(* It closes its side when it has sent what it had; its connection may break  *)
(* at any time, which drops the handler with the request.                     *)
ClientCloses ==
  /\ answer = 101 /\ client = "open" /\ up = <<>> /\ client' = "closed"
  /\ UNCHANGED <<app, at, buf, answer, end, toClient, up, toApp>>

ClientGone ==
  /\ at \notin {"over", "panicked"} /\ client # "gone" /\ client' = "gone"
  /\ at' = IF at \in {"extra", "pipe"} THEN at ELSE "over"
  /\ UNCHANGED <<app, buf, answer, end, toClient, up, toApp>>

Handler == \/ Connect \/ WriteRequest \/ ReadHead \/ HeadCutOff \/ HeadTooLarge
           \/ Refused \/ Drain \/ DrainEnds \/ Upgraded \/ Panic
           \/ Extra \/ PipeDown \/ PipeUp \/ PipeEnds

Next == AppSends \/ AppEnds \/ Handler \/ ClientCloses \/ ClientGone

Spec == Init /\ [][Next]_vars

(* The proxy reads what has arrived and its timer fires; nothing is asked of  *)
(* the app or the client.                                                     *)
FairSpec == Spec /\ WF_vars(Handler)

-----------------------------------------------------------------------------
(* Properties *)

(* Every variable keeps its type, what is held of the head is bounded by the  *)
(* limit and one read, and no head but a larger one is refused for its size.  *)
UpgradeTypeOK ==
  /\ sent \in 0 .. Len(text) /\ appEnd \in {"open", "closed", "reset"}
  /\ client \in {"open", "closed", "gone"} /\ end \in {None, "pause", "closed", "reset"}
  /\ at \in {"connect", "write", "read", "parsed", "too large", "drain", "answered",
             "panicked", "extra", "pipe", "over"}
  /\ at \in {"read", "parsed", "too large"} => Len(buf) <= Limit + Chunk
  /\ at = "too large" => head > Limit \/ status = 0

(* However the reads cut the app's bytes, none behind the head of a 101 is    *)
(* lost, doubled or overtaken on its way to the client.                       *)
NothingLost ==
  at \in {"extra", "pipe"} =>
    toClient \o buf \o wire = SubSeq(text, head + 1, sent)

(* An answer that refuses the upgrade has the body the app sent: all of it    *)
(* when the app has closed, and what came before a pause of 100 ms otherwise. *)
RefusalWhole ==
  answer = status /\ status \notin {0, 101} =>
    /\ IsPrefix(buf, SubSeq(text, head + 1, Len(text)))
    /\ end = "closed" => buf = SubSeq(text, head + 1, sent)

(* When the app's head is there, or its connection ends, the client gets an   *)
(* answer, if it has not gone and the head can be read and its headers be     *)
(* passed on.                                                                 *)
UpgradeAnswered ==
  Asked /\ ((sent >= head /\ status # 0 /\ valid) \/ (appEnd # "open" /\ sent < head))
    ~> answer # 0 \/ client = "gone"
=============================================================================

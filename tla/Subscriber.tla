------------------------------ MODULE Subscriber ------------------------------
(* zmq::Subscriber: the bytes of a TCP stream put together into fields, the  *)
(* fields into frames and the frames into messages, by the feed task alone.  *)
(*                                                                           *)
(* Contents are left out.  What counts is whether the subscriber stays in    *)
(* step with its peer: whether what it takes for a field is the field the    *)
(* peer sent.  Once it is out of step (lost), flags and lengths are          *)
(* whatever the bytes in their place happen to say.                          *)
EXTENDS Integers, Sequences

CONSTANTS
    MaxFrame,   \* max_frame_size (ZMQ_FRAME_CAP)
    Byte,       \* values of a byte: a longer frame has a length of 8 bytes
    Word,       \* values of a usize
    Lengths,    \* the lengths of the frames a peer sends
    MaxParts    \* bound on the frames of a message

ASSUME SubscriberAssumption ==
    /\ MaxFrame \in Nat /\ Byte \in Nat /\ Word \in Nat
    /\ MaxFrame < Word
    /\ Lengths \subseteq Nat
    /\ MaxParts \in Nat \ {0}

VARIABLES
    at,         \* where the feed task stands, or "panicked"
    field,      \* the field that read_exact fills
    want,       \* buf.len() of read_exact
    filled,
    peer,       \* the frame that is being received
    frames,     \* recv: each frame by its place in its message, a command by 0
    unread,     \* history: bytes of the peer's field that are still to come
    place,      \* history: the place of the peer's next frame in its message
    lost,       \* history: out of step with the peer
    fault       \* history: what the network and the peer did wrong

subscriberVars == <<field, want, filled, peer, frames, unread, place, lost, fault>>

Stages == {"resolve", "connect", "greeting", "send_ready", "ready", "subscribe", "recv",
           "message", "inflate", "parse", "apply", "panicked"}
Faults == {"network", "protocol", "too_large", "over_word"}

Frame  == [command : BOOLEAN, more : BOOLEAN, long : BOOLEAN, len : Lengths]
NoFrame == [command |-> FALSE, more |-> FALSE, long |-> FALSE, len |-> 0]

SubscriberTypeOK ==
    /\ at \in Stages
    /\ field \in {"greeting", "flags", "length", "body"}
    /\ want \in Nat /\ filled \in 0 .. want
    /\ peer \in Frame \cup {NoFrame}
    /\ frames \in Seq(0 .. MaxParts)
    /\ unread \in Nat
    /\ place \in 1 .. MaxParts
    /\ lost \in BOOLEAN
    /\ fault \subseteq Faults

SubscriberInit ==
    /\ at = "resolve"
    /\ field = "greeting" /\ want = 64 /\ filled = 0 /\ unread = 64
    /\ peer = NoFrame
    /\ frames = <<>>
    /\ place = 1
    /\ lost = FALSE
    /\ fault = {}

--------------------------------------------------------------------------------
(* read_exact: the socket gives some of the bytes asked for, or none at the  *)
(* end of the stream, or an error.                                           *)

Reading == at \in {"greeting", "ready", "recv"}

(* Mutation: one read is taken for all of the buffer.                        *)
SocketReadOnce ==
    /\ filled < want
    /\ \E n \in 1 .. want :
          /\ filled' = want
          /\ unread' = IF n < unread THEN unread - n ELSE 0
    /\ UNCHANGED <<at, field, want, peer, frames, place, lost, fault>>

SocketRead ==
    /\ filled < want
    /\ \E n \in 1 .. (want - filled) :
          /\ filled' = filled + n
          /\ unread' = IF n < unread THEN unread - n ELSE 0
    /\ UNCHANGED <<at, field, want, peer, frames, place, lost, fault>>

(* Every error ends in an unwrap of the feed task.                           *)
Panic(f) ==
    /\ at' = "panicked"
    /\ fault' = fault \cup f
    /\ UNCHANGED <<field, want, filled, peer, frames, unread, place, lost>>

(* Io and UnexpectedEof; DNS and connect fail alike.                         *)
NetworkFails ==
    /\ at \in {"resolve", "connect", "send_ready", "subscribe"} \/ Reading
    /\ Panic({"network"})

(* The next field has been asked for: size is its length at the peer.        *)
Expect(f, n, size) ==
    /\ field' = f /\ want' = n /\ filled' = 0
    /\ unread' = size
    /\ lost' = (lost \/ unread # 0)

Full(f) == Reading /\ field = f /\ filled = want

--------------------------------------------------------------------------------
(* handshake and subscribe.                                                  *)

Resolve ==
    /\ at = "resolve" /\ at' = "connect"
    /\ UNCHANGED subscriberVars

(* TCP connect, and the greeting is sent.                                    *)
Connect ==
    /\ at = "connect" /\ at' = "greeting"
    /\ UNCHANGED subscriberVars

ReadGreeting ==
    /\ Full("greeting")
    /\ \/ at' = "send_ready" /\ Expect("flags", 1, 1) /\ UNCHANGED <<peer, frames, place, fault>>
       \/ Panic({"protocol"})    \* InvalidGreeting, UnsupportedMechanism

SendReady ==
    /\ at = "send_ready" /\ at' = "ready"
    /\ UNCHANGED subscriberVars

Subscribe ==
    /\ at = "subscribe" /\ at' = "recv"
    /\ UNCHANGED subscriberVars

--------------------------------------------------------------------------------
(* recv_frame.                                                               *)

(* The peer's next frame shows with its flags.                               *)
ReadFlags ==
    /\ Full("flags")
    /\ \E f \in Frame :
          /\ f.long \/ f.len < Byte
          /\ place = MaxParts => ~f.more
          /\ peer' = f
          /\ IF f.long THEN Expect("length", 8, 8) ELSE Expect("length", 1, 1)
    /\ UNCHANGED <<at, frames, place, fault>>

(* u64::from_be_bytes(buf) as usize                                          *)
Narrowed(len) == len % Word

(* What is wrong with a frame of this length.                                *)
WhatPeerDoes(len) ==
    (IF len > MaxFrame THEN {"too_large"} ELSE {}) \cup (IF len >= Word THEN {"over_word"} ELSE {})

ReadLength ==
    /\ Full("length")
    /\ \/ /\ Narrowed(peer.len) > MaxFrame    \* FrameTooLarge
          /\ Panic(WhatPeerDoes(peer.len))
       \/ /\ Narrowed(peer.len) <= MaxFrame
          /\ Expect("body", Narrowed(peer.len), peer.len)
          /\ fault' = fault \cup WhatPeerDoes(peer.len)
          /\ UNCHANGED <<at, peer, frames, place>>

NextPlace == IF peer.command THEN place ELSE IF peer.more THEN place + 1 ELSE 1

(* The READY of the peer.                                                    *)
ReadReady ==
    /\ Full("body") /\ at = "ready"
    /\ \/ /\ peer.command
          /\ at' = "subscribe" /\ Expect("flags", 1, 1)
          /\ peer' = NoFrame
          /\ UNCHANGED <<frames, place, fault>>
       \/ ~peer.command /\ Panic({"protocol"})    \* UnexpectedCommand

(* Mutation: a command between the parts of a message is taken for a part.   *)
RecvFrameAndCommands ==
    /\ Full("body") /\ at = "recv"
    /\ Expect("flags", 1, 1)
    /\ peer' = NoFrame /\ place' = NextPlace
    /\ frames' = Append(frames, IF peer.command THEN 0 ELSE place)
    /\ at' = IF peer.command \/ peer.more THEN "recv" ELSE "message"
    /\ UNCHANGED fault

(* One turn of recv's loop: a command is skipped, the last part is returned  *)
(* with those before it.                                                     *)
RecvFrame ==
    /\ Full("body") /\ at = "recv"
    /\ Expect("flags", 1, 1)
    /\ peer' = NoFrame /\ place' = NextPlace
    /\ frames' = IF peer.command THEN frames ELSE Append(frames, place)
    /\ at' = IF peer.command \/ peer.more THEN "recv" ELSE "message"
    /\ UNCHANGED fault

SessionStep ==
    \/ Reading /\ SocketRead
    \/ NetworkFails
    \/ Resolve \/ Connect \/ ReadGreeting \/ SendReady \/ Subscribe
    \/ ReadFlags \/ ReadLength \/ ReadReady \/ RecvFrame

(* recv is called again.                                                     *)
RecvAgain ==
    /\ at' = "recv"
    /\ frames' = <<>>
    /\ UNCHANGED <<field, want, filled, peer, unread, place, lost, fault>>

--------------------------------------------------------------------------------
(* Properties.                                                               *)

(* The subscriber gets out of step with its peer only by a frame whose       *)
(* length does not fit in a usize (recv_frame narrows it before it compares  *)
(* it with max_frame_size), however the bytes are cut into reads.            *)
InStep == lost \/ (Reading /\ filled = want /\ unread # 0) => "over_word" \in fault

(* "Receive one logical message, returning its frames in order": in step,    *)
(* the frames are those of one message from its first on, no command among   *)
(* them, and recv returns at the last.                                       *)
OneMessage ==
    ~lost =>
        /\ \A i \in 1 .. Len(frames) : frames[i] = i
        /\ at = "recv" => place = Len(frames) + 1
        /\ at = "message" => place = 1 /\ frames # <<>>
================================================================================

---------------------------- MODULE FeedInputProofs ----------------------------
(* Proofs about the feed's input, for frames of any length, buffers of any   *)
(* size and documents with any number of trains.                             *)
EXTENDS FeedInput, TLAPS

--------------------------------------------------------------------------------
(* The inductive invariant.                                                  *)

(* The session.  Until a length does not fit in a usize, the peer's field    *)
(* and the one being filled are one; in step, the frames are numbered on.    *)
Aligned == "over_word" \notin fault => ~lost /\ unread = want - filled

PeerKnown == field \in {"length", "body"} => peer \in Frame /\ (peer.more => place < MaxParts)

Numbered ==
    ~lost =>
        /\ \A i \in 1 .. Len(frames) : frames[i] = i
        /\ at = "recv" => place = Len(frames) + 1
        /\ at \notin {"recv", "panicked"} => place = 1
        /\ at \in {"resolve", "connect", "greeting", "send_ready", "ready", "subscribe"} => frames = <<>>
        /\ at = "message" => frames # <<>>

Greeted == field = "greeting" => at \in {"resolve", "connect", "greeting", "panicked"}

SessionInv == Aligned /\ PeerKnown /\ Numbered /\ Greeted /\ StopsOnlyOnFault

(* The payload.                                                              *)
AllOfIt ==
    /\ HeaderInside
    /\ WholeText

(* The document: which elements may be open, and what each means for the     *)
(* parser's flags.                                                           *)
InList  == {"ArrayOfTreinLocation"}
InTrain == InList \cup {"TreinLocation"}
InPart  == InTrain \cup {"TreinMaterieelDelen"}

Nestings ==
    {{}, InList, InTrain, InPart, InList \cup {"other"}, InTrain \cup {"other"}, InPart \cup {"other"},
     InTrain \cup {"TreinNummer"}, InPart \cup {"Longitude"}, InPart \cup {"Latitude"}}

CaptureFor ==
    IF "TreinNummer" \in open THEN "Nummer"
    ELSE IF "Longitude" \in open /\ part = 1 THEN "Lon"
    ELSE IF "Latitude" \in open /\ part = 1 THEN "Lat"
    ELSE "None"

DocumentInv ==
    /\ open \in Nestings
    /\ tag => Innermost(current_local)
    /\ in_treinloc <=> "TreinLocation" \in open
    /\ seen_first_part <=> in_treinloc /\ part > 0
    /\ in_first_part <=> "TreinMaterieelDelen" \in open /\ part = 1
    /\ "TreinMaterieelDelen" \in open => part > 0
    /\ capture = CaptureFor
    /\ fields = own
    /\ trains = complete

IInv == FeedTypeOK /\ SessionInv /\ AllOfIt /\ DocumentInv

--------------------------------------------------------------------------------
(* The session.                                                              *)

(* A read puts some of the peer's bytes where they belong.                   *)
LEMMA SocketReadKeeps ==
    ASSUME SubscriberTypeOK, SessionInv, Reading, SocketRead
    PROVE  SubscriberTypeOK' /\ SessionInv'
<1>1. PICK n \in 1 .. (want - filled) :
          /\ filled' = filled + n
          /\ unread' = IF n < unread THEN unread - n ELSE 0
  BY DEF SocketRead
<1>2. want \in Nat /\ filled \in 0 .. want /\ unread \in Nat
  BY DEF SubscriberTypeOK
<1>3. filled' \in 0 .. want /\ unread' \in Nat
  BY <1>1, <1>2
<1>4. unread = want - filled => unread' = want - filled'
  BY <1>1, <1>2
<1>5. SubscriberTypeOK'
  BY <1>3 DEF SubscriberTypeOK, SocketRead
<1>6. Aligned'
  BY <1>4 DEF SessionInv, Aligned, SocketRead
<1>7. PeerKnown' /\ Numbered' /\ Greeted' /\ StopsOnlyOnFault'
  BY DEF SessionInv, PeerKnown, Numbered, Greeted, StopsOnlyOnFault, SocketRead
<1> QED BY <1>5, <1>6, <1>7 DEF SessionInv

(* A panic has a fault for its reason.                                       *)
LEMMA PanicKeeps ==
    ASSUME SubscriberTypeOK, SessionInv, NEW f \in SUBSET Faults, f # {}, Panic(f)
    PROVE  SubscriberTypeOK' /\ SessionInv'
<1>1. SubscriberTypeOK'
  BY DEF SubscriberTypeOK, Panic, Stages
<1>2. Aligned' /\ PeerKnown'
  BY DEF SessionInv, Aligned, PeerKnown, Panic
<1>3. Numbered' /\ Greeted' /\ StopsOnlyOnFault'
  BY DEF SessionInv, Numbered, Greeted, StopsOnlyOnFault, Panic
<1> QED BY <1>1, <1>2, <1>3 DEF SessionInv

(* A full field is the peer's as well, unless a length did not fit; so the   *)
(* next one is that after it.                                                *)
LEMMA ExpectAligns ==
    ASSUME SubscriberTypeOK, Aligned, filled = want,
           NEW f \in {"flags", "length", "body"}, NEW n \in Nat, NEW sz \in Nat,
           Expect(f, n, sz), n = sz \/ "over_word" \in fault',
           fault \subseteq fault'
    PROVE  /\ Aligned'
           /\ want' \in Nat /\ filled' \in 0 .. want' /\ unread' \in Nat
           /\ lost' \in BOOLEAN /\ field' = f
           /\ ~lost' => ~lost
  BY DEF SubscriberTypeOK, Aligned, Expect

(* Steps of the handshake that only write.                                   *)
LEMMA HandshakeKeeps ==
    ASSUME SubscriberTypeOK, SessionInv, Resolve \/ Connect \/ SendReady \/ Subscribe
    PROVE  SubscriberTypeOK' /\ SessionInv'
<1>1. UNCHANGED subscriberVars
  BY DEF Resolve, Connect, SendReady, Subscribe
<1>2. /\ at \in {"resolve", "connect", "send_ready", "subscribe"}
      /\ at' \in {"connect", "greeting", "ready", "recv"}
      /\ at \in {"resolve", "connect"} => at' \in {"connect", "greeting"}
  BY DEF Resolve, Connect, SendReady, Subscribe
<1>3. SubscriberTypeOK'
  BY <1>1, <1>2 DEF SubscriberTypeOK, subscriberVars, Stages
<1>4. Aligned' /\ PeerKnown' /\ Greeted' /\ StopsOnlyOnFault'
  BY <1>1, <1>2 DEF SessionInv, Aligned, PeerKnown, Greeted, StopsOnlyOnFault, subscriberVars
<1>5. Numbered'
  <2> SUFFICES ASSUME ~lost PROVE Numbered'
    BY <1>1 DEF Numbered, subscriberVars
  <2>1. frames = <<>> /\ place = 1 /\ Len(frames) = 0
    BY <1>2 DEF SessionInv, Numbered
  <2> QED BY <1>1, <1>2, <2>1 DEF Numbered, subscriberVars
<1> QED BY <1>3, <1>4, <1>5 DEF SessionInv

(* The peer's greeting.                                                      *)
LEMMA ReadGreetingKeeps ==
    ASSUME SubscriberTypeOK, SessionInv, ReadGreeting
    PROVE  SubscriberTypeOK' /\ SessionInv'
<1>1. CASE Panic({"protocol"})
  BY <1>1, PanicKeeps DEF Faults
<1>2. CASE at' = "send_ready" /\ Expect("flags", 1, 1) /\ UNCHANGED <<peer, frames, place, fault>>
  <2>1. filled = want /\ field = "greeting" /\ Reading
    BY DEF ReadGreeting, Full
  <2>2. /\ Aligned' /\ want' \in Nat /\ filled' \in 0 .. want' /\ unread' \in Nat
        /\ lost' \in BOOLEAN /\ field' = "flags" /\ (~lost' => ~lost)
    BY <1>2, <2>1, ExpectAligns DEF SessionInv
  <2>3. SubscriberTypeOK'
    BY <1>2, <2>2 DEF SubscriberTypeOK, Stages
  <2>4. PeerKnown' /\ Greeted' /\ StopsOnlyOnFault'
    BY <1>2, <2>2 DEF PeerKnown, Greeted, StopsOnlyOnFault
  <2>5. at = "greeting"
    BY <2>1 DEF SessionInv, Greeted, Reading
  <2>6. Numbered'
    BY <1>2, <2>2, <2>5 DEF SessionInv, Numbered
  <2> QED BY <2>2, <2>3, <2>4, <2>6 DEF SessionInv
<1> QED BY <1>1, <1>2 DEF ReadGreeting

(* The flags of the peer's next frame.                                       *)
LEMMA ReadFlagsKeeps ==
    ASSUME SubscriberTypeOK, SessionInv, ReadFlags
    PROVE  SubscriberTypeOK' /\ SessionInv'
<1>1. PICK f \in Frame :
          /\ place = MaxParts => ~f.more
          /\ peer' = f
          /\ IF f.long THEN Expect("length", 8, 8) ELSE Expect("length", 1, 1)
  BY DEF ReadFlags
<1>2. UNCHANGED <<at, frames, place, fault>> /\ filled = want
  BY DEF ReadFlags, Full
<1>3. /\ Aligned' /\ want' \in Nat /\ filled' \in 0 .. want' /\ unread' \in Nat
      /\ lost' \in BOOLEAN /\ field' = "length" /\ (~lost' => ~lost)
  <2>1. CASE f.long
    BY <1>1, <1>2, <2>1, ExpectAligns DEF SessionInv
  <2>2. CASE ~f.long
    BY <1>1, <1>2, <2>2, ExpectAligns DEF SessionInv
  <2> QED BY <2>1, <2>2
<1>4. SubscriberTypeOK'
  BY <1>1, <1>2, <1>3 DEF SubscriberTypeOK
<1>5. PeerKnown'
  <2>1. place \in 1 .. MaxParts
    BY DEF SubscriberTypeOK
  <2>2. f.more => place < MaxParts
    BY <1>1, <2>1, SubscriberAssumption
  <2> QED BY <1>1, <1>2, <2>2 DEF PeerKnown
<1>6. Numbered' /\ Greeted' /\ StopsOnlyOnFault'
  BY <1>2, <1>3 DEF SessionInv, Numbered, Greeted, StopsOnlyOnFault
<1> QED BY <1>3, <1>4, <1>5, <1>6 DEF SessionInv

(* What is too large after narrowing was too large before.                   *)
LEMMA NarrowedIsSmaller ==
    ASSUME NEW len \in Nat
    PROVE  Narrowed(len) \in Nat /\ Narrowed(len) <= len /\ (len < Word => Narrowed(len) = len)
<1>1. Word \in Nat \ {0}
  BY SubscriberAssumption
<1> QED BY <1>1 DEF Narrowed

(* A length announces a body of the same size, or it was narrowed.           *)
LEMMA ReadLengthKeeps ==
    ASSUME SubscriberTypeOK, SessionInv, ReadLength
    PROVE  SubscriberTypeOK' /\ SessionInv'
<1>1. /\ peer \in Frame /\ (peer.more => place < MaxParts)
      /\ filled = want
  BY DEF ReadLength, Full, SessionInv, PeerKnown
<1>2. peer.len \in Nat
  BY <1>1, SubscriberAssumption DEF Frame
<1>3. /\ Narrowed(peer.len) \in Nat /\ Narrowed(peer.len) <= peer.len
      /\ (peer.len < Word => Narrowed(peer.len) = peer.len)
  BY <1>2, NarrowedIsSmaller
<1>4. WhatPeerDoes(peer.len) \in SUBSET Faults
  BY DEF WhatPeerDoes, Faults
<1>5. CASE Narrowed(peer.len) > MaxFrame /\ Panic(WhatPeerDoes(peer.len))
  <2>1. "too_large" \in WhatPeerDoes(peer.len)
    BY <1>2, <1>3, <1>5, SubscriberAssumption DEF WhatPeerDoes
  <2> QED BY <1>4, <1>5, <2>1, PanicKeeps
<1>6. CASE /\ Expect("body", Narrowed(peer.len), peer.len)
           /\ fault' = fault \cup WhatPeerDoes(peer.len)
           /\ UNCHANGED <<at, peer, frames, place>>
  <2>1. Narrowed(peer.len) = peer.len \/ "over_word" \in fault'
    BY <1>2, <1>3, <1>6, SubscriberAssumption DEF WhatPeerDoes
  <2>2. /\ Aligned' /\ want' \in Nat /\ filled' \in 0 .. want' /\ unread' \in Nat
        /\ lost' \in BOOLEAN /\ field' = "body" /\ (~lost' => ~lost)
    BY <1>1, <1>2, <1>3, <1>6, <2>1, ExpectAligns DEF SessionInv
  <2>3. SubscriberTypeOK'
    BY <1>4, <1>6, <2>2 DEF SubscriberTypeOK
  <2>4. PeerKnown' /\ Numbered' /\ Greeted' /\ StopsOnlyOnFault'
    BY <1>1, <1>6, <2>2 DEF SessionInv, PeerKnown, Numbered, Greeted, StopsOnlyOnFault
  <2> QED BY <2>2, <2>3, <2>4 DEF SessionInv
<1> QED BY <1>5, <1>6 DEF ReadLength

(* The peer's READY.                                                         *)
LEMMA ReadReadyKeeps ==
    ASSUME SubscriberTypeOK, SessionInv, ReadReady
    PROVE  SubscriberTypeOK' /\ SessionInv'
<1>1. CASE Panic({"protocol"})
  BY <1>1, PanicKeeps DEF Faults
<1>2. CASE /\ at' = "subscribe" /\ Expect("flags", 1, 1)
           /\ peer' = NoFrame /\ UNCHANGED <<frames, place, fault>>
  <2>1. filled = want /\ at = "ready"
    BY DEF ReadReady, Full
  <2>2. /\ Aligned' /\ want' \in Nat /\ filled' \in 0 .. want' /\ unread' \in Nat
        /\ lost' \in BOOLEAN /\ field' = "flags" /\ (~lost' => ~lost)
    BY <1>2, <2>1, ExpectAligns DEF SessionInv
  <2>3. SubscriberTypeOK'
    BY <1>2, <2>2 DEF SubscriberTypeOK, Stages
  <2>4. PeerKnown' /\ Numbered' /\ Greeted' /\ StopsOnlyOnFault'
    BY <1>2, <2>1, <2>2 DEF SessionInv, PeerKnown, Numbered, Greeted, StopsOnlyOnFault
  <2> QED BY <2>2, <2>3, <2>4 DEF SessionInv
<1> QED BY <1>1, <1>2 DEF ReadReady

(* A frame of a message goes behind those before it, a command nowhere.      *)
LEMMA RecvFrameKeeps ==
    ASSUME SubscriberTypeOK, SessionInv, RecvFrame
    PROVE  SubscriberTypeOK' /\ SessionInv'
<1>1. /\ field = "body" /\ filled = want /\ at = "recv"
      /\ Expect("flags", 1, 1) /\ fault' = fault /\ peer' = NoFrame
      /\ place' = NextPlace
      /\ frames' = IF peer.command THEN frames ELSE Append(frames, place)
      /\ at' = IF peer.command \/ peer.more THEN "recv" ELSE "message"
  BY DEF RecvFrame, Full
<1>2. peer \in Frame /\ (peer.more => place < MaxParts)
  BY <1>1 DEF SessionInv, PeerKnown
<1>3. peer.command \in BOOLEAN /\ peer.more \in BOOLEAN
  BY <1>2 DEF Frame
<1>4. /\ Aligned' /\ want' \in Nat /\ filled' \in 0 .. want' /\ unread' \in Nat
      /\ lost' \in BOOLEAN /\ field' = "flags" /\ (~lost' => ~lost)
  BY <1>1, ExpectAligns DEF SessionInv
<1>5. place \in 1 .. MaxParts /\ frames \in Seq(0 .. MaxParts) /\ MaxParts \in Nat \ {0}
  BY SubscriberAssumption DEF SubscriberTypeOK
<1>6. place' \in 1 .. MaxParts
  BY <1>1, <1>2, <1>5 DEF NextPlace
<1>7. frames' \in Seq(0 .. MaxParts)
  <2>1. place \in 0 .. MaxParts
    BY <1>5
  <2>2. Append(frames, place) \in Seq(0 .. MaxParts)
    BY <1>5, <2>1
  <2> QED BY <1>1, <1>3, <1>5, <2>2
<1>8. SubscriberTypeOK'
  BY <1>1, <1>4, <1>6, <1>7 DEF SubscriberTypeOK, Stages
<1>9. PeerKnown' /\ Greeted' /\ StopsOnlyOnFault'
  BY <1>1, <1>4 DEF PeerKnown, Greeted, StopsOnlyOnFault
<1>10. Numbered'
  <2> SUFFICES ASSUME ~lost' PROVE Numbered'
    BY DEF Numbered
  <2>1. (\A i \in 1 .. Len(frames) : frames[i] = i) /\ place = Len(frames) + 1
    BY <1>1, <1>4 DEF SessionInv, Numbered
  <2>2. CASE peer.command
    BY <1>1, <2>1, <2>2 DEF Numbered, NextPlace
  <2>3. CASE ~peer.command
    <3>1. frames' = Append(frames, place) /\ Len(frames') = Len(frames) + 1 /\ frames' # <<>>
      BY <1>1, <1>5, <2>3
    <3>2. \A i \in 1 .. Len(frames) + 1 : frames'[i] = i
      BY <1>5, <2>1, <3>1
    <3>3. place' = IF peer.more THEN place + 1 ELSE 1
      BY <1>1, <2>3 DEF NextPlace
    <3> QED BY <1>1, <2>1, <2>3, <3>1, <3>2, <3>3 DEF Numbered
  <2> QED BY <1>3, <2>2, <2>3
<1> QED BY <1>4, <1>8, <1>9, <1>10 DEF SessionInv

(* Every step of the session.                                                *)
LEMMA SessionKeeps ==
    ASSUME SubscriberTypeOK, SessionInv, SessionStep
    PROVE  SubscriberTypeOK' /\ SessionInv'
<1>1. CASE Reading /\ SocketRead
  BY <1>1, SocketReadKeeps
<1>2. CASE NetworkFails
  BY <1>2, PanicKeeps DEF NetworkFails, Faults
<1>3. CASE Resolve \/ Connect \/ SendReady \/ Subscribe
  BY <1>3, HandshakeKeeps
<1>4. CASE ReadGreeting
  BY <1>4, ReadGreetingKeeps
<1>5. CASE ReadFlags
  BY <1>5, ReadFlagsKeeps
<1>6. CASE ReadLength
  BY <1>6, ReadLengthKeeps
<1>7. CASE ReadReady
  BY <1>7, ReadReadyKeeps
<1>8. CASE RecvFrame
  BY <1>8, RecvFrameKeeps
<1> QED BY <1>1, <1>2, <1>3, <1>4, <1>5, <1>6, <1>7, <1>8 DEF SessionStep

(* recv begins a new message.                                                *)
LEMMA RecvAgainKeeps ==
    ASSUME SubscriberTypeOK, SessionInv, RecvAgain,
           at \in {"message", "inflate", "apply"}
    PROVE  SubscriberTypeOK' /\ SessionInv'
<1>1. /\ at' = "recv" /\ frames' = <<>> /\ Len(<<>>) = 0
      /\ UNCHANGED <<field, want, filled, peer, unread, place, lost, fault>>
  BY DEF RecvAgain
<1>2. <<>> \in Seq(0 .. MaxParts)
  OBVIOUS
<1>3. SubscriberTypeOK'
  BY <1>1, <1>2 DEF SubscriberTypeOK, Stages
<1>4. Aligned' /\ PeerKnown' /\ Greeted' /\ StopsOnlyOnFault'
  BY <1>1 DEF SessionInv, Aligned, PeerKnown, Greeted, StopsOnlyOnFault
<1>5. Numbered'
  BY <1>1 DEF SessionInv, Numbered
<1> QED BY <1>3, <1>4, <1>5 DEF SessionInv

--------------------------------------------------------------------------------
(* The payload.                                                              *)

(* No optional field of the header moves the position out of the payload.    *)
LEMMA SkipHeaderInside ==
    ASSUME NEW b \in Payloads
    PROVE  SkipHeader(b) = Bad \/ (SkipHeader(b) \in Nat /\ SkipHeader(b) <= b.len)
<1> DEFINE Inside(p) == p = Bad \/ (p \in Nat /\ p <= b.len)
<1>1. /\ b.len \in Nat /\ b.xlen \in Nat /\ b.name \in Nat /\ b.comment \in Nat
  BY DecompressorAssumption DEF Payloads
<1>2. b.len >= 10 => Inside(SkipExtra(10, b))
  BY <1>1 DEF SkipExtra
<1>3. ASSUME NEW p, Inside(p), NEW flag, NEW n \in Nat
      PROVE  Inside(SkipText(p, b, flag, n))
  BY <1>1, <1>3 DEF SkipText
<1>4. ASSUME NEW p, Inside(p)
      PROVE  Inside(SkipCrc(p, b))
  BY <1>1, <1>4 DEF SkipCrc
<1> HIDE DEF Inside
<1>5. CASE b.len >= 10 /\ b.magic
  <2> DEFINE p == SkipExtra(10, b)
             q == SkipText(p, b, "FNAME", b.name)
             r == SkipText(q, b, "FCOMMENT", b.comment)
  <2>1. Inside(q)  BY <1>1, <1>2, <1>3, <1>5
  <2>2. Inside(r)  BY <1>1, <1>3, <2>1
  <2>3. Inside(SkipCrc(r, b))  BY <1>4, <2>2
  <2>4. SkipHeader(b) = SkipCrc(r, b)  BY <1>1, <1>5 DEF SkipHeader
  <2> QED  BY <2>3, <2>4 DEF Inside
<1>6. CASE ~(b.len >= 10 /\ b.magic)
  BY <1>1, <1>6 DEF SkipHeader
<1> QED  BY <1>5, <1>6

LEMMA InflateGzipKeeps ==
    ASSUME NEW b \in Payloads, InflateGzip(b)
    PROVE  DecompressorTypeOK' /\ AllOfIt'
<1>1. b.len \in Nat  BY DecompressorAssumption DEF Payloads
<1>2. /\ start' = SkipHeader(b) /\ length' = b.len /\ written' = 0
      /\ result' \in {"bad_header", "running"}
      /\ input' \in 0 .. MaxInput /\ whole' \in BOOLEAN /\ size' \in 0 .. MaxSize
  <2>1. 0 \in 0 .. MaxInput /\ 0 \in 0 .. MaxSize  BY DecompressorAssumption
  <2>2. CASE SkipHeader(b) = Bad  BY <2>1, <2>2 DEF InflateGzip
  <2>3. CASE SkipHeader(b) # Bad  BY <2>3 DEF InflateGzip
  <2> QED  BY <2>2, <2>3
<1>3. 0 \in 0 .. BufLen  BY DecompressorAssumption
<1>4. DecompressorTypeOK'  BY <1>1, <1>2, <1>3, SkipHeaderInside DEF DecompressorTypeOK
<1>5. AllOfIt'  BY <1>2, SkipHeaderInside DEF AllOfIt, HeaderInside, WholeText
<1> QED  BY <1>4, <1>5

(* A turn of the loop.  Only a stream that is not whole ends early: one that *)
(* is whole and fills the buffer is an overflow.                             *)
LEMMA InflateKeeps ==
    ASSUME DecompressorTypeOK, AllOfIt, Inflate
    PROVE  DecompressorTypeOK' /\ AllOfIt'
<1>1. ASSUME NEW r \in {"overflow", "inflate"}, Ends(r)
      PROVE  DecompressorTypeOK' /\ AllOfIt'
  BY <1>1 DEF Ends, DecompressorTypeOK, AllOfIt, HeaderInside, WholeText
<1>2. ASSUME NEW c \in Calls, Call(c)
      PROVE  /\ input' \in 0 .. MaxInput /\ written' \in 0 .. BufLen
             /\ UNCHANGED <<start, length, whole, size>>
  <2>1. c.consumed \in 0 .. input /\ c.written \in 0 .. (BufLen - written)  BY DEF Calls
  <2>2. BufLen \in Nat /\ MaxInput \in Nat  BY DecompressorAssumption
  <2>3. input \in 0 .. MaxInput /\ written \in 0 .. BufLen  BY DEF DecompressorTypeOK
  <2>4. input' = input - c.consumed /\ written' = written + c.written  BY <1>2 DEF Call
  <2>5. input' \in 0 .. MaxInput  BY <2>1, <2>2, <2>3, <2>4
  <2>6. written' \in 0 .. BufLen  BY <2>1, <2>2, <2>3, <2>4
  <2> QED  BY <2>5, <2>6, <1>2 DEF Call
<1>3. CASE Overflow  BY <1>1, <1>3 DEF Overflow
<1>4. CASE InflateError  BY <1>1, <1>4 DEF InflateError
<1>5. CASE InflateEnd
  <2>1. PICK c \in Calls : Call(c)  BY <1>5 DEF InflateEnd
  <2>2. result' = "ok" /\ written' = size  BY <1>5 DEF InflateEnd
  <2> QED  BY <1>2, <2>1, <2>2 DEF DecompressorTypeOK, AllOfIt, HeaderInside, WholeText
<1>6. CASE InflateSome
  <2>1. PICK c \in Calls : Call(c)  BY <1>6 DEF InflateSome
  <2>2. result' = result /\ result = "running"  BY <1>6 DEF InflateSome, Inflate
  <2> QED  BY <1>2, <2>1, <2>2 DEF DecompressorTypeOK, AllOfIt, HeaderInside, WholeText
<1>7. CASE written # BufLen /\ InflateStuck
  <2>1. ~whole  BY <1>7 DEF InflateStuck
  <2>2. Ends("ok")  BY <1>7 DEF InflateStuck
  <2> QED  BY <2>1, <2>2 DEF Ends, DecompressorTypeOK, AllOfIt, HeaderInside, WholeText
<1> QED  BY <1>3, <1>4, <1>5, <1>6, <1>7 DEF Inflate

LEMMA NotUtf8Keeps ==
    ASSUME DecompressorTypeOK, AllOfIt, NotUtf8
    PROVE  DecompressorTypeOK' /\ AllOfIt'
BY DEF NotUtf8, Ends, DecompressorTypeOK, AllOfIt, HeaderInside, WholeText

(* Between two payloads.                                                     *)
LEMMA ResetKeeps ==
    ASSUME DecompressorReset
    PROVE  DecompressorTypeOK' /\ AllOfIt'
<1>1. 0 \in 0 .. MaxInput /\ 0 \in 0 .. BufLen /\ 0 \in 0 .. MaxSize /\ 0 \in Nat
  BY DecompressorAssumption
<1>2. whole' \in BOOLEAN  BY DEF DecompressorReset
<1>3. /\ result' = "none" /\ start' = 0 /\ length' = 0
      /\ input' = 0 /\ written' = 0 /\ size' = 0
  BY DEF DecompressorReset
<1> QED  BY <1>1, <1>2, <1>3 DEF DecompressorTypeOK, AllOfIt, HeaderInside, WholeText

--------------------------------------------------------------------------------
(* The document.                                                             *)

LEMMA Depths ==
    /\ Depth["ArrayOfTreinLocation"] = 0 /\ Depth["TreinLocation"] = 1
    /\ Depth["TreinNummer"] = 2 /\ Depth["TreinMaterieelDelen"] = 2
    /\ Depth["Longitude"] = 3 /\ Depth["Latitude"] = 3 /\ Depth["other"] = 4
BY DEF Depth

(* Which elements are open around the innermost one.                         *)
LEMMA AroundInnermost ==
    ASSUME open \in Nestings
    PROVE  /\ Innermost("ArrayOfTreinLocation") => open = InList
           /\ Innermost("TreinLocation") => open = InTrain
           /\ Innermost("TreinMaterieelDelen") => open = InPart
           /\ Innermost("TreinNummer") => open = InTrain \cup {"TreinNummer"}
           /\ Innermost("Longitude") => open = InPart \cup {"Longitude"}
           /\ Innermost("Latitude") => open = InPart \cup {"Latitude"}
           /\ Innermost("other") => \/ open = InList \cup {"other"}
                                    \/ open = InTrain \cup {"other"}
                                    \/ open = InPart \cup {"other"}
<1>1. Innermost("ArrayOfTreinLocation") => open = InList
  BY Depths DEF Innermost, Nestings, InList, InTrain, InPart
<1>2. Innermost("TreinLocation") => open = InTrain
  BY Depths DEF Innermost, Nestings, InList, InTrain, InPart
<1>3. Innermost("TreinMaterieelDelen") => open = InPart
  BY Depths DEF Innermost, Nestings, InList, InTrain, InPart
<1>4. Innermost("TreinNummer") => open = InTrain \cup {"TreinNummer"}
  BY Depths DEF Innermost, Nestings, InList, InTrain, InPart
<1>5. Innermost("Longitude") => open = InPart \cup {"Longitude"}
  BY Depths DEF Innermost, Nestings, InList, InTrain, InPart
<1>6. Innermost("Latitude") => open = InPart \cup {"Latitude"}
  BY Depths DEF Innermost, Nestings, InList, InTrain, InPart
<1>7. Innermost("other") => \/ open = InList \cup {"other"}
                            \/ open = InTrain \cup {"other"}
                            \/ open = InPart \cup {"other"}
  BY Depths DEF Innermost, Nestings, InList, InTrain, InPart
<1> QED  BY <1>1, <1>2, <1>3, <1>4, <1>5, <1>6, <1>7

(* Whatever has no field of its own is taken for none.                       *)
LEMMA CaptureIn ==
    /\ open \in {InList, InTrain, InPart, InList \cup {"other"}, InTrain \cup {"other"}, InPart \cup {"other"}}
          => CaptureFor = "None"
    /\ open = InTrain \cup {"TreinNummer"} => CaptureFor = "Nummer"
    /\ open = InPart \cup {"Longitude"} => CaptureFor = IF part = 1 THEN "Lon" ELSE "None"
    /\ open = InPart \cup {"Latitude"} => CaptureFor = IF part = 1 THEN "Lat" ELSE "None"
<1>1. open \in {InList, InTrain, InPart, InList \cup {"other"}, InTrain \cup {"other"}, InPart \cup {"other"}}
         => "TreinNummer" \notin open /\ "Longitude" \notin open /\ "Latitude" \notin open
  BY DEF InList, InTrain, InPart
<1>2. open = InTrain \cup {"TreinNummer"} => "TreinNummer" \in open
  OBVIOUS
<1>3. open = InPart \cup {"Longitude"} => "TreinNummer" \notin open /\ "Longitude" \in open /\ "Latitude" \notin open
  BY DEF InList, InTrain, InPart
<1>4. open = InPart \cup {"Latitude"} => "TreinNummer" \notin open /\ "Longitude" \notin open /\ "Latitude" \in open
  BY DEF InList, InTrain, InPart
<1> QED  BY <1>1, <1>2, <1>3, <1>4 DEF CaptureFor

LEMMA CaptureInNext ==
    /\ open' \in {InList, InTrain, InPart, InList \cup {"other"}, InTrain \cup {"other"}, InPart \cup {"other"}}
          => CaptureFor' = "None"
    /\ open' = InTrain \cup {"TreinNummer"} => CaptureFor' = "Nummer"
    /\ open' = InPart \cup {"Longitude"} => CaptureFor' = IF part' = 1 THEN "Lon" ELSE "None"
    /\ open' = InPart \cup {"Latitude"} => CaptureFor' = IF part' = 1 THEN "Lat" ELSE "None"
<1>1. open' \in {InList, InTrain, InPart, InList \cup {"other"}, InTrain \cup {"other"}, InPart \cup {"other"}}
         => "TreinNummer" \notin open' /\ "Longitude" \notin open' /\ "Latitude" \notin open'
  BY DEF InList, InTrain, InPart
<1>2. open' = InTrain \cup {"TreinNummer"} => "TreinNummer" \in open'
  OBVIOUS
<1>3. open' = InPart \cup {"Longitude"} => "TreinNummer" \notin open' /\ "Longitude" \in open' /\ "Latitude" \notin open'
  BY DEF InList, InTrain, InPart
<1>4. open' = InPart \cup {"Latitude"} => "TreinNummer" \notin open' /\ "Longitude" \notin open' /\ "Latitude" \in open'
  BY DEF InList, InTrain, InPart
<1> QED  BY <1>1, <1>2, <1>3, <1>4 DEF CaptureFor

(* The parser's part of the types.                                           *)
LEMMA NoFieldsIsTrain == NoFields \in Train
BY DEF NoFields, Train

(* A start tag: the flags follow the elements that are open.                 *)
LEMMA StartKeeps ==
    ASSUME XmlTypeOK, DocumentInv, NEW n \in Names, StartElement(n)
    PROVE  XmlTypeOK' /\ DocumentInv'
<1>1. /\ open' = open \cup {n} /\ tag' = TRUE /\ current_local' = n
      /\ complete' = complete
      /\ location' = IF n = "TreinLocation" THEN location + 1 ELSE location
      /\ part' = IF n = "TreinLocation" THEN 0
                  ELSE IF n = "TreinMaterieelDelen" /\ part < 2 THEN part + 1 ELSE part
      /\ own' = IF n = "TreinLocation" THEN NoFields ELSE own
  BY DEF StartElement, Opened
<1>2. open \in Nestings /\ part \in 0 .. 2 /\ in_treinloc \in BOOLEAN /\ seen_first_part \in BOOLEAN
      /\ in_first_part \in BOOLEAN /\ location \in Nat /\ own \in Train
  BY DEF DocumentInv, XmlTypeOK
<1>3. part' \in 0 .. 2 /\ location' \in Nat /\ own' \in Train  BY <1>1, <1>2, NoFieldsIsTrain
<1>4. XmlTypeOK'
  <2>1. /\ in_treinloc' \in BOOLEAN /\ seen_first_part' \in BOOLEAN /\ in_first_part' \in BOOLEAN
        /\ capture' \in Fields \cup {"None"} /\ fields' \in Train /\ trains' = trains
    BY NoFieldsIsTrain DEF StartElement, EnterLocation, EnterFirstPart, Capture, parserVars, XmlTypeOK, Fields
  <2>2. open' \in SUBSET Names  BY <1>1 DEF XmlTypeOK
  <2> QED  BY <1>1, <1>3, <2>1, <2>2 DEF XmlTypeOK
<1>5. trains' = complete'
  BY <1>1 DEF StartElement, EnterLocation, EnterFirstPart, Capture, parserVars, DocumentInv
<1>6. CASE n = "TreinLocation"
  <2>1. open = InList  BY <1>2, <1>6, AroundInnermost DEF StartElement, Opened, Allowed
  <2>2. open' = InTrain  BY <1>1, <1>6, <2>1 DEF InTrain
  <2>3. EnterLocation  BY <1>6 DEF StartElement, Ignored
  <2>4. Innermost(current_local)'  BY <1>1, <1>6, <2>2, Depths DEF Innermost, InTrain, InList
  <2>5. "TreinLocation" \in open' /\ "TreinMaterieelDelen" \notin open' /\ open' \in Nestings
    BY <2>2 DEF InTrain, InList, Nestings
  <2>6. capture' = CaptureFor'  BY <2>2, <2>3, CaptureInNext DEF EnterLocation
  <2> QED  BY <1>1, <1>4, <1>5, <1>6, <2>3, <2>4, <2>5, <2>6 DEF EnterLocation, DocumentInv
<1>7. CASE n = "TreinNummer"
  <2>1. open = InTrain  BY <1>2, <1>7, AroundInnermost DEF StartElement, Opened, Allowed
  <2>2. open' = InTrain \cup {"TreinNummer"}  BY <1>1, <1>7, <2>1
  <2>3. "TreinLocation" \in open /\ "TreinMaterieelDelen" \notin open  BY <2>1 DEF InTrain, InList
  <2>4. in_treinloc  BY <2>3 DEF DocumentInv
  <2>5. Capture("Nummer")  BY <1>7, <2>4 DEF StartElement, Ignored
  <2>6. Innermost(current_local)'  BY <1>1, <1>7, <2>2, Depths DEF Innermost, InTrain, InList
  <2>7. "TreinLocation" \in open' /\ "TreinMaterieelDelen" \notin open' /\ open' \in Nestings
    BY <2>2 DEF InTrain, InList, Nestings
  <2>8. capture' = CaptureFor'  BY <2>2, <2>5, CaptureInNext DEF Capture
  <2> QED  BY <1>1, <1>4, <1>5, <1>7, <2>3, <2>5, <2>6, <2>7, <2>8 DEF Capture, DocumentInv
<1>8. CASE n = "TreinMaterieelDelen"
  <2>1. open = InTrain  BY <1>2, <1>8, AroundInnermost DEF StartElement, Opened, Allowed
  <2>2. open' = InPart  BY <1>1, <1>8, <2>1 DEF InPart
  <2>3. "TreinLocation" \in open /\ "TreinMaterieelDelen" \notin open  BY <2>1 DEF InTrain, InList
  <2>4. in_treinloc /\ ~in_first_part /\ (seen_first_part <=> part > 0)  BY <2>3 DEF DocumentInv
  <2>5. Innermost(current_local)'  BY <1>1, <1>8, <2>2, Depths DEF Innermost, InPart, InTrain, InList
  <2>6. "TreinLocation" \in open' /\ "TreinMaterieelDelen" \in open' /\ open' \in Nestings
    BY <2>2 DEF InPart, InTrain, InList, Nestings
  <2>7. capture = "None" /\ CaptureFor' = "None"
    BY <2>1, <2>2, CaptureIn, CaptureInNext DEF DocumentInv
  <2>8. CASE part = 0
    <3>1. EnterFirstPart  BY <1>8, <2>4, <2>8 DEF StartElement, Ignored
    <3>2. part' = 1  BY <1>1, <1>8, <2>8
    <3> QED  BY <1>1, <1>4, <1>5, <1>8, <2>4, <2>5, <2>6, <2>7, <3>1, <3>2 DEF EnterFirstPart, DocumentInv
  <2>9. CASE part > 0
    <3>1. UNCHANGED parserVars  BY <1>8, <2>4, <2>9 DEF StartElement, Ignored
    <3>2. part' = 2 /\ part' > 0 /\ part' # 1  BY <1>1, <1>2, <1>8, <2>9
    <3> QED  BY <1>1, <1>4, <1>5, <1>8, <2>4, <2>5, <2>6, <2>7, <2>9, <3>1, <3>2 DEF parserVars, DocumentInv
  <2> QED  BY <1>2, <2>8, <2>9
<1>9. CASE n \in {"Longitude", "Latitude"}
  <2>1. open = InPart  BY <1>2, <1>9, AroundInnermost DEF StartElement, Opened, Allowed
  <2>2. open' = InPart \cup {n}  BY <1>1, <2>1
  <2>3. "TreinLocation" \in open /\ "TreinMaterieelDelen" \in open  BY <2>1 DEF InPart, InTrain, InList
  <2>4. in_treinloc /\ (in_first_part <=> part = 1) /\ (seen_first_part <=> part > 0) /\ part > 0
    BY <2>3 DEF DocumentInv
  <2>5. Innermost(current_local)'  BY <1>1, <1>9, <2>2, Depths DEF Innermost, InPart, InTrain, InList
  <2>6. "TreinLocation" \in open' /\ "TreinMaterieelDelen" \in open' /\ open' \in Nestings
    BY <1>9, <2>2 DEF InPart, InTrain, InList, Nestings
  <2>7. part' = part  BY <1>1, <1>9
  <2>8. CASE part = 1
    <3> DEFINE f == IF n = "Longitude" THEN "Lon" ELSE "Lat"
    <3>1. Capture(f)  BY <1>9, <2>4, <2>8 DEF StartElement, Ignored
    <3>2. CaptureFor' = f  BY <1>9, <2>2, <2>7, <2>8, CaptureInNext
    <3> QED  BY <1>1, <1>4, <1>5, <1>9, <2>4, <2>5, <2>6, <2>7, <3>1, <3>2 DEF Capture, DocumentInv
  <2>9. CASE part # 1
    <3>1. UNCHANGED parserVars  BY <1>9, <2>4, <2>9 DEF StartElement, Ignored
    <3>2. capture = "None" /\ CaptureFor' = "None"
      BY <1>9, <2>1, <2>2, <2>7, <2>9, CaptureIn, CaptureInNext DEF DocumentInv
    <3> QED  BY <1>1, <1>4, <1>5, <1>9, <2>4, <2>5, <2>6, <2>7, <3>1, <3>2 DEF parserVars, DocumentInv
  <2> QED  BY <2>8, <2>9
<1>10. CASE n = "other"
  <2>1. open \in {InList, InTrain, InPart}  BY <1>2, <1>10, AroundInnermost DEF StartElement, Opened, Allowed
  <2>2. open' = open \cup {"other"}  BY <1>1, <1>10
  <2>3. UNCHANGED parserVars  BY <1>10 DEF StartElement, Ignored
  <2>4. Innermost(current_local)'  BY <1>1, <1>10, <2>1, <2>2, Depths DEF Innermost, InPart, InTrain, InList
  <2>5. /\ "TreinLocation" \in open' <=> "TreinLocation" \in open
        /\ "TreinMaterieelDelen" \in open' <=> "TreinMaterieelDelen" \in open
    BY <2>2
  <2>6. open' \in Nestings  BY <2>1, <2>2 DEF Nestings
  <2>7. capture = "None" /\ CaptureFor' = "None"
    <3>1. open' \in {InList \cup {"other"}, InTrain \cup {"other"}, InPart \cup {"other"}}  BY <2>1, <2>2
    <3> QED  BY <2>1, <3>1, CaptureIn, CaptureInNext DEF DocumentInv
  <2>8. part' = part /\ own' = own  BY <1>1, <1>10
  <2> QED  BY <1>1, <1>4, <1>5, <2>3, <2>4, <2>5, <2>6, <2>7, <2>8 DEF parserVars, DocumentInv
<1>11. n # "ArrayOfTreinLocation"  BY DEF StartElement, Opened, Allowed
<1> QED  BY <1>6, <1>7, <1>8, <1>9, <1>10, <1>11 DEF Names

(* An end tag: the flags follow the elements that are left open.             *)
LEMMA EndKeeps ==
    ASSUME XmlTypeOK, DocumentInv, NEW n \in Names, Closed(n), EndElement(n), UNCHANGED current_local
    PROVE  XmlTypeOK' /\ DocumentInv'
<1>1. /\ Innermost(n) /\ open' = open \ {n} /\ tag' = FALSE
      /\ complete' = IF n = "TreinLocation" /\ \A f \in Fields : own[f] # Missing
                     THEN Append(complete, own) ELSE complete
      /\ UNCHANGED <<location, part, own>>
  BY DEF Closed
<1>2. open \in Nestings /\ part \in 0 .. 2 /\ fields \in Train /\ own = fields /\ complete = trains
  BY DEF DocumentInv, XmlTypeOK
<1>3. XmlTypeOK'
  <2>1. /\ in_treinloc' \in BOOLEAN /\ seen_first_part' \in BOOLEAN /\ in_first_part' \in BOOLEAN
        /\ capture' \in Fields \cup {"None"} /\ fields' = fields
    BY DEF EndElement, LeaveLocation, Capture, parserVars, XmlTypeOK
  <2>2. trains' \in {trains, Append(trains, fields)}
    BY DEF EndElement, LeaveLocation, Capture, parserVars
  <2>3. complete' \in {complete, Append(complete, own)}  BY <1>1
  <2>4. trains' \in Seq(Train) /\ complete' \in Seq(Train)
    <3>1. ASSUME NEW S, NEW q \in Seq(S), NEW e \in S PROVE Append(q, e) \in Seq(S)  OBVIOUS
    <3>2. trains \in Seq(Train) /\ complete \in Seq(Train)  BY DEF XmlTypeOK
    <3>3. Append(trains, fields) \in Seq(Train) /\ Append(complete, own) \in Seq(Train)
      BY <1>2, <3>1, <3>2
    <3> QED  BY <2>2, <2>3, <3>2, <3>3
  <2>5. open' \in SUBSET Names  BY <1>1 DEF XmlTypeOK
  <2> QED  BY <1>1, <2>1, <2>4, <2>5 DEF XmlTypeOK
<1>4. CASE n = "ArrayOfTreinLocation"
  <2>1. open = InList  BY <1>1, <1>2, <1>4, AroundInnermost
  <2>2. open' = {}  BY <1>1, <1>4, <2>1 DEF InList
  <2>3. UNCHANGED parserVars  BY <1>4 DEF EndElement, EndIgnored
  <2>4. "TreinLocation" \notin open /\ "TreinMaterieelDelen" \notin open  BY <2>1 DEF InList
  <2>5. CaptureFor = "None"  BY <2>1, CaptureIn
  <2>6. CaptureFor' = "None"  BY <2>2 DEF CaptureFor
  <2>7. open' \in Nestings  BY <2>2 DEF Nestings
  <2> QED  BY <1>1, <1>3, <1>4, <2>2, <2>3, <2>4, <2>5, <2>6, <2>7 DEF parserVars, DocumentInv
<1>5. CASE n = "TreinLocation"
  <2>1. open = InTrain  BY <1>1, <1>2, <1>5, AroundInnermost
  <2>2. open' = InList  BY <1>1, <1>5, <2>1 DEF InTrain, InList
  <2>3. in_treinloc  BY <2>1 DEF DocumentInv, InTrain
  <2>4. LeaveLocation  BY <1>5, <2>3 DEF EndElement, EndIgnored
  <2>5. "TreinLocation" \notin open' /\ "TreinMaterieelDelen" \notin open' /\ open' \in Nestings
    BY <2>2 DEF InList, Nestings
  <2>6. CaptureFor' = "None"  BY <2>2, CaptureInNext
  <2>7. trains' = complete'  BY <1>1, <1>2, <1>5, <2>4 DEF LeaveLocation
  <2> QED  BY <1>1, <1>2, <1>3, <2>4, <2>5, <2>6, <2>7 DEF LeaveLocation, DocumentInv
<1>6. CASE n = "TreinMaterieelDelen"
  <2>1. open = InPart  BY <1>1, <1>2, <1>6, AroundInnermost
  <2>2. open' = InTrain  BY <1>1, <1>6, <2>1 DEF InPart, InTrain, InList
  <2>3. "TreinLocation" \in open /\ "TreinLocation" \in open' /\ "TreinMaterieelDelen" \notin open' /\ open' \in Nestings
    BY <2>1, <2>2 DEF InPart, InTrain, InList, Nestings
  <2>4. capture = "None" /\ CaptureFor' = "None"
    BY <2>1, <2>2, CaptureIn, CaptureInNext DEF DocumentInv
  <2>5. /\ in_first_part' = FALSE
        /\ UNCHANGED <<in_treinloc, seen_first_part, capture, fields, trains>>
    BY <1>6 DEF EndElement, EndIgnored, parserVars, DocumentInv
  <2> QED  BY <1>1, <1>2, <1>3, <1>6, <2>3, <2>4, <2>5 DEF DocumentInv
<1>7. CASE n = "TreinNummer"
  <2>1. open = InTrain \cup {"TreinNummer"}  BY <1>1, <1>2, <1>7, AroundInnermost
  <2>2. open' = InTrain  BY <1>1, <1>7, <2>1 DEF InTrain, InList
  <2>3. /\ "TreinLocation" \in open /\ "TreinLocation" \in open'
        /\ "TreinMaterieelDelen" \notin open /\ "TreinMaterieelDelen" \notin open' /\ open' \in Nestings
    BY <2>1, <2>2 DEF InTrain, InList, Nestings
  <2>4. CaptureFor' = "None"  BY <2>2, CaptureInNext
  <2>5. Capture("None")  BY <1>7 DEF EndElement, EndIgnored
  <2> QED  BY <1>1, <1>2, <1>3, <1>7, <2>3, <2>4, <2>5 DEF Capture, DocumentInv
<1>8. CASE n \in {"Longitude", "Latitude"}
  <2>1. open = InPart \cup {n}  BY <1>1, <1>2, <1>8, AroundInnermost
  <2>2. open' = InPart  BY <1>1, <1>8, <2>1 DEF InPart, InTrain, InList
  <2>3. /\ "TreinLocation" \in open /\ "TreinLocation" \in open'
        /\ "TreinMaterieelDelen" \in open /\ "TreinMaterieelDelen" \in open' /\ open' \in Nestings
    BY <2>1, <2>2 DEF InPart, InTrain, InList, Nestings
  <2>4. CaptureFor' = "None"  BY <2>2, CaptureInNext
  <2>5. Capture("None")  BY <1>8 DEF EndElement, EndIgnored
  <2> QED  BY <1>1, <1>2, <1>3, <1>8, <2>3, <2>4, <2>5 DEF Capture, DocumentInv
<1>9. CASE n = "other"
  <2>1. \/ open = InList \cup {"other"} \/ open = InTrain \cup {"other"} \/ open = InPart \cup {"other"}
    BY <1>1, <1>2, <1>9, AroundInnermost
  <2>2. open' \in {InList, InTrain, InPart}  BY <1>1, <1>9, <2>1 DEF InPart, InTrain, InList
  <2>3. UNCHANGED parserVars  BY <1>9 DEF EndElement, EndIgnored
  <2>4. /\ "TreinLocation" \in open' <=> "TreinLocation" \in open
        /\ "TreinMaterieelDelen" \in open' <=> "TreinMaterieelDelen" \in open
    BY <1>1, <1>9
  <2>5. open' \in Nestings  BY <2>2 DEF Nestings
  <2>6. capture = "None" /\ CaptureFor' = "None"
    BY <2>1, <2>2, CaptureIn, CaptureInNext DEF DocumentInv
  <2> QED  BY <1>1, <1>2, <1>3, <1>9, <2>3, <2>4, <2>5, <2>6 DEF parserVars, DocumentInv
<1> QED  BY <1>4, <1>5, <1>6, <1>7, <1>8, <1>9 DEF Names

(* At most one element is innermost, so an empty tag closes the one that was *)
(* started last.                                                             *)
LEMMA OneInnermost ==
    ASSUME open \in Nestings, NEW n \in Names, NEW m \in Names, Innermost(n), Innermost(m)
    PROVE  n = m
<1>1. m \in open /\ n \in open  BY DEF Innermost
<1>2. Depth[m] <= Depth[n] /\ Depth[n] <= Depth[m]  BY <1>1 DEF Innermost
<1>3. CASE n \in {"TreinNummer", "TreinMaterieelDelen"} /\ m \in {"TreinNummer", "TreinMaterieelDelen"}
  <2>1. ~("TreinNummer" \in open /\ "TreinMaterieelDelen" \in open)
    BY DEF Nestings, InPart, InTrain, InList
  <2> QED  BY <1>1, <1>3, <2>1
<1>4. CASE n \in {"Longitude", "Latitude"} /\ m \in {"Longitude", "Latitude"}
  <2>1. ~("Longitude" \in open /\ "Latitude" \in open)
    BY DEF Nestings, InPart, InTrain, InList
  <2> QED  BY <1>1, <1>4, <2>1
<1> QED  BY <1>2, <1>3, <1>4, Depths DEF Names

(* A text: the field it is captured for is the one it is meant for.          *)
LEMMA TextKeeps ==
    ASSUME XmlTypeOK, DocumentInv, NEW n \in Names, NEW parses \in BOOLEAN, Text(n, parses)
    PROVE  XmlTypeOK' /\ DocumentInv'
<1> DEFINE value == IF parses THEN [location |-> location, part |-> part, leaf |-> n] ELSE Missing
<1>1. /\ ~tag /\ Innermost(n)
      /\ own' = [f \in Fields |-> IF Means(n, f) THEN value ELSE own[f]]
      /\ fields' = [f \in Fields |-> IF f = capture THEN value ELSE fields[f]]
      /\ UNCHANGED <<open, tag, location, part, complete>>
      /\ UNCHANGED <<in_treinloc, seen_first_part, in_first_part, capture, trains, current_local>>
  BY DEF Text, Said
<1>2. value \in Texts \cup {Missing}  BY DEF Texts, XmlTypeOK
<1>3. fields' \in Train /\ own' \in Train
  BY <1>1, <1>2 DEF XmlTypeOK, Train
<1>4. XmlTypeOK'  BY <1>1, <1>3 DEF XmlTypeOK
<1>5. open \in Nestings /\ capture = CaptureFor /\ fields = own  BY DEF DocumentInv
<1>6. ASSUME NEW f \in Fields PROVE Means(n, f) <=> f = capture
  <2>1. CASE n = "TreinNummer"
    <3>1. capture = "Nummer"  BY <1>1, <1>5, <2>1, AroundInnermost, CaptureIn
    <3> QED  BY <2>1, <3>1 DEF Means, Fields
  <2>2. CASE n = "Longitude"
    <3>1. capture = IF part = 1 THEN "Lon" ELSE "None"  BY <1>1, <1>5, <2>2, AroundInnermost, CaptureIn
    <3> QED  BY <2>2, <3>1 DEF Means, Fields
  <2>3. CASE n = "Latitude"
    <3>1. capture = IF part = 1 THEN "Lat" ELSE "None"  BY <1>1, <1>5, <2>3, AroundInnermost, CaptureIn
    <3> QED  BY <2>3, <3>1 DEF Means, Fields
  <2>4. CASE n \in {"ArrayOfTreinLocation", "TreinLocation", "TreinMaterieelDelen", "other"}
    <3>1. open \in {InList, InTrain, InPart, InList \cup {"other"}, InTrain \cup {"other"}, InPart \cup {"other"}}
      BY <1>1, <1>5, <2>4, AroundInnermost
    <3>2. capture = "None"  BY <1>5, <3>1, CaptureIn
    <3> QED  BY <2>4, <3>2 DEF Means, Fields
  <2> QED  BY <2>1, <2>2, <2>3, <2>4 DEF Names
<1> HIDE DEF value
<1>7. fields' = own'  BY <1>1, <1>5, <1>6
<1>8. CaptureFor' = CaptureFor  BY <1>1 DEF CaptureFor
<1> QED  BY <1>1, <1>4, <1>7, <1>8 DEF DocumentInv

(* Every token keeps what is known of the document.                          *)
LEMMA TokenKeeps ==
    ASSUME XmlTypeOK, DocumentInv, Token
    PROVE  XmlTypeOK' /\ DocumentInv'
<1>1. CASE \E n \in Names : StartElement(n)  BY <1>1, StartKeeps
<1>2. CASE \E n \in Names : CloseElement(n)  BY <1>2, EndKeeps DEF CloseElement
<1>3. ASSUME NEW n \in Names, EmptyElement(n) PROVE XmlTypeOK' /\ DocumentInv'
  <2>1. Innermost(n) /\ Innermost(current_local) /\ open \in Nestings
    BY <1>3 DEF EmptyElement, Closed, DocumentInv
  <2>2. current_local \in Names  BY <2>1 DEF Innermost, XmlTypeOK
  <2>3. current_local = n  BY <2>1, <2>2, OneInnermost
  <2> QED  BY <1>3, <2>3, EndKeeps DEF EmptyElement
<1>4. CASE \E n \in Names, parses \in BOOLEAN : Text(n, parses)  BY <1>4, TextKeeps
<1>5. CASE OpenElement
  <2>1. tag' = FALSE /\ UNCHANGED <<parserVars, current_local, open, location, part, own, complete>>
    BY <1>5 DEF OpenElement
  <2>2. XmlTypeOK'  BY <2>1 DEF XmlTypeOK, parserVars
  <2>3. CaptureFor' = CaptureFor  BY <2>1 DEF CaptureFor
  <2> QED  BY <2>1, <2>2, <2>3 DEF DocumentInv, parserVars
<1> QED  BY <1>1, <1>2, <1>3, <1>4, <1>5 DEF Token

(* A new document.                                                           *)
LEMMA FirstDocument ==
    /\ <<>> \in Seq(Train) /\ {"ArrayOfTreinLocation"} \in SUBSET Names
    /\ 0 \in Nat /\ 0 \in 0 .. 2
<1>1. ASSUME NEW S PROVE <<>> \in Seq(S)  OBVIOUS
<1>2. {"ArrayOfTreinLocation"} \in SUBSET Names  BY DEF Names
<1> QED  BY <1>1, <1>2

LEMMA XmlResetKeeps ==
    ASSUME XmlReset PROVE XmlTypeOK' /\ DocumentInv'
<1>1. XmlTypeOK'  BY NoFieldsIsTrain, FirstDocument DEF XmlReset, XmlTypeOK
<1>2. CaptureFor' = "None"  BY DEF XmlReset, CaptureFor
<1> QED  BY <1>1, <1>2 DEF XmlReset, DocumentInv, Nestings, InList

LEMMA XmlInitEstablishes ==
    ASSUME XmlInit PROVE XmlTypeOK /\ DocumentInv
<1>1. XmlTypeOK  BY NoFieldsIsTrain, FirstDocument DEF XmlInit, XmlTypeOK
<1>2. CaptureFor = "None"  BY DEF XmlInit, CaptureFor
<1> QED  BY <1>1, <1>2 DEF XmlInit, DocumentInv, Nestings, InList

--------------------------------------------------------------------------------
(* The task.                                                                 *)

LEMMA InitIInv == FeedInit => IInv
<1> SUFFICES ASSUME FeedInit PROVE IInv  OBVIOUS
<1>1. XmlTypeOK /\ DocumentInv  BY XmlInitEstablishes DEF FeedInit
<1>2. SubscriberTypeOK
  <2>1. 1 \in 1 .. MaxParts /\ 64 \in Nat /\ 0 \in 0 .. 64  BY SubscriberAssumption
  <2>2. ASSUME NEW S PROVE <<>> \in Seq(S)  OBVIOUS
  <2> QED  BY <2>1, <2>2 DEF FeedInit, SubscriberInit, SubscriberTypeOK, Stages
<1>3. SessionInv
  BY DEF FeedInit, SubscriberInit, SessionInv, Aligned, PeerKnown, Numbered, Greeted, StopsOnlyOnFault
<1>4. DecompressorTypeOK /\ AllOfIt
  <2>1. 0 \in 0 .. MaxInput /\ 0 \in 0 .. BufLen /\ 0 \in 0 .. MaxSize /\ 0 \in Nat
    BY DecompressorAssumption
  <2>2. DecompressorInit  BY DEF FeedInit
  <2>3. DecompressorTypeOK  BY <2>1, <2>2 DEF DecompressorInit, DecompressorTypeOK
  <2>4. start = 0 /\ length = 0 /\ result = "none"  BY <2>2 DEF DecompressorInit
  <2> QED  BY <2>3, <2>4 DEF AllOfIt, HeaderInside, WholeText
<1> QED  BY <1>1, <1>2, <1>3, <1>4 DEF IInv, FeedTypeOK

(* Nothing of the session changes when only the place in the code does.      *)
LEMMA WorkKeepsSession ==
    ASSUME SubscriberTypeOK, SessionInv, UNCHANGED subscriberVars,
           at \in {"inflate", "parse", "apply"}, at' \in {"inflate", "parse", "apply"}
    PROVE  SubscriberTypeOK' /\ SessionInv'
<1>1. UNCHANGED <<field, want, filled, peer, frames, unread, place, lost, fault>>  BY DEF subscriberVars
<1>2. SubscriberTypeOK'  BY <1>1 DEF SubscriberTypeOK, Stages
<1>3. Aligned' /\ PeerKnown'  BY <1>1 DEF SessionInv, Aligned, PeerKnown
<1>4. Numbered' /\ Greeted' /\ StopsOnlyOnFault'
  BY <1>1 DEF SessionInv, Numbered, Greeted, StopsOnlyOnFault
<1> QED  BY <1>2, <1>3, <1>4 DEF SessionInv

LEMMA SameDecompressor ==
    ASSUME DecompressorTypeOK, AllOfIt, UNCHANGED decompressorVars
    PROVE  DecompressorTypeOK' /\ AllOfIt'
BY DEF decompressorVars, DecompressorTypeOK, AllOfIt, HeaderInside, WholeText

LEMMA SameDocument ==
    ASSUME XmlTypeOK, DocumentInv, UNCHANGED xmlVars
    PROVE  XmlTypeOK' /\ DocumentInv' /\ open' = open
<1>1. /\ UNCHANGED <<in_treinloc, seen_first_part, in_first_part, capture, fields, trains, current_local>>
      /\ UNCHANGED <<open, tag, location, part, own, complete>>
  BY DEF xmlVars, parserVars, documentVars
<1>2. XmlTypeOK'  BY <1>1 DEF XmlTypeOK
<1>3. CaptureFor' = CaptureFor  BY <1>1 DEF CaptureFor
<1>4. DocumentInv'  BY <1>1, <1>3 DEF DocumentInv, Innermost
<1> QED  BY <1>1, <1>2, <1>4

LEMMA NextIInv == IInv /\ [FeedNext]_feedVars => IInv'
<1> SUFFICES ASSUME IInv, [FeedNext]_feedVars PROVE IInv'  OBVIOUS
<1>1. /\ SubscriberTypeOK /\ DecompressorTypeOK /\ XmlTypeOK
      /\ SessionInv /\ AllOfIt /\ DocumentInv
  BY DEF IInv, FeedTypeOK
<1>2. ASSUME SubscriberTypeOK', DecompressorTypeOK', XmlTypeOK',
             SessionInv', AllOfIt', DocumentInv'
      PROVE  IInv'
  BY <1>2 DEF IInv, FeedTypeOK
<1>3. CASE Session
  <2>1. SubscriberTypeOK' /\ SessionInv'  BY <1>1, <1>3, SessionKeeps DEF Session
  <2>2. DecompressorTypeOK' /\ AllOfIt'  BY <1>1, <1>3, SameDecompressor DEF Session
  <2>3. XmlTypeOK' /\ DocumentInv'  BY <1>1, <1>3, SameDocument DEF Session
  <2> QED  BY <1>2, <2>1, <2>2, <2>3
<1>4. CASE SkipMessage
  <2>1. SubscriberTypeOK' /\ SessionInv'  BY <1>1, <1>4, RecvAgainKeeps DEF SkipMessage
  <2>2. DecompressorTypeOK' /\ AllOfIt'  BY <1>1, <1>4, SameDecompressor DEF SkipMessage
  <2>3. XmlTypeOK' /\ DocumentInv'  BY <1>1, <1>4, SameDocument DEF SkipMessage
  <2> QED  BY <1>2, <2>1, <2>2, <2>3
<1>5. CASE TakePayload
  <2>1. at = "message" /\ at' = "inflate" /\ frames' = <<>>
        /\ UNCHANGED <<field, want, filled, peer, unread, place, lost, fault, xmlVars>>
    BY <1>5 DEF TakePayload
  <2>2. DecompressorTypeOK' /\ AllOfIt'
    <3>1. PICK b \in Payloads : InflateGzip(b)  BY <1>5 DEF TakePayload
    <3> QED  BY <3>1, InflateGzipKeeps
  <2>3. XmlTypeOK' /\ DocumentInv'  BY <1>1, <2>1, SameDocument
  <2>4. SubscriberTypeOK'
    <3>1. ASSUME NEW S PROVE <<>> \in Seq(S)  OBVIOUS
    <3> QED  BY <1>1, <2>1, <3>1 DEF SubscriberTypeOK, Stages
  <2>5. SessionInv'
    <3>1. Aligned' /\ PeerKnown' /\ Greeted' /\ StopsOnlyOnFault'
      BY <1>1, <2>1 DEF SessionInv, Aligned, PeerKnown, Greeted, StopsOnlyOnFault
    <3>2. Len(<<>>) = 0  OBVIOUS
    <3>3. Numbered'  BY <1>1, <2>1, <3>2 DEF SessionInv, Numbered
    <3> QED  BY <3>1, <3>3 DEF SessionInv
  <2> QED  BY <1>2, <2>2, <2>3, <2>4, <2>5
<1>6. CASE InflateStep
  <2>1. at = "inflate" /\ at' = "inflate" /\ UNCHANGED <<subscriberVars, xmlVars>>
    BY <1>6 DEF InflateStep
  <2>2. DecompressorTypeOK' /\ AllOfIt'  BY <1>1, <1>6, InflateKeeps, NotUtf8Keeps DEF InflateStep
  <2>3. XmlTypeOK' /\ DocumentInv'  BY <1>1, <2>1, SameDocument
  <2>4. SubscriberTypeOK' /\ SessionInv'  BY <1>1, <2>1, WorkKeepsSession
  <2> QED  BY <1>2, <2>2, <2>3, <2>4
<1>7. CASE DecompressError
  <2>1. SubscriberTypeOK' /\ SessionInv'  BY <1>1, <1>7, RecvAgainKeeps DEF DecompressError
  <2>2. DecompressorTypeOK' /\ AllOfIt'  BY <1>7, ResetKeeps DEF DecompressError
  <2>3. XmlTypeOK' /\ DocumentInv'  BY <1>1, <1>7, SameDocument DEF DecompressError
  <2> QED  BY <1>2, <2>1, <2>2, <2>3
<1>8. CASE Inflated
  <2>1. /\ at = "inflate" /\ at' = "parse"
        /\ DecompressorReset /\ XmlReset /\ UNCHANGED subscriberVars
    BY <1>8 DEF Inflated
  <2>2. DecompressorTypeOK' /\ AllOfIt'  BY <2>1, ResetKeeps
  <2>3. XmlTypeOK' /\ DocumentInv'  BY <2>1, XmlResetKeeps
  <2>4. SubscriberTypeOK' /\ SessionInv'  BY <1>1, <2>1, WorkKeepsSession
  <2> QED  BY <1>2, <2>2, <2>3, <2>4
<1>9. CASE ParseToken
  <2>1. at = "parse" /\ at' = at /\ Token /\ UNCHANGED <<subscriberVars, decompressorVars>>
    BY <1>9 DEF ParseToken
  <2>2. DecompressorTypeOK' /\ AllOfIt'  BY <1>1, <2>1, SameDecompressor
  <2>3. XmlTypeOK' /\ DocumentInv'  BY <1>1, <2>1, TokenKeeps
  <2>4. SubscriberTypeOK' /\ SessionInv'  BY <1>1, <2>1, WorkKeepsSession
  <2> QED  BY <1>2, <2>2, <2>3, <2>4
<1>10. CASE EndOfDocument
  <2>1. /\ at = "parse" /\ at' = "apply"
        /\ UNCHANGED <<subscriberVars, decompressorVars, xmlVars>>
    BY <1>10 DEF EndOfDocument
  <2>2. DecompressorTypeOK' /\ AllOfIt'  BY <1>1, <2>1, SameDecompressor
  <2>3. XmlTypeOK' /\ DocumentInv'  BY <1>1, <2>1, SameDocument
  <2>4. SubscriberTypeOK' /\ SessionInv'  BY <1>1, <2>1, WorkKeepsSession
  <2> QED  BY <1>2, <2>2, <2>3, <2>4
<1>11. CASE Applied
  <2>1. SubscriberTypeOK' /\ SessionInv'  BY <1>1, <1>11, RecvAgainKeeps DEF Applied
  <2>2. DecompressorTypeOK' /\ AllOfIt'  BY <1>1, <1>11, SameDecompressor DEF Applied
  <2>3. XmlTypeOK' /\ DocumentInv'  BY <1>11, XmlResetKeeps DEF Applied
  <2> QED  BY <1>2, <2>1, <2>2, <2>3
<1>12. CASE UNCHANGED feedVars
  <2>1. at' = at /\ UNCHANGED <<subscriberVars, decompressorVars, xmlVars>>
    BY <1>12 DEF feedVars
  <2>2. DecompressorTypeOK' /\ AllOfIt'  BY <1>1, <2>1, SameDecompressor
  <2>3. XmlTypeOK' /\ DocumentInv'  BY <1>1, <2>1, SameDocument
  <2>4. SubscriberTypeOK' /\ SessionInv'
    BY <1>1, <2>1 DEF subscriberVars, SubscriberTypeOK, SessionInv, Aligned, PeerKnown, Numbered,
                      Greeted, StopsOnlyOnFault
  <2> QED  BY <1>2, <2>2, <2>3, <2>4
<1> QED
  BY <1>3, <1>4, <1>5, <1>6, <1>7, <1>8, <1>9, <1>10, <1>11, <1>12 DEF FeedNext

(* The invariant of the feed's input, for every size of its buffers.         *)
THEOREM AlwaysIInv == FeedSpec => []IInv
BY InitIInv, NextIInv, PTL DEF FeedSpec

(* Every variable of the task and of what it is given has its type: the      *)
(* decompressor writes no further than its buffer goes, read_exact never     *)
(* fills more than it was asked for.                                         *)
THEOREM TypeCorrect == FeedSpec => []FeedTypeOK
BY AlwaysIInv, PTL DEF IInv

(* However the bytes are cut into reads, the subscriber is in step with its  *)
(* peer until a length does not fit in a usize.                              *)
THEOREM StaysInStep == FeedSpec => []InStep
<1>1. IInv => InStep
  <2> SUFFICES ASSUME IInv, "over_word" \notin fault, lost \/ (filled = want /\ unread # 0) PROVE FALSE
    BY DEF InStep
  <2>1. ~lost /\ unread = want - filled  BY DEF IInv, SessionInv, Aligned
  <2>2. want \in Nat  BY DEF IInv, FeedTypeOK, SubscriberTypeOK
  <2> QED  BY <2>1, <2>2
<1> QED  BY <1>1, AlwaysIInv, PTL

(* In step, recv returns the frames of one message, all and in order.        *)
THEOREM MessagesAreWhole == FeedSpec => []OneMessage
<1>1. IInv => OneMessage  BY DEF IInv, SessionInv, Numbered, OneMessage
<1> QED  BY <1>1, AlwaysIInv, PTL

(* The feed task stops for a fault of the network or of the peer only; no    *)
(* payload stops it.                                                         *)
THEOREM PayloadsDoNotStopIt == FeedSpec => []StopsOnlyOnFault
<1>1. IInv => StopsOnlyOnFault  BY DEF IInv, SessionInv
<1> QED  BY <1>1, AlwaysIInv, PTL

(* skip_header stays inside the payload, for every header.                   *)
THEOREM HeaderStaysInside == FeedSpec => []HeaderInside
<1>1. IInv => HeaderInside  BY DEF IInv, AllOfIt
<1> QED  BY <1>1, AlwaysIInv, PTL

(* The text that is parsed for a whole payload is all of it, for every size  *)
(* of the buffer and however inflate divides its work into calls.            *)
THEOREM TextIsWhole == FeedSpec => []WholeText
<1>1. IInv => WholeText  BY DEF IInv, AllOfIt
<1> QED  BY <1>1, AlwaysIInv, PTL

(* The parser hands on the trains that the document describes completely,    *)
(* each with its own fields, for documents of any length.                    *)
THEOREM TrainsAsDescribed == FeedSpec => []OwnFieldsOnly
<1>1. IInv => OwnFieldsOnly  BY DEF IInv, DocumentInv, OwnFieldsOnly
<1> QED  BY <1>1, AlwaysIInv, PTL

--------------------------------------------------------------------------------
(* The loop of inflate_gzip.                                                 *)

(* Only the call of inflate_gzip leaves a result, until it is looked at.     *)
LoopInside == result = "running" => at = "inflate"

(* What the loop has left: input to take, and room to fill.                  *)
Left == input + (BufLen - written)

LEMMA SessionIsOutside ==
    ASSUME SessionStep
    PROVE  at # "inflate"
BY DEF SessionStep, Reading, NetworkFails, Resolve, Connect, SendReady, Subscribe,
       ReadGreeting, ReadFlags, ReadLength, ReadReady, RecvFrame, Full

(* A step of the task either leaves the payload alone or is inside the call, *)
(* or is before or after it.                                                 *)
LEMMA LoopSteps ==
    ASSUME LoopInside, FeedNext
    PROVE  \/ UNCHANGED <<result, input, written>> /\ result # "running"
           \/ Inflate /\ at = "inflate" /\ at' = "inflate"
           \/ result # "running" /\ at' = "inflate"
           \/ result # "running" /\ result' # "running"
<1>1. CASE Session  BY <1>1, SessionIsOutside DEF LoopInside, Session, decompressorVars
<1>2. CASE SkipMessage \/ ParseToken \/ EndOfDocument \/ Applied
  BY <1>2 DEF LoopInside, SkipMessage, ParseToken, EndOfDocument, Applied, decompressorVars
<1>3. CASE TakePayload  BY <1>3 DEF LoopInside, TakePayload
<1>4. CASE InflateStep
  <2>1. CASE Inflate  BY <1>4, <2>1 DEF InflateStep
  <2>2. CASE NotUtf8  BY <1>4, <2>2 DEF InflateStep, NotUtf8
  <2> QED  BY <1>4, <2>1, <2>2 DEF InflateStep
<1>5. CASE DecompressError \/ Inflated
  BY <1>5 DEF DecompressError, Inflated, DecompressorReset
<1> QED  BY <1>1, <1>2, <1>3, <1>4, <1>5 DEF FeedNext

(* A turn of the loop that does not end it has taken input or filled room.   *)
LEMMA TurnUsesSome ==
    ASSUME DecompressorTypeOK, Inflate, result' = "running"
    PROVE  Left' < Left /\ Left' \in Nat
<1>1. InflateSome  BY DEF Inflate, Overflow, InflateEnd, InflateStuck, InflateError, Ends
<1>2. PICK c \in Calls : Call(c) /\ (c.consumed > 0 \/ c.written > 0)  BY <1>1 DEF InflateSome
<1>3. c.consumed \in 0 .. input /\ c.written \in 0 .. (BufLen - written)  BY DEF Calls
<1>4. input \in Nat /\ written \in 0 .. BufLen /\ BufLen \in Nat
    BY DecompressorAssumption DEF DecompressorTypeOK
<1>5. input' = input - c.consumed /\ written' = written + c.written  BY <1>2 DEF Call
<1>6. input' \in Nat /\ written' \in 0 .. BufLen  BY <1>3, <1>4, <1>5
<1>7. Left' \in Nat
  <2>1. BufLen - written' \in Nat
    <3> DEFINE w == written'
    <3>1. w \in 0 .. BufLen /\ BufLen \in Nat  BY <1>4, <1>6
    <3> HIDE DEF w
    <3>2. BufLen - w \in Nat  BY <3>1
    <3> QED  BY <3>2 DEF w
  <2>2. Left' = input' + (BufLen - written')  BY DEF Left
  <2> QED  BY <1>6, <2>1, <2>2
<1>8. Left' < Left  BY <1>2, <1>3, <1>4, <1>5 DEF Left
<1> QED  BY <1>7, <1>8

(* Every turn of inflate_gzip's loop that does not end it leaves less input  *)
(* or less room than before: the loop has at most as many turns as the       *)
(* payload and the buffer have bytes, for every stream, damaged ones too.    *)
THEOREM LoopUsesUp ==
    FeedSpec => [][result = "running" /\ result' = "running" => Left' < Left /\ Left' \in Nat]_feedVars
<1>1. FeedInit => LoopInside  BY DEF FeedInit, DecompressorInit, LoopInside
<1>2. LoopInside /\ [FeedNext]_feedVars => LoopInside'
  <2> SUFFICES ASSUME LoopInside, [FeedNext]_feedVars PROVE LoopInside'  OBVIOUS
  <2>1. CASE FeedNext  BY <2>1, LoopSteps DEF LoopInside
  <2>2. CASE UNCHANGED feedVars  BY <2>2 DEF LoopInside, feedVars, decompressorVars
  <2> QED  BY <2>1, <2>2
<1>3. FeedSpec => []LoopInside  BY <1>1, <1>2, PTL DEF FeedSpec
<1>4. IInv /\ LoopInside /\ [FeedNext]_feedVars
          => [result = "running" /\ result' = "running" => Left' < Left /\ Left' \in Nat]_feedVars
  <2> SUFFICES ASSUME IInv, LoopInside, FeedNext, result = "running", result' = "running"
               PROVE  Left' < Left /\ Left' \in Nat
      OBVIOUS
  <2>1. Inflate  BY LoopSteps
  <2> QED  BY <2>1, TurnUsesSome DEF IInv, FeedTypeOK
<1> QED  BY <1>3, <1>4, AlwaysIInv, PTL DEF FeedSpec
================================================================================

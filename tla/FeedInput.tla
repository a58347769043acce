------------------------------- MODULE FeedInput -------------------------------
(* feed::run from the socket to the batch of trains it applies to the        *)
(* registry: the session of the subscriber, the gzip payload of each message *)
(* and the document in it.  What applying a batch does is in Enrichment.     *)
EXTENDS Subscriber, Decompressor, XmlParser

feedVars == <<at, subscriberVars, decompressorVars, xmlVars>>

FeedTypeOK ==
    /\ SubscriberTypeOK
    /\ DecompressorTypeOK
    /\ XmlTypeOK

FeedInit ==
    /\ SubscriberInit
    /\ DecompressorInit
    /\ XmlInit

(* From resolving the publisher to a message of recv.                        *)
Session ==
    /\ SessionStep
    /\ UNCHANGED <<decompressorVars, xmlVars>>

(* frames.len() < 2: continue                                                *)
SkipMessage ==
    /\ at = "message" /\ Len(frames) < 2
    /\ RecvAgain
    /\ UNCHANGED <<decompressorVars, xmlVars>>

(* The second frame is the payload.                                          *)
TakePayload ==
    /\ at = "message" /\ Len(frames) >= 2
    /\ at' = "inflate"
    /\ \E b \in Payloads : InflateGzip(b)
    /\ frames' = <<>>
    /\ UNCHANGED <<field, want, filled, peer, unread, place, lost, fault, xmlVars>>

InflateStep ==
    /\ at = "inflate"
    /\ Inflate \/ NotUtf8
    /\ UNCHANGED <<at, subscriberVars, xmlVars>>

(* Mutation: inflate_gzip's error is unwrapped as that of recv is.           *)
DecompressErrorUnwrapped ==
    /\ at = "inflate" /\ result \notin {"running", "ok"}
    /\ Panic({})
    /\ UNCHANGED <<decompressorVars, xmlVars>>

(* Err(e): the message is dropped.                                           *)
DecompressError ==
    /\ at = "inflate" /\ result \notin {"running", "ok"}
    /\ RecvAgain
    /\ DecompressorReset
    /\ UNCHANGED xmlVars

(* trains.clear() and xml_parser::parse                                      *)
Inflated ==
    /\ at = "inflate" /\ result = "ok"
    /\ at' = "parse"
    /\ XmlReset
    /\ DecompressorReset
    /\ UNCHANGED subscriberVars

ParseToken ==
    /\ at = "parse"
    /\ Token
    /\ UNCHANGED <<at, subscriberVars, decompressorVars>>

(* The tokenizer has come to the end, or to something it cannot read: its    *)
(* errors are left out (flatten), and it stops at the first.  The batch so   *)
(* far is applied, wherever in the document that is.                         *)
EndOfDocument ==
    /\ at = "parse"
    /\ at' = "apply"
    /\ UNCHANGED <<subscriberVars, decompressorVars, xmlVars>>

(* The batch is applied, and the task waits for the next message.            *)
Applied ==
    /\ at = "apply"
    /\ RecvAgain
    /\ XmlReset
    /\ UNCHANGED decompressorVars

FeedNext ==
    \/ Session \/ SkipMessage
    \/ TakePayload \/ InflateStep \/ DecompressError \/ Inflated
    \/ ParseToken \/ EndOfDocument \/ Applied

(* The feed task inflates without waiting for anything.  That a damaged      *)
(* stream is found out is not relied on.                                     *)
InflateWithoutError == InflateStep /\ result' # "inflate"

FeedSpec == FeedInit /\ [][FeedNext]_feedVars /\ WF_feedVars(InflateWithoutError)

--------------------------------------------------------------------------------
(* Properties.                                                               *)

(* The task panics only for what the network or the peer did wrong: a        *)
(* message without a payload, a payload that does not inflate or is not text *)
(* and a document that cannot be read are passed over.                       *)
StopsOnlyOnFault == at = "panicked" => fault # {}

(* The loop of inflate_gzip comes to an end for every payload, also when the *)
(* stream is cut short or the buffer is full.                                *)
InflateEnds == (at = "inflate" /\ result = "running") ~> (result # "running")
================================================================================

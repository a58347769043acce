----------------------------- MODULE Decompressor -----------------------------
(* decompress::Decompressor::inflate_gzip: the gzip header is skipped and    *)
(* the rest is inflated into a buffer of fixed length.                       *)
(*                                                                           *)
(* A payload is known by its length and by what skip_header finds in it; the *)
(* deflate stream after the header by how much it yields and by the bites in *)
(* which its input is taken.                                                 *)
EXTENDS Integers

CONSTANTS
    Bad,        \* None, no header
    BufLen,     \* buf.len() (XML_BUF_LEN)
    MaxInput,   \* bound on the bites of a payload's input
    MaxSize,    \* bound on what a payload yields
    MaxGzip,    \* bound on the length of a payload
    MaxField    \* bound on the length of an optional field of its header

ASSUME DecompressorAssumption ==
    /\ Bad \notin Nat
    /\ BufLen \in Nat \ {0} /\ MaxInput \in Nat \ {0}
    /\ MaxSize \in Nat /\ MaxGzip \in Nat /\ MaxField \in Nat

VARIABLES
    result,   \* of inflate_gzip: "running", "ok" or its error
    start,    \* header_len
    length,   \* payload.len()
    input,    \* what is left of the input
    written,
    whole,    \* history: the payload is a whole and valid deflate stream
    size      \* history: what there is to get out of the payload

decompressorVars == <<result, start, length, input, written, whole, size>>

DecompressorTypeOK ==
    /\ result \in {"none", "running", "ok", "bad_header", "overflow", "inflate", "not_utf8"}
    /\ start \in Nat \cup {Bad} /\ length \in Nat
    /\ input \in 0 .. MaxInput
    /\ written \in 0 .. BufLen
    /\ whole \in BOOLEAN
    /\ size \in 0 .. MaxSize

DecompressorInit ==
    /\ result = "none"
    /\ start = 0 /\ length = 0
    /\ input = 0 /\ written = 0
    /\ whole = FALSE /\ size = 0

(* The variables between two calls.                                          *)
DecompressorReset ==
    /\ result' = "none"
    /\ start' = 0 /\ length' = 0
    /\ input' = 0 /\ written' = 0
    /\ whole' = FALSE /\ size' = 0

--------------------------------------------------------------------------------
(* skip_header: every optional field that the flags announce moves the       *)
(* position on, and there is no header if it does not fit.                   *)

(* name and comment: the bytes before the next NUL.                          *)
Payloads == [len : 0 .. MaxGzip, magic : BOOLEAN,
             flags : SUBSET {"FEXTRA", "FNAME", "FCOMMENT", "FHCRC"},
             xlen : 0 .. MaxField, name : 0 .. MaxField, comment : 0 .. MaxField]

(* Mutation: the extra field may reach beyond the payload.                   *)
SkipExtraBlindly(p, b) ==
    IF "FEXTRA" \notin b.flags THEN p
    ELSE IF b.len < p + 2 THEN Bad ELSE p + 2 + b.xlen

SkipExtra(p, b) ==
    IF "FEXTRA" \notin b.flags THEN p
    ELSE IF b.len < p + 2 \/ b.len < p + 2 + b.xlen THEN Bad ELSE p + 2 + b.xlen

(* position(|&b| b == 0)?                                                    *)
SkipText(p, b, flag, text) ==
    IF p = Bad \/ flag \notin b.flags THEN p
    ELSE IF p + text >= b.len THEN Bad ELSE p + text + 1

SkipCrc(p, b) ==
    IF p = Bad \/ "FHCRC" \notin b.flags THEN p
    ELSE IF b.len < p + 2 THEN Bad ELSE p + 2

SkipHeader(b) ==
    IF b.len < 10 \/ ~b.magic THEN Bad
    ELSE SkipCrc(SkipText(SkipText(SkipExtra(10, b), b, "FNAME", b.name),
                          b, "FCOMMENT", b.comment), b)

--------------------------------------------------------------------------------
(* inflate_gzip.                                                             *)

InflateGzip(b) ==
    /\ start' = SkipHeader(b)
    /\ length' = b.len
    /\ written' = 0
    /\ IF SkipHeader(b) = Bad
       THEN /\ result' = "bad_header"
            /\ input' = 0 /\ whole' = FALSE /\ size' = 0
       ELSE /\ result' = "running"
            /\ input' \in 0 .. MaxInput
            /\ whole' \in (IF input' = 0 THEN {FALSE} ELSE BOOLEAN)
            /\ size' \in 0 .. MaxSize

Ends(r) == result' = r /\ UNCHANGED <<start, length, input, written, whole, size>>

Overflow ==
    /\ written = BufLen
    /\ Ends("overflow")

(* Mutation: the room of a call is that of the whole buffer.                 *)
CallsOnWholeBuffer == [consumed : 0 .. input, written : 0 .. BufLen]

(* What a call of miniz_oxide's inflate takes of the input and puts in the   *)
(* rest of the buffer.                                                       *)
Calls == [consumed : 0 .. input, written : 0 .. (BufLen - written)]

Call(c) ==
    /\ written + c.written <= size
    /\ input' = input - c.consumed
    /\ written' = written + c.written
    /\ UNCHANGED <<start, length, whole, size>>

AllOut == input' = 0 /\ written' = size

(* Ok(StreamEnd)                                                             *)
InflateEnd ==
    \E c \in Calls :
       /\ Call(c)
       /\ whole /\ written' = size
       /\ result' = "ok"

(* Ok(_) with progress                                                       *)
InflateSome ==
    \E c \in Calls :
       /\ Call(c)
       /\ c.consumed > 0 \/ c.written > 0
       /\ ~(whole /\ AllOut)
       /\ UNCHANGED result

(* Mutation: the loop goes on when a call makes no progress.                 *)
InflateStuckAgain ==
    /\ (~whole /\ input = 0 /\ written = size) \/ written = BufLen
    /\ UNCHANGED decompressorVars

(* Ok(_) without progress, when there is nothing to take or no room: the end *)
(* of useful data.                                                           *)
InflateStuck ==
    /\ (~whole /\ input = 0 /\ written = size) \/ written = BufLen
    /\ Ends("ok")

(* Err(_), of a stream that is damaged or cut short                          *)
InflateError == ~whole /\ Ends("inflate")

(* Mutation: a full buffer is not an error.                                  *)
InflateWithoutOverflow ==
    /\ result = "running"
    /\ InflateEnd \/ InflateSome \/ InflateStuck \/ InflateError

(* One turn of the loop.                                                     *)
Inflate ==
    /\ result = "running"
    /\ \/ Overflow
       \/ written # BufLen /\ (InflateEnd \/ InflateSome \/ InflateStuck \/ InflateError)

(* from_utf8 of what is not text                                             *)
NotUtf8 ==
    /\ result = "ok"
    /\ Ends("not_utf8")

--------------------------------------------------------------------------------
(* Properties.                                                               *)

(* skip_header never leaves the payload: header_len, the start of the slice  *)
(* that is inflated, is at most its length, whatever optional fields the     *)
(* header announces.                                                         *)
HeaderInside == start # Bad => start <= length

(* What inflate_gzip returns for a whole payload is all of its text: a text  *)
(* longer than the buffer is an overflow, and is never handed on cut where   *)
(* the buffer ends.                                                          *)
WholeText == result = "ok" /\ whole => written = size

================================================================================

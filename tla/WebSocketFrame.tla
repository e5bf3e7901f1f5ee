--------------------------- MODULE WebSocketFrame ---------------------------
(* websocket/WebSocketFrame.h: the bytes of a frame's header and how many  *)
(* bytes the frame has.  A receiver tries to decode what has arrived so    *)
(* far, which may end inside the header, inside the payload, or go on with *)
(* the next frame.  The payload is its length: the mask, applied twice     *)
(* with the same key, leaves it as it was.                                 *)
EXTENDS Integers, Sequences, SequencesExt

CONSTANTS Opcodes, PayloadLens

VARIABLE codec      \* the frame sent, the bytes received, the last DecodeResult

codecVars == <<codec>>

\* (n >> 8 * k) & 0xFF
ByteOf(n, k) == IF k > 3 THEN 0 ELSE (n \div 256 ^ k) % 256

BigEndian(n, width) == [i \in 1 .. width |-> ByteOf(n, width - i)]

Bit(b) == IF b THEN 1 ELSE 0

\* Mutant of LengthBytes: the longest short length is 126
LengthBytesOver(mask, len) ==
    CASE len <= 126 -> <<128 * Bit(mask) + len>>
      [] len > 126 /\ len <= 65535 -> <<128 * Bit(mask) + 126>> \o BigEndian(len, 2)
      [] len > 65535 -> <<128 * Bit(mask) + 127>> \o BigEndian(len, 8)

\* The second byte and the extended length
LengthBytes(mask, len) ==
    CASE len <= 125 -> <<128 * Bit(mask) + len>>
      [] len > 125 /\ len <= 65535 -> <<128 * Bit(mask) + 126>> \o BigEndian(len, 2)
      [] len > 65535 -> <<128 * Bit(mask) + 127>> \o BigEndian(len, 8)

MaskingKey == <<7, 7, 7, 7>>

\* encodeRaw: no reserved bits (sendText, sendBinary)
EncodeRaw(f) ==
    <<128 * Bit(f.fin) + f.opcode>> \o LengthBytes(f.mask, f.len)
        \o IF f.mask THEN MaskingKey ELSE <<>>

\* encode: the same with the reserved bits (control frames, the client's frames)
Encode(f) ==
    <<128 * Bit(f.fin) + 16 * f.rsv + f.opcode>> \o LengthBytes(f.mask, f.len)
        \o IF f.mask THEN MaskingKey ELSE <<>>

Header(f) == IF f.rsv = 0 THEN EncodeRaw(f) ELSE Encode(f)
FrameSize(f) == Len(Header(f)) + f.len

\* A byte of the frame; the payload's are zero
ByteAt(h, i) == IF i <= Len(h) THEN h[i] ELSE 0

Undecided == [status |-> "Incomplete", consumed |-> 0]

\* decode, of a frame whose header is h and of which len bytes are there
Decode(h, len) ==
    IF len < 2 THEN Undecided
    ELSE LET mask  == h[2] >= 128
             short == h[2] % 128
             ext   == CASE short = 126 -> 2 [] short = 127 -> 8 [] OTHER -> 0
         IN IF len < 2 + ext THEN Undecided
            ELSE LET payloadLen == IF ext = 0 THEN short
                                   ELSE FoldLeft(LAMBDA n, b : 256 * n + b, 0,
                                                 [i \in 1 .. ext |-> ByteAt(h, 2 + i)])
                     headerSize == 2 + ext + IF mask THEN 4 ELSE 0
                 IN IF len < headerSize + payloadLen THEN Undecided
                    ELSE [status |-> "Ok", consumed |-> headerSize + payloadLen,
                          frame |-> [fin |-> h[1] >= 128, rsv |-> (h[1] \div 16) % 8,
                                     opcode |-> h[1] % 16, mask |-> mask,
                                     len |-> payloadLen]]

SomeFrames == [fin : BOOLEAN, rsv : {0, 5}, opcode : Opcodes, mask : BOOLEAN,
               len : PayloadLens]

CodecInit == \E f \in SomeFrames :
                codec = [frame |-> f, have |-> 0, result |-> Undecided]

\* More bytes arrive, up to some of the next frame's, and decode is tried again.
Receive ==
    \E n \in (1 .. 15) \cup {FrameSize(codec.frame) + d : d \in {-1, 0, 1}} :
       /\ n > codec.have
       /\ codec' = [codec EXCEPT !.have = n, !.result = Decode(Header(codec.frame), n)]

(* Whatever the length of the payload, decode (WebSocketFrame.h:315-391)   *)
(* answers Incomplete until the last byte of the frame is there, and then  *)
(* gives back the frame that was encoded (:143-266) and consumes its bytes *)
(* and no other.                                                           *)
CodecExact ==
    IF codec.have < FrameSize(codec.frame)
    THEN codec.result = Undecided
    ELSE codec.result = [status |-> "Ok", consumed |-> FrameSize(codec.frame),
                         frame |-> codec.frame]
=============================================================================

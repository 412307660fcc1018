------------------------------ MODULE MediaTiming ------------------------------
(***************************************************************************)
(* How far a packet that the scrcpy session read moves the RTP clock of    *)
(* its track: opus.go, and the durations that streamVideo and streamAudio  *)
(* of src/internal/gateway/gateway.go give to a sample.  Pure functions,   *)
(* in microseconds.  Of an Opus packet they look at its length and its     *)
(* first two octets.                                                       *)
(***************************************************************************)
EXTENDS Integers

Octet == 0..255
OpusPacket == [len : Nat, toc : Octet, second : Octet]

(* opusFrameDurationUs: the frame size of a TOC config, which is 0..31.    *)
FrameDuration(config) ==
  LET pick(sizes, i) == sizes[i + 1]
  IN  IF config < 12 THEN pick(<<10000, 20000, 40000, 60000>>, config % 4)
      ELSE IF config < 16 THEN pick(<<10000, 20000>>, (config - 12) % 2)
      ELSE pick(<<2500, 5000, 10000, 20000>>, (config - 16) % 4)

(* opusPacketDuration: frames by the two low bits of the TOC; 0 stands for *)
(* a packet that is not ok.                                                *)
Config(packet) == packet.toc \div 8
Code(packet) == packet.toc % 4
Count(packet) == packet.second % 64
Vbr(packet) == packet.second >= 128

Frames(packet) ==
  IF Code(packet) = 0 THEN 1 ELSE IF Code(packet) \in {1, 2} THEN 2 ELSE Count(packet)

Needed(packet) ==
  IF Code(packet) \in {0, 1} THEN 1
  ELSE IF Code(packet) = 3 /\ Vbr(packet) THEN 1 + Count(packet) ELSE 2

PacketDuration(packet) ==
  LET duration == Frames(packet) * FrameDuration(Config(packet))
  IN  IF /\ packet.len >= 1 /\ packet.len >= Needed(packet)
         /\ Frames(packet) \in 1..48
         /\ duration <= 120000
      THEN duration ELSE 0

(* streamAudio keeps a nominal duration for what is malformed.             *)
AudioDuration(packet) == IF PacketDuration(packet) = 0 THEN 20000 ELSE PacketDuration(packet)

(* streamVideo: the gap to the frame before it, if it is one.              *)
VideoDuration(previous, pts) ==
  IF previous > 0 /\ pts > previous /\ pts - previous < 1000000 THEN pts - previous ELSE 16000

-----------------------------------------------------------------------------
(* The durations of RFC 6716, sections 3.1 and 3.2, which opus.go:7-9 and  *)
(* 26-30 refer to: modes with their bandwidths, sizes and first config.    *)
Modes ==
  { [first |-> 0,  bandwidths |-> 3, sizes |-> <<10000, 20000, 40000, 60000>>],
    [first |-> 12, bandwidths |-> 2, sizes |-> <<10000, 20000>>],
    [first |-> 16, bandwidths |-> 4, sizes |-> <<2500, 5000, 10000, 20000>>] }
=============================================================================

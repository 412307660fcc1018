--------------------------- MODULE MCScrcpySession ---------------------------
(* Instance of ScrcpySession for TLC: the constants are given in the cfg.  *)
(* The packets a session reads are timed by MediaTiming, which TLC         *)
(* evaluates here.                                                         *)
EXTENDS ScrcpySession, MediaTiming

Packet(toc, second, len) == [toc |-> toc, second |-> second, len |-> len]

(* The packets of opus_test.go:16-33.                                      *)
ASSUME OpusTestPackets ==
  /\ PacketDuration(Packet(252, 17, 4)) = 20000 /\ PacketDuration(Packet(8, 170, 2)) = 20000
  /\ PacketDuration(Packet(128, 170, 2)) = 2500 /\ PacketDuration(Packet(249, 170, 3)) = 40000
  /\ PacketDuration(Packet(250, 16, 4)) = 40000 /\ PacketDuration(Packet(250, 0, 1)) = 0
  /\ PacketDuration(Packet(251, 3, 3)) = 60000 /\ PacketDuration(Packet(251, 131, 5)) = 60000
  /\ PacketDuration(Packet(251, 0, 3)) = 0 /\ PacketDuration(Packet(251, 0, 1)) = 0
  /\ PacketDuration(Packet(251, 48, 3)) = 0 /\ PacketDuration(Packet(0, 0, 0)) = 0

(* The audio clock moves by 2.5 ms steps, whatever a packet says.          *)
ASSUME AudioClockSteps ==
  \A toc, second \in Octet, len \in {0, 1, 2, 3, 49} :
    LET duration == AudioDuration(Packet(toc, second, len))
    IN  duration \in 2500..120000 /\ duration % 2500 = 0
=============================================================================

------------------------------ MODULE MCQuery ------------------------------
(* Instances of module Query: an IO board with some pins, one that could   *)
(* not be initialised, the default slave and the summery slave.            *)
EXTENDS Query, Layouts

CONSTANT Pins

ASSUME PinsAssumption == HasRoomFor(Pins)

Gateway == {"board", "bare", "default", "summery"}
OnlyBoard == {"board"}
OnlyDefault == {"default"}

GatewayLayout ==
  [board |-> IOBoard(Pins), bare |-> BareIOBoard, default |-> Default, summery |-> Summery]

AskedAddresses ==
  [board   |-> {0, 2, 5, 8, 9, 12, 13, 15, 20, 22, 24},
   bare    |-> {0, 8, 24},
   default |-> {0, 125, 126, 127},
   summery |-> {0, 254, 255, 256, 260, 261}]

AskedCounts ==
  [board   |-> {0, 1, 4, MaxWrite, MaxWrite + 1, 30, Limit \div 2 + 2},
   bare    |-> {0, 1, 2, Limit - 1},
   default |-> {1, 2, 3, MaxRead},
   summery |-> {0, 1, 2, 3, MaxRead + 1, Limit - 1}]
=============================================================================

-------------------------- MODULE MCPacketFilter --------------------------
(***************************************************************************)
(* Two addresses, two ports and the kinds of packets the callback tells    *)
(* apart: a long message of which two attributes are reached, a message    *)
(* with one, an invalid one from a port the first may teach, one that is   *)
(* too short for the loop, and packets that are only counted or not even.  *)
(***************************************************************************)
EXTENDS PacketFilter

CONSTANTS a1, local

Att(type, length) == [type |-> type, length |-> length, port |-> 7]
Packet(proto, inbound, ip, known, src, valid, atts) ==
  [proto |-> proto, inbound |-> inbound, ip |-> ip, known |-> known, src |-> src,
   valid |-> valid, atts |-> atts]

MCPackets ==
  { Packet("stun", TRUE, a1, TRUE, 3, TRUE,
           <<Att("mapped", 8), Att("xor", 20), Att("plain", 17), Att("plain", 20), Att("plain", 8)>>),
    Packet("stun", TRUE, local, FALSE, 7, FALSE, <<Att("xor", 20)>>),
    Packet("stun", FALSE, local, TRUE, 3, FALSE, <<Att("xor", 8)>>),
    Packet("other", FALSE, a1, FALSE, 3, TRUE, <<>>),
    Packet("rpc", TRUE, a1, FALSE, 3, TRUE, <<>>) }
=============================================================================

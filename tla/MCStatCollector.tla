-------------------------- MODULE MCStatCollector --------------------------
(***************************************************************************)
(* A table of every class that samples, with one or two fields (in an      *)
(* order that is not that of the names) of the operation the class uses.   *)
(***************************************************************************)
EXTENDS StatCollector

MCCollectors ==
  {[kind |-> "snmp4", fields |-> <<2>>, op |-> "FirstDeriv"],
   [kind |-> "snmp6", fields |-> <<2, 1>>, op |-> "FirstDeriv"],
   [kind |-> "netdev", fields |-> <<2>>, op |-> "FirstDeriv"],
   [kind |-> "net_stats", fields |-> <<2>>, op |-> "FirstDeriv"],
   [kind |-> "sockstat64", fields |-> <<>>, op |-> "Less"],
   [kind |-> "route", fields |-> <<2>>, op |-> "Less"],
   [kind |-> "ndis_cache", fields |-> <<2>>, op |-> "Less"],
   [kind |-> "arp_cache", fields |-> <<2>>, op |-> "Less"],
   [kind |-> "wireless", fields |-> <<2>>, op |-> "Less"],
   [kind |-> "arp", fields |-> <<2, 1>>, op |-> "Changed"]}
============================================================================

---------------------------- MODULE MCStateHistory ----------------------------
(* A small instance of StateHistory for TLC: one host with one service, which *)
(* refer to the same timeperiod.                                              *)
EXTENDS StateHistory

CONSTANTS h, s, p

MCHosts == {h}
MCServices == {s}
MCHostOf == [x \in MCServices |-> h]
MCPeriods == {p}
MCPeriodsOf == [x \in MCHosts \cup MCServices |-> MCPeriods]
===============================================================================

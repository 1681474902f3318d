------------------------------- MODULE MCConsole -------------------------------
(* Console with ints of 8 bits and the ports of two digits; 10 stands for a *)
(* character that is no digit.                                              *)
EXTENDS Console

MCPorts == {<<>>, <<9>>, <<0, 1, 0>>, <<9, 9>>, <<1, 0, 0>>, <<4, 10>>, <<1, 2, 7>>, <<3, 0, 0>>}
=============================================================================

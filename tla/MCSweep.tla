------------------------------- MODULE MCSweep -------------------------------
(* Addresses of two digits below four.  The first and the last address of   *)
(* a network are left out from two host bits on, and two are the limit.     *)
EXTENDS Sweep

Net4(v, hostBits) == [addr |-> AddressOf("v4", v), hostBits |-> hostBits]
Net6(v, hostBits) == [addr |-> AddressOf("v6", v), hostBits |-> hostBits]
Mapped(v, hostBits) == [addr |-> AddressOf("mapped", v), hostBits |-> hostBits]

Group(cidrs, exclude, allowLarge, ping) ==
  [cidrs |-> cidrs, exclude |-> exclude, allowLarge |-> allowLarge, ping |-> ping]

MCGroups ==
  {\* overlapping networks, the last one at the end of the address space
   Group(<<Net4(13, 2), Net4(15, 0), Mapped(14, 0), Net6(5, 1)>>, <<>>, FALSE, TRUE),
   \* a carry, a host excluded, a network below the skipping limit and one
   \* above the limit that is allowed
   Group(<<Net4(3, 3), Net4(8, 1)>>, <<Net4(4, 1), Mapped(1, 1)>>, TRUE, TRUE),
   Group(<<Net6(2, 2)>>, <<Net6(1, 0)>>, FALSE, TRUE),
   \* too large by one bit
   Group(<<Net6(1, 0), Net4(9, 3)>>, <<Net4(8, 2)>>, FALSE, TRUE),
   \* allowed, all of IPv4 excluded, and texts that do not parse
   Group(<<Net6(9, 3), Net4(9, 3)>>, <<Net4(0, 4)>>, TRUE, FALSE),
   Group(<<Net4(1, 0), Bad>>, <<>>, FALSE, FALSE),
   Group(<<Net4(1, 0)>>, <<Bad>>, FALSE, FALSE)}

MCStrangers == {AddressOf("v4", 0)}
=============================================================================

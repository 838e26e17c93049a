-------------------------------- MODULE Cidr ---------------------------------
(***************************************************************************)
(* Networks and addresses (snmpdiscovery/cidr.go).  An address has a       *)
(* family, "v4", "v6" or "mapped" (IPv4 written as IPv6), and as many      *)
(* digits below Base as the model affords instead of 4 or 16 bytes.  A     *)
(* network is an address with the number of its host bits; a bare address  *)
(* has none.  `Bad' stands for a text that does not parse.                 *)
(***************************************************************************)
EXTENDS Integers, Sequences, SequencesExt, Lists

CONSTANTS
  Base,           \* values of one digit (a byte in the code), a power of two
  Digits,         \* digits of an address
  SkipHostBits,   \* 8 in the code: from here on, network and broadcast are skipped
  MaxHostBits,    \* maxSweepHostBits, 10 in the code
  Bad

ASSUME CidrAssumption ==
  /\ Base \in Nat \ {0, 1} /\ Digits \in Nat \ {0}
  /\ SkipHostBits \in Nat /\ MaxHostBits \in Nat

\* Recursive functions, so that what they compute can be proved.
Power(b, n) ==
  LET upto[k \in 0..n] == IF k = 0 THEN 1 ELSE upto[k - 1] * b
  IN  upto[n]
Value(a) ==
  LET upto[n \in 0..Digits] == IF n = 0 THEN 0 ELSE upto[n - 1] * Base + a.digits[n]
  IN  upto[Digits]

DigitLists == [1..Digits -> 0 .. Base - 1]
AddressOf(fam, v) ==
  [fam |-> fam, digits |-> [i \in 1..Digits |-> (v \div Power(Base, Digits - i)) % Base]]

\* Mutant: the text is kept as written.
CanonAsWritten(a) == a

\* canonIP: an IPv4 address written as IPv6 is the IPv4 address.
Canon(a) == IF a.fam = "mapped" THEN [a EXCEPT !.fam = "v4"] ELSE a

\* incIP: one more, with carry; the highest address is followed by the lowest.
IncIP(a) ==
  LET full == {j \in 1..Digits : \A i \in j..Digits : a.digits[i] = Base - 1}
  IN  [a EXCEPT !.digits = [i \in 1..Digits |->
         IF i \in full THEN 0
         ELSE IF i = Digits \/ i + 1 \in full THEN a.digits[i] + 1 ELSE a.digits[i]]]

\* IPNet.Contains compares the bits above the host bits, after Canon.
Covers(net, a) ==
  /\ Canon(net.addr).fam = Canon(a).fam
  /\ Value(net.addr) \div Power(2, net.hostBits) = Value(a) \div Power(2, net.hostBits)

\* The first address of the network, and IPv4's broadcast address.
FirstOf(net) == (Value(net.addr) \div Power(2, net.hostBits)) * Power(2, net.hostBits)
IsNetwork(net, a)   == Value(a) = FirstOf(net)
IsBroadcast(net, a) == Value(a) = FirstOf(net) + Power(2, net.hostBits) - 1

\* Mutant: the broadcast address is skipped at the end of every network.
SkippedAnySize(net, a) ==
  \/ net.hostBits >= SkipHostBits /\ IsNetwork(net, a)
  \/ Canon(a).fam = "v4" /\ IsBroadcast(net, a)

Skipped(net, a) ==
  /\ net.hostBits >= SkipHostBits
  /\ IsNetwork(net, a) \/ (Canon(a).fam = "v4" /\ IsBroadcast(net, a))

TooLarge(net, allowLarge) == net.hostBits > MaxHostBits /\ ~allowLarge

\* ipInNets, filterExcluded and uniqueStrings.
InNets(a, nets) == \E i \in DOMAIN nets : Covers(nets[i], a)
FilterExcluded(ips, exclude) == ElementsAt(ips, {i \in DOMAIN ips : ~InNets(ips[i], exclude)})
UniqueStrings(ips) ==
  ElementsAt(ips, {i \in DOMAIN ips : \A k \in 1 .. i - 1 : ips[k] # ips[i]})
=============================================================================

-------------------------------- MODULE Hunt ---------------------------------
(***************************************************************************)
(* What probing one address promises: a group's credentials are tried one  *)
(* after the other, at most one of them moved to the front, each once,     *)
(* until one works or none is left.                                        *)
(***************************************************************************)
EXTENDS Integers, Sequences

CONSTANTS
  Lists,      \* the credential lists a group may have
  Nobody      \* no credential has worked

VARIABLES
  queue,      \* the credentials still to try, in order
  winner      \* the one that worked

vars == <<queue, winner>>

\* The list with its i-th credential first.
ToFront(list, i) ==
  <<list[i]>> \o SubSeq(list, 1, i - 1) \o SubSeq(list, i + 1, Len(list))

Init == queue = <<>> /\ winner = Nobody

Begin ==
  /\ queue = <<>>
  /\ \E list \in Lists : \E i \in DOMAIN list : queue' = ToFront(list, i)
  /\ winner' = Nobody

Reject ==
  /\ queue # <<>>
  /\ queue' = Tail(queue)
  /\ UNCHANGED winner

Accept ==
  /\ queue # <<>>
  /\ winner' = Head(queue)
  /\ queue' = <<>>

Next == Begin \/ Reject \/ Accept

Spec == Init /\ [][Next]_vars
=============================================================================

-------------------------- MODULE Credentials_proofs --------------------------
(***************************************************************************)
(* Probing with any list of credentials, any number of retries and any     *)
(* agent: the order, the report, the calls that were made, and the hunt    *)
(* that a probe implements.                                                *)
(***************************************************************************)
EXTENDS Credentials, Numbers_proofs, SequenceTheorems, FiniteSetTheorems

-----------------------------------------------------------------------------
(* The order in which the credentials are tried.                           *)

\* The list with its i-th credential first, the others in written order.
Fronted(auths, i) == <<auths[i]>> \o RemoveAt(auths, i)

LEMMA FrontedIs ==
  ASSUME NEW auths \in Seq(Auth), NEW i \in 1..Len(auths)
  PROVE  /\ Fronted(auths, i) \in Seq(Auth)
         /\ Len(Fronted(auths, i)) = Len(auths)
         /\ Range(Fronted(auths, i)) = Range(auths)
         /\ Fronted(auths, i) = Hunting!ToFront(auths, i)
<1> DEFINE before == SubSeq(auths, 1, i - 1)
           after  == SubSeq(auths, i + 1, Len(auths))
           rest   == before \o after
           result == <<auths[i]>> \o rest
<1>1. /\ before \in Seq(Auth) /\ Len(before) = i - 1
      /\ \A k \in 1 .. i - 1 : before[k] = auths[k]
  BY SubSeqProperties
<1>2. /\ after \in Seq(Auth) /\ Len(after) = Len(auths) - i
      /\ \A k \in 1 .. Len(auths) - i : after[k] = auths[i + k]
  BY SubSeqProperties
<1>3. <<auths[i]>> \in Seq(Auth) /\ Len(<<auths[i]>>) = 1 /\ <<auths[i]>>[1] = auths[i]
  OBVIOUS
<1> HIDE DEF before, after
<1>4. /\ rest \in Seq(Auth) /\ Len(rest) = Len(auths) - 1
      /\ \A k \in 1 .. Len(auths) - 1 :
           rest[k] = IF k < i THEN auths[k] ELSE auths[k + 1]
  <2>1. /\ rest \in Seq(Auth) /\ Len(rest) = Len(before) + Len(after)
        /\ \A k \in 1 .. Len(before) + Len(after) :
             rest[k] = IF k <= Len(before) THEN before[k] ELSE after[k - Len(before)]
    BY <1>1, <1>2, ConcatProperties
  <2> HIDE DEF rest
  <2>2. ASSUME NEW k \in 1 .. Len(auths) - 1
        PROVE  rest[k] = IF k < i THEN auths[k] ELSE auths[k + 1]
    <3>1. CASE k < i
      BY <1>1, <1>2, <2>1, <3>1
    <3>2. CASE k >= i
      <4>1. k - (i - 1) \in 1 .. Len(auths) - i
        BY <3>2
      <4>2. rest[k] = after[k - (i - 1)]
        <5>1. k \in 1 .. Len(before) + Len(after) /\ ~(k <= Len(before)) /\ Len(before) = i - 1
          BY <1>1, <1>2, <3>2
        <5> QED
          BY <2>1, <5>1
      <4>3. after[k - (i - 1)] = auths[i + (k - (i - 1))]
        BY <1>2, <4>1
      <4>4. i + (k - (i - 1)) = k + 1
        OBVIOUS
      <4> QED
        BY <3>2, <4>2, <4>3, <4>4
    <3> QED
      BY <3>1, <3>2
  <2> QED
    BY <1>1, <1>2, <2>1, <2>2
<1>5. /\ result \in Seq(Auth) /\ Len(result) = Len(auths)
      /\ \A k \in 1 .. Len(auths) :
           result[k] = IF k = 1 THEN auths[i] ELSE rest[k - 1]
  <2> HIDE DEF rest
  <2> QED
    BY <1>3, <1>4, ConcatProperties
<1>6. Fronted(auths, i) = result
  BY DEF Fronted, RemoveAt, before, after
<1>7. Range(result) = Range(auths)
  <2> HIDE DEF rest, result
  <2>1. ASSUME NEW k \in 1..Len(auths)
        PROVE  \E j \in 1..Len(auths) : result[j] = auths[k]
    <3>1. CASE k = i
      BY <1>5, <3>1
    <3>2. CASE k < i
      <4>1. result[k + 1] = rest[k] /\ rest[k] = auths[k] /\ k + 1 \in 1..Len(auths)
        BY <1>4, <1>5, <3>2
      <4> QED
        BY <4>1
    <3>3. CASE k > i
      <4>1. result[k] = rest[k - 1] /\ rest[k - 1] = auths[k]
        BY <1>4, <1>5, <3>3
      <4> QED
        BY <4>1
    <3> QED
      BY <3>1, <3>2, <3>3
  <2>2. ASSUME NEW k \in 1..Len(auths)
        PROVE  \E j \in 1..Len(auths) : result[k] = auths[j]
    <3>1. CASE k = 1
      BY <1>5, <3>1
    <3>2. CASE k > 1
      <4>1. result[k] = rest[k - 1] /\ rest[k - 1] \in {auths[k - 1], auths[k]}
        BY <1>4, <1>5, <3>2
      <4> QED
        BY <3>2, <4>1
    <3> QED
      BY <3>1, <3>2
  <2>3. DOMAIN result = 1..Len(auths) /\ DOMAIN auths = 1..Len(auths)
    BY <1>5
  <2>4. Range(result) = {result[k] : k \in 1..Len(auths)}
    BY <2>3 DEF Range
  <2>5. Range(auths) = {auths[k] : k \in 1..Len(auths)}
    BY <2>3 DEF Range
  <2>6. Range(result) \subseteq Range(auths)
    BY <2>2, <2>4, <2>5
  <2>7. Range(auths) \subseteq Range(result)
    BY <2>1, <2>4, <2>5
  <2> QED
    BY <2>6, <2>7
<1>8. Hunting!ToFront(auths, i) = result
  <2>1. Hunting!ToFront(auths, i) = (<<auths[i]>> \o before) \o after
    BY DEF Hunting!ToFront, before, after
  <2>2. before \in Seq(Auth) /\ after \in Seq(Auth) /\ <<auths[i]>> \in Seq(Auth)
    BY <1>1, <1>2, <1>3
  <2> HIDE DEF before, after
  <2> QED
    BY <2>1, <2>2, ConcatAssociative
<1> QED
  BY <1>5, <1>6, <1>7, <1>8

\* preferAuth brings one credential of the list to the front, the one of that
\* name or the first.
LEMMA PreferAuthIs ==
  ASSUME NEW auths \in Seq(Auth), auths # <<>>, NEW name
  PROVE  \E i \in 1..Len(auths) : PreferAuth(auths, name) = Fronted(auths, i)
<1> DEFINE at == {i \in DOMAIN auths : auths[i] = name}
<1>1. CASE at = {}
  <2>1. PreferAuth(auths, name) = auths
    BY <1>1 DEF PreferAuth
  <2>2. Fronted(auths, 1) = auths
    <3>1. 1 \in 1..Len(auths)
      BY EmptySeq
    <3>2. SubSeq(auths, 1, 0) = <<>>
      BY SubSeqEmpty
    <3>3. SubSeq(auths, 2, Len(auths)) \in Seq(Auth)
      BY SubSeqProperties
    <3>4. RemoveAt(auths, 1) = SubSeq(auths, 2, Len(auths))
      BY <3>2, <3>3, ConcatEmptySeq DEF RemoveAt
    <3>5. SubSeq(auths, 1, Len(auths)) = <<auths[1]>> \o SubSeq(auths, 2, Len(auths))
      BY <3>1, SubSeqRecursiveFirst
    <3> QED
      BY <3>4, <3>5, SubSeqFull DEF Fronted
  <2>3. 1 \in 1..Len(auths)
    BY EmptySeq
  <2> QED
    BY <2>1, <2>2, <2>3
<1>2. CASE at # {}
  <2>1. at \subseteq Nat /\ at \subseteq 1..Len(auths)
    OBVIOUS
  <2>2. \E n \in at : \A m \in at : n <= m
    BY <1>2, <2>1, LeastNumber
  <2>3. Min(at) \in at
    BY <2>2 DEF Min
  <2>4. auths[Min(at)] = name
    BY <2>3
  <2>5. PreferAuth(auths, name) = Fronted(auths, Min(at))
    BY <1>2, <2>4 DEF PreferAuth, Fronted
  <2> QED
    BY <2>1, <2>3, <2>5
<1> QED
  BY <1>1, <1>2
-----------------------------------------------------------------------------
(* The calls on the wire.                                                  *)

Extra == Max({Retries, 0})

LEMMA ExtraIs == Extra \in Nat
<1>1. \E n \in {Retries, 0} : \A m \in {Retries, 0} : n >= m
  BY CredentialsAssumption
<1>2. Extra \in {Retries, 0} /\ \A m \in {Retries, 0} : Extra >= m
  BY <1>1 DEF Extra, Max
<1> QED
  BY <1>2, CredentialsAssumption

Call == [pos : Nat \ {0}, call : {"connect", "get"}, result : Errors \cup {"ok", "empty", "no_sys"}]

\* A credential has been left: only errors were retried, and the last call is an
\* answer, a failed Connect or the last Get of the budget.
Left(calls, p) ==
  \E final \in CallsOf(calls, p) :
    /\ \A i \in CallsOf(calls, p) : i <= final
    /\ \A i \in CallsOf(calls, p) \ {final} : calls[i].result \in Errors
    /\ calls[final].call = "get" /\ calls[final].result \in Errors =>
         Cardinality(CallsOf(calls, p)) = 1 + Extra

\* The current credential has had so many calls, all of them errors.
Failed(calls, p, n) ==
  /\ IsFiniteSet(CallsOf(calls, p)) /\ Cardinality(CallsOf(calls, p)) = n
  /\ \A i \in CallsOf(calls, p) : calls[i].result \in Errors

\* The credentials were tried in order, the last one being p.
InOrder(calls, p) ==
  /\ \A i \in DOMAIN calls : calls[i].pos \in 1..p
  /\ \A i, k \in DOMAIN calls : i < k => calls[i].pos <= calls[k].pos

\* One more call with the credential at position p.
LEMMA CallAdded ==
  ASSUME NEW calls \in Seq(Call), NEW c \in Call, InOrder(calls, c.pos)
  PROVE  LET more == Append(calls, c)
         IN  /\ more \in Seq(Call) /\ Len(more) = Len(calls) + 1 /\ more[Len(more)] = c
             /\ \A i \in DOMAIN calls : more[i] = calls[i]
             /\ CallsOf(more, c.pos) = CallsOf(calls, c.pos) \cup {Len(calls) + 1}
             /\ \A p \in Nat : p # c.pos => CallsOf(more, p) = CallsOf(calls, p)
             /\ InOrder(more, c.pos)
<1> DEFINE more == Append(calls, c)
<1>1. /\ more \in Seq(Call) /\ Len(more) = Len(calls) + 1 /\ more[Len(calls) + 1] = c
      /\ \A i \in 1..Len(calls) : more[i] = calls[i]
  BY AppendProperties
<1>2. DOMAIN more = DOMAIN calls \cup {Len(calls) + 1} /\ DOMAIN calls = 1..Len(calls)
  BY <1>1
<1> HIDE DEF more
<1>3. CallsOf(more, c.pos) = CallsOf(calls, c.pos) \cup {Len(calls) + 1}
  BY <1>1, <1>2 DEF CallsOf
<1>4. \A p \in Nat : p # c.pos => CallsOf(more, p) = CallsOf(calls, p)
  BY <1>1, <1>2 DEF CallsOf
<1>5. InOrder(more, c.pos)
  <2>1. c.pos \in Nat /\ c.pos \in 1..c.pos
    BY DEF Call
  <2>2. ASSUME NEW i \in DOMAIN more
        PROVE  more[i].pos \in 1..c.pos
    <3>1. CASE i \in DOMAIN calls
      BY <1>1, <1>2, <3>1 DEF InOrder
    <3>2. CASE i = Len(calls) + 1
      BY <1>1, <2>1, <3>2
    <3> QED
      BY <1>2, <3>1, <3>2
  <2> QED
    BY <1>1, <1>2, <2>1, <2>2 DEF InOrder
<1> QED
  BY <1>1, <1>2, <1>3, <1>4, <1>5 DEF more

\* Credentials that were left before stay so.
LEMMA StillLeft ==
  ASSUME NEW calls \in Seq(Call), NEW c \in Call, InOrder(calls, c.pos),
         NEW p \in Nat, p # c.pos, Left(calls, p)
  PROVE  Left(Append(calls, c), p)
<1>1. /\ CallsOf(Append(calls, c), p) = CallsOf(calls, p)
      /\ \A i \in DOMAIN calls : Append(calls, c)[i] = calls[i]
  BY CallAdded
<1>2. CallsOf(calls, p) \subseteq DOMAIN calls
  BY DEF CallsOf
<1> QED
  BY <1>1, <1>2 DEF Left

\* An error that is retried is one more failed call.
LEMMA OneMoreFailed ==
  ASSUME NEW calls \in Seq(Call), NEW c \in Call, InOrder(calls, c.pos),
         NEW n \in Nat, Failed(calls, c.pos, n), c.result \in Errors
  PROVE  Failed(Append(calls, c), c.pos, n + 1)
<1>1. /\ CallsOf(Append(calls, c), c.pos) = CallsOf(calls, c.pos) \cup {Len(calls) + 1}
      /\ \A i \in DOMAIN calls : Append(calls, c)[i] = calls[i]
      /\ Append(calls, c)[Len(calls) + 1] = c
  BY CallAdded
<1>2. CallsOf(calls, c.pos) \subseteq DOMAIN calls /\ Len(calls) + 1 \notin DOMAIN calls
  BY DEF CallsOf
<1>3. /\ IsFiniteSet(CallsOf(Append(calls, c), c.pos))
      /\ Cardinality(CallsOf(Append(calls, c), c.pos)) = n + 1
  BY <1>1, <1>2, FS_AddElement DEF Failed
<1> QED
  BY <1>1, <1>2, <1>3 DEF Failed

\* A credential is left after any answer or failed Connect, and after an error
\* when no Get is left.
LEMMA LeftNow ==
  ASSUME NEW calls \in Seq(Call), NEW c \in Call, InOrder(calls, c.pos),
         NEW n \in Nat, Failed(calls, c.pos, n),
         c.call = "get" /\ c.result \in Errors => n = Extra
  PROVE  Left(Append(calls, c), c.pos)
<1> DEFINE final == Len(calls) + 1
<1>1. /\ CallsOf(Append(calls, c), c.pos) = CallsOf(calls, c.pos) \cup {final}
      /\ \A i \in DOMAIN calls : Append(calls, c)[i] = calls[i]
      /\ Append(calls, c)[final] = c
  BY CallAdded
<1>2. CallsOf(calls, c.pos) \subseteq DOMAIN calls /\ DOMAIN calls = 1..Len(calls)
  BY DEF CallsOf
<1>3. Cardinality(CallsOf(Append(calls, c), c.pos)) = n + 1
  <2>1. final \notin CallsOf(calls, c.pos)
    BY <1>2
  <2>2. IsFiniteSet(CallsOf(calls, c.pos)) /\ Cardinality(CallsOf(calls, c.pos)) = n
    BY DEF Failed
  <2> HIDE DEF final
  <2> QED
    BY <1>1, <2>1, <2>2, FS_AddElement
<1>4. \A i \in CallsOf(Append(calls, c), c.pos) : i <= final
  BY <1>1, <1>2
<1>5. \A i \in CallsOf(Append(calls, c), c.pos) \ {final} : Append(calls, c)[i].result \in Errors
  BY <1>1, <1>2 DEF Failed
<1>6. c.call = "get" /\ c.result \in Errors => n + 1 = 1 + Extra
  BY ExtraIs
<1> QED
  BY <1>1, <1>3, <1>4, <1>5, <1>6 DEF Left
-----------------------------------------------------------------------------
(* What holds at every step of a probe.                                    *)

Report == [success : BOOLEAN, reason : Errors \cup {"ok", "empty", "no_sys", "no_auth"},
           firstAuth : BOOLEAN, authFails : Nat, retries : Nat]

\* The types, with those of the report and of the calls.
ProbeTyped ==
  /\ DOMAIN entries \subseteq Addr
  /\ cfg \in Configs /\ agent \in Agents
  /\ pc \in {"idle", "connect", "get", "report"}
  /\ order \in Seq(Auth) /\ pos \in 0..Len(order)
  /\ attempt \in 0..Extra
  /\ winner \in Auth \cup {Nobody}
  /\ faults \in 0..MaxFaults
  /\ detail \in Report
  /\ log \in Seq(Call)

\* During a probe one of the group's credentials is the current one.
OnTheList ==
  pc # "idle" => pos \in 1..Len(order) /\ Range(order) = Range(cfg.auths)

\* Before the last call: the credentials up to the current one have been left, and
\* the report counts them.
SoFar(calls, p, n) ==
  /\ \A q \in 1..p - 1 : Left(calls, q)
  /\ Failed(calls, p, n)
  /\ InOrder(calls, p)

Trying ==
  pc \in {"connect", "get"} =>
    /\ pc = "connect" => attempt = 0
    /\ ~detail.success /\ ~detail.firstAuth /\ winner = Nobody
    /\ detail.authFails = pos - 1
    /\ Len(log) = (pos - 1) + detail.retries
    /\ SoFar(log, pos, attempt)

\* After it: the last call is the one reported.
AllLeft(calls, p) ==
  /\ \A q \in 1..p : Left(calls, q)
  /\ InOrder(calls, p)

Done ==
  pc = "report" =>
    /\ detail.reason = log[Len(log)].result
    /\ detail.success = (detail.reason = "ok")
    /\ detail.success = (winner # Nobody)
    /\ detail.authFails = pos - (IF detail.success THEN 1 ELSE 0)
    /\ Len(log) = pos + detail.retries
    /\ detail.firstAuth = (detail.success /\ pos = 1)
    /\ ~detail.success => pos = Len(order)
    /\ AllLeft(log, pos)

ProbeInv == ProbeTyped /\ OnTheList /\ Trying /\ Done

Filled(s, w, f, n, t) ==
  [success |-> s, reason |-> w, firstAuth |-> f, authFails |-> n, retries |-> t]

FailedFor(r, e, n) == [r EXCEPT !.authFails = n, !.reason = e]
Answered(r, s, e, f, n) ==
  [r EXCEPT !.success = s, !.reason = e, !.firstAuth = f, !.authFails = n]

\* The assignments to the fields of the report, one after the other.
LEMMA FailureSet ==
  ASSUME NEW r \in Report, NEW e, NEW n
  PROVE  FailedFor(r, e, n) = Filled(r.success, e, r.firstAuth, n, r.retries)
<1> DEFINE failed == [r EXCEPT !.authFails = n]
<1>1. r = Filled(r.success, r.reason, r.firstAuth, r.authFails, r.retries)
  BY DEF Report, Filled
<1>2. FailedFor(r, e, n) = [failed EXCEPT !.reason = e]
  BY DEF Report, FailedFor
<1>3. failed = Filled(r.success, r.reason, r.firstAuth, n, r.retries)
  BY <1>1 DEF Filled
<1> HIDE DEF failed
<1>4. [failed EXCEPT !.reason = e] = Filled(r.success, e, r.firstAuth, n, r.retries)
  BY <1>3 DEF Filled
<1> QED
  BY <1>2, <1>4

LEMMA RetrySet ==
  ASSUME NEW r \in Report, NEW n
  PROVE  [r EXCEPT !.retries = n] = Filled(r.success, r.reason, r.firstAuth, r.authFails, n)
<1>1. r = Filled(r.success, r.reason, r.firstAuth, r.authFails, r.retries)
  BY DEF Report, Filled
<1> QED
  BY <1>1 DEF Filled

LEMMA AnswerSet ==
  ASSUME NEW r \in Report, NEW s, NEW e, NEW f, NEW n
  PROVE  Answered(r, s, e, f, n) = Filled(s, e, f, n, r.retries)
<1> DEFINE succeeded == [r EXCEPT !.success = s]
           reasoned == [succeeded EXCEPT !.reason = e]
           placed == [reasoned EXCEPT !.firstAuth = f]
<1>1. r = Filled(r.success, r.reason, r.firstAuth, r.authFails, r.retries)
  BY DEF Report, Filled
<1>2. Answered(r, s, e, f, n) = [placed EXCEPT !.authFails = n]
  BY DEF Report, Answered
<1>3. succeeded = Filled(s, r.reason, r.firstAuth, r.authFails, r.retries)
  BY <1>1 DEF Filled
<1> HIDE DEF succeeded
<1>4. reasoned = Filled(s, e, r.firstAuth, r.authFails, r.retries)
  BY <1>3 DEF Filled
<1> HIDE DEF reasoned
<1>5. placed = Filled(s, e, f, r.authFails, r.retries)
  BY <1>4 DEF Filled
<1> HIDE DEF placed
<1>6. [placed EXCEPT !.authFails = n] = Filled(s, e, f, n, r.retries)
  BY <1>5 DEF Filled
<1> QED
  BY <1>2, <1>6

LEMMA ProbeInit == Init => ProbeInv
<1> SUFFICES ASSUME Init PROVE ProbeInv
  OBVIOUS
<1>1. Extra \in Nat
  BY ExtraIs
<1>2. <<>> \in Seq(Auth) /\ Len(<<>>) = 0 /\ <<>> \in Seq(Call)
  OBVIOUS
<1>3. detail \in Report
  BY DEF Init, NoReport, Report
<1>4. DOMAIN entries \subseteq Addr
  BY DEF Init, NoEntries
<1>5. ProbeTyped
  BY <1>1, <1>2, <1>3, <1>4, CredentialsAssumption DEF Init, ProbeTyped
<1> QED
  BY <1>5 DEF Init, ProbeInv, OnTheList, Trying, Done

\* A call that ends the turn of the current credential without an answer.
LEMMA TurnEnds ==
  ASSUME NEW calls \in Seq(Call), NEW c \in Call, NEW n \in Nat,
         SoFar(calls, c.pos, n),
         c.call = "get" /\ c.result \in Errors => n = Extra
  PROVE  /\ AllLeft(Append(calls, c), c.pos)
         /\ SoFar(Append(calls, c), c.pos + 1, 0)
<1> DEFINE more == Append(calls, c)
<1>1. c.pos \in Nat \ {0} /\ InOrder(calls, c.pos)
  BY DEF Call, SoFar
<1>2. /\ more \in Seq(Call) /\ InOrder(more, c.pos)
  BY <1>1, CallAdded
<1>3. ASSUME NEW q \in 1..c.pos
      PROVE  Left(more, q)
  <2>1. CASE q = c.pos
    BY <1>1, <2>1, LeftNow DEF SoFar
  <2>2. CASE q # c.pos
    <3>1. q \in Nat /\ q \in 1..c.pos - 1
      BY <1>1, <2>2
    <3> QED
      BY <1>1, <2>2, <3>1, StillLeft DEF SoFar
  <2> QED
    BY <2>1, <2>2
<1> HIDE DEF more
<1>4. CallsOf(more, c.pos + 1) = {}
  <2>1. \A i \in DOMAIN more : more[i].pos # c.pos + 1
    BY <1>1, <1>2 DEF InOrder
  <2> QED
    BY <2>1 DEF CallsOf
<1>5. Failed(more, c.pos + 1, 0)
  BY <1>4, FS_EmptySet DEF Failed
<1>6. InOrder(more, c.pos + 1)
  <2>1. \A k \in 1..c.pos : k \in 1..c.pos + 1
    BY <1>1
  <2> QED
    BY <1>2, <2>1 DEF InOrder
<1>7. (c.pos + 1) - 1 = c.pos
  BY <1>1
<1> QED
  BY <1>2, <1>3, <1>5, <1>6, <1>7 DEF AllLeft, SoFar, more

LEMMA RejectedKeeps ==
  ASSUME ProbeInv, pc \in {"connect", "get"},
         NEW call \in {"connect", "get"}, NEW e \in Errors \cup {"empty", "no_sys"},
         Logged(call, e), Rejected(e),
         call = "get" /\ e \in Errors => attempt = Extra,
         entries' = entries, cfg' = cfg, agent' = agent, order' = order, winner' = winner,
         faults' \in 0..MaxFaults
  PROVE  ProbeInv'
<1> DEFINE c == [pos |-> pos, call |-> call, result |-> e]
<1>1. /\ pos \in 1..Len(order) /\ Len(order) \in Nat /\ Range(order) = Range(cfg.auths)
      /\ attempt \in Nat /\ detail \in Report /\ log \in Seq(Call)
  BY ExtraIs DEF ProbeInv, ProbeTyped, OnTheList
<1>2. c \in Call /\ c.pos = pos /\ c.call = call /\ c.result = e /\ log' = Append(log, c)
  BY <1>1 DEF Call, Logged
<1> HIDE DEF c
<1>3. /\ ~detail.success /\ ~detail.firstAuth /\ winner = Nobody
      /\ detail.authFails = pos - 1
      /\ Len(log) = (pos - 1) + detail.retries
      /\ SoFar(log, pos, attempt)
  BY DEF ProbeInv, Trying
<1>4. AllLeft(log', pos) /\ SoFar(log', pos + 1, 0)
  BY <1>1, <1>2, <1>3, TurnEnds
<1>5. log' \in Seq(Call) /\ Len(log') = Len(log) + 1 /\ log'[Len(log')] = c
  BY <1>1, <1>2, <1>3, CallAdded DEF SoFar
<1>6. /\ detail'.authFails = detail.authFails + 1 /\ detail'.reason = e
      /\ detail'.retries = detail.retries /\ detail'.success = detail.success
      /\ detail'.firstAuth = detail.firstAuth /\ detail' \in Report
  <2>1. detail' = FailedFor(detail, e, detail.authFails + 1)
    BY DEF Rejected, FailedFor
  <2> DEFINE d == detail
  <2>2. d \in Report /\ e \in Errors \cup {"ok", "empty", "no_sys", "no_auth"}
    BY <1>1
  <2>3. detail' = Filled(d.success, e, d.firstAuth, d.authFails + 1, d.retries)
    BY <2>1, <2>2, FailureSet
  <2> QED
    BY <2>2, <2>3 DEF Report, Filled
<1>7. attempt' = 0 /\ 0 \in 0..Extra
  BY ExtraIs DEF Rejected, NextAuth
<1>8. e # "ok"
  BY CredentialsAssumption
<1>9. detail.retries \in Nat /\ detail.authFails \in Nat /\ Len(log) \in Nat
  BY <1>1 DEF Report
<1>10. CASE pos = Len(order)
  <2>1. pc' = "report" /\ pos' = pos
    BY <1>10 DEF Rejected, NextAuth
  <2>2. ProbeTyped'
    BY <1>1, <1>5, <1>6, <1>7, <2>1 DEF ProbeInv, ProbeTyped
  <2>3. OnTheList' /\ Trying'
    BY <1>1, <2>1 DEF OnTheList, Trying
  <2>4. Len(log') = pos' + detail'.retries /\ detail'.authFails = pos'
    BY <1>1, <1>3, <1>5, <1>6, <1>9, <2>1
  <2>5. detail'.success = FALSE /\ detail'.firstAuth = FALSE
    BY <1>1, <1>3, <1>6 DEF Report
  <2>6. detail'.reason = log'[Len(log')].result /\ detail'.reason # "ok"
    BY <1>2, <1>5, <1>6, <1>8
  <2>7. winner' = Nobody /\ pos' = Len(order') /\ AllLeft(log', pos')
    BY <1>3, <1>4, <1>10, <2>1
  <2>8. detail'.authFails = pos' - 0
    BY <1>1, <2>1, <2>4
  <2>9. Done'
    BY <2>4, <2>5, <2>6, <2>7, <2>8 DEF Done
  <2> QED
    BY <2>2, <2>3, <2>9 DEF ProbeInv
<1>11. CASE pos # Len(order)
  <2>1. pc' = "connect" /\ pos' = pos + 1 /\ pos' \in 1..Len(order)
    BY <1>1, <1>11 DEF Rejected, NextAuth
  <2>2. ProbeTyped'
    BY <1>1, <1>5, <1>6, <1>7, <2>1 DEF ProbeInv, ProbeTyped
  <2>3. OnTheList' /\ Done'
    BY <1>1, <2>1 DEF OnTheList, Done
  <2>4. Len(log') = (pos' - 1) + detail'.retries /\ detail'.authFails = pos' - 1
    BY <1>1, <1>3, <1>5, <1>6, <1>9, <2>1
  <2>5. Trying'
    BY <1>3, <1>4, <1>6, <1>7, <2>1, <2>4 DEF Trying
  <2> QED
    BY <2>2, <2>3, <2>5 DEF ProbeInv
<1> QED
  BY <1>10, <1>11
LEMMA ProbeStep == ProbeInv /\ [Next]_vars => ProbeInv'
<1> SUFFICES ASSUME ProbeInv, [Next]_vars PROVE ProbeInv'
  OBVIOUS
<1>1. /\ cfg \in Configs /\ agent \in Agents /\ DOMAIN entries \subseteq Addr
      /\ order \in Seq(Auth) /\ Len(order) \in Nat /\ pos \in 0..Len(order)
      /\ attempt \in 0..Extra /\ winner \in Auth \cup {Nobody} /\ faults \in 0..MaxFaults
      /\ detail \in Report /\ log \in Seq(Call) /\ Extra \in Nat
  BY ExtraIs DEF ProbeInv, ProbeTyped
<1>2. Strike => faults' \in 0..MaxFaults
  BY <1>1, CredentialsAssumption DEF Strike
<1>3. Excused => faults' \in 0..MaxFaults
  BY <1>1, <1>2 DEF Excused
<1>4. CASE StartProbe
  <2>1. PICK i \in 1..Len(cfg'.auths) : order' = Fronted(cfg'.auths, i)
    BY <1>4, PreferAuthIs, CredentialsAssumption DEF StartProbe
  <2>2. /\ order' \in Seq(Auth) /\ Len(order') = Len(cfg'.auths)
        /\ Range(order') = Range(cfg'.auths)
    BY <1>4, <2>1, FrontedIs, CredentialsAssumption DEF StartProbe
  <2>3. pos' = 1 /\ 1 \in 1..Len(order') /\ Len(order') \in Nat
    BY <1>4, <2>1, <2>2 DEF StartProbe
  <2>4. /\ detail' \in Report /\ detail'.success = FALSE /\ detail'.firstAuth = FALSE
        /\ detail'.authFails = 0 /\ detail'.retries = 0
    BY <1>4 DEF StartProbe, NoReport, Report
  <2>5. log' = <<>> /\ log' \in Seq(Call) /\ Len(log') = 0
    BY <1>4 DEF StartProbe
  <2>6. ProbeTyped'
    <3>1. faults' \in 0..MaxFaults
      BY <1>1, <1>2, <1>4 DEF StartProbe
    <3> QED
      BY <1>1, <1>4, <2>2, <2>3, <2>4, <2>5, <3>1, CredentialsAssumption
      DEF StartProbe, ProbeTyped
  <2>7. OnTheList' /\ Done'
    BY <1>4, <2>2, <2>3 DEF StartProbe, OnTheList, Done
  <2>8. SoFar(<<>>, 1, 0)
    <3>1. CallsOf(<<>>, 1) = {}
      BY DEF CallsOf
    <3> QED
      BY <3>1, FS_EmptySet DEF SoFar, Failed, InOrder
  <2>9. Trying'
    BY <1>4, <2>3, <2>4, <2>5, <2>8 DEF StartProbe, Trying
  <2> QED
    BY <2>6, <2>7, <2>9 DEF ProbeInv
<1>5. CASE Connect
  BY <1>5 DEF Connect, ProbeInv, ProbeTyped, OnTheList, Trying, Done
<1>6. CASE ConnectFails
  <2>1. PICK e \in Errors : Logged("connect", e) /\ Rejected(e)
    BY <1>6 DEF ConnectFails
  <2> QED
    BY <1>2, <1>6, <2>1, RejectedKeeps DEF ConnectFails
<1>7. CASE GetError
  <2>1. PICK e \in Errors :
          /\ Logged("get", e)
          /\ IF attempt < Extra
             THEN /\ attempt' = attempt + 1
                  /\ detail' = [detail EXCEPT !.retries = @ + 1]
                  /\ UNCHANGED <<pc, pos>>
             ELSE Rejected(e)
    BY <1>7 DEF GetError, Extra
  <2>2. /\ pc = "get" /\ faults' \in 0..MaxFaults
        /\ UNCHANGED <<entries, cfg, agent, order, winner>>
    BY <1>3, <1>7 DEF GetError
  <2>3. CASE attempt < Extra
    <3> DEFINE c == [pos |-> pos, call |-> "get", result |-> e]
    <3>1. pos \in 1..Len(order)
      BY <2>2 DEF ProbeInv, OnTheList
    <3>2. /\ c \in Call /\ c.pos = pos /\ c.result \in Errors /\ log' = Append(log, c)
      BY <1>1, <2>1, <3>1 DEF Call, Logged
    <3> HIDE DEF c
    <3>3. /\ detail.success = FALSE /\ detail.firstAuth = FALSE /\ winner = Nobody
          /\ detail.authFails = pos - 1
          /\ Len(log) = (pos - 1) + detail.retries
          /\ SoFar(log, pos, attempt)
      BY <1>1, <2>2 DEF ProbeInv, Trying, Report
    <3>4. /\ log' \in Seq(Call) /\ Len(log') = Len(log) + 1 /\ InOrder(log', pos)
      BY <1>1, <3>2, <3>3, CallAdded DEF SoFar
    <3>5. Failed(log', pos, attempt + 1)
      BY <1>1, <3>2, <3>3, OneMoreFailed DEF SoFar
    <3>6. ASSUME NEW q \in 1..pos - 1
          PROVE  Left(log', q)
      <4>1. q \in Nat /\ q # pos
        BY <1>1
      <4> QED
        BY <1>1, <3>2, <3>3, <4>1, StillLeft DEF SoFar
    <3>7. /\ pc' = "get" /\ pos' = pos /\ attempt' = attempt + 1 /\ attempt' \in 0..Extra
          /\ detail' = [detail EXCEPT !.retries = @ + 1]
      BY <1>1, <2>1, <2>2, <2>3
    <3>8. /\ detail' \in Report /\ detail'.retries = detail.retries + 1
          /\ detail'.success = FALSE /\ detail'.firstAuth = FALSE
          /\ detail'.authFails = detail.authFails
      <4>1. detail' = Filled(detail.success, detail.reason, detail.firstAuth,
                           detail.authFails, detail.retries + 1)
        BY <1>1, <3>7, RetrySet
      <4> QED
        BY <1>1, <3>3, <4>1 DEF Report, Filled
    <3>9. ProbeTyped'
      BY <1>1, <2>2, <3>4, <3>7, <3>8 DEF ProbeTyped
    <3>10. OnTheList' /\ Done'
      BY <2>2, <3>7 DEF ProbeInv, OnTheList, Done
    <3>11. Len(log') = (pos' - 1) + detail'.retries
      <4>1. Len(log) \in Nat /\ detail.retries \in Nat /\ pos \in Nat
        BY <1>1 DEF Report
      <4> QED
        BY <3>3, <3>4, <3>7, <3>8, <4>1
    <3>12. Trying'
      BY <2>2, <3>3, <3>4, <3>5, <3>6, <3>7, <3>8, <3>11 DEF Trying, SoFar
    <3> QED
      BY <3>9, <3>10, <3>12 DEF ProbeInv
  <2>4. CASE ~(attempt < Extra)
    <3>1. attempt = Extra
      BY <1>1, <2>4
    <3> QED
      BY <2>1, <2>2, <2>4, <3>1, RejectedKeeps
  <2> QED
    BY <2>3, <2>4
<1>8. CASE GetNothing
  <2>1. PICK e \in {"empty", "no_sys"} : Logged("get", e) /\ Rejected(e)
    BY <1>8 DEF GetNothing
  <2>2. e \notin Errors
    BY CredentialsAssumption
  <2> QED
    BY <1>3, <1>8, <2>1, <2>2, RejectedKeeps DEF GetNothing
<1>9. CASE GetAnswer
  <2> DEFINE c == [pos |-> pos, call |-> "get", result |-> "ok"]
  <2>1. pc = "get" /\ pos \in 1..Len(order) /\ order[pos] \in Auth
    BY <1>1, <1>9 DEF GetAnswer, ProbeInv, OnTheList
  <2>2. c \in Call /\ c.pos = pos /\ c.result = "ok" /\ log' = Append(log, c)
    BY <1>1, <1>9, <2>1 DEF GetAnswer, Call, Logged
  <2>3. c.result \notin Errors
    BY <2>2, CredentialsAssumption
  <2> HIDE DEF c
  <2>4. Len(log) = (pos - 1) + detail.retries /\ SoFar(log, pos, attempt)
    BY <2>1 DEF ProbeInv, Trying
  <2>5. log' \in Seq(Call) /\ Len(log') = Len(log) + 1 /\ log'[Len(log')] = c
    BY <1>1, <2>2, <2>4, CallAdded DEF SoFar
  <2>6. AllLeft(log', pos)
    BY <1>1, <2>2, <2>3, <2>4, TurnEnds
  <2>7. detail' = [detail EXCEPT !.success = TRUE, !.reason = "ok",
                                 !.firstAuth = (pos = 1), !.authFails = pos - 1]
    BY <1>9 DEF GetAnswer
  <2>8. /\ detail' \in Report /\ detail'.success = TRUE /\ detail'.reason = "ok"
        /\ detail'.firstAuth = (pos = 1) /\ detail'.authFails = pos - 1
        /\ detail'.retries = detail.retries
    <3>1. pos - 1 \in Nat /\ (pos = 1) \in BOOLEAN
      BY <1>1, <2>1
    <3> DEFINE yes == TRUE
               atFirst == (pos = 1)
               failed == pos - 1
    <3>2. detail' = Answered(detail, yes, "ok", atFirst, failed)
      BY <2>7 DEF Answered
    <3> HIDE DEF yes, atFirst, failed
    <3>3. detail' = Filled(yes, "ok", atFirst, failed, detail.retries)
      <4>1. Answered(detail, yes, "ok", atFirst, failed) =
              Filled(yes, "ok", atFirst, failed, detail.retries)
        <5>1. detail \in Report
          BY <1>1
        <5> QED
          BY <5>1, AnswerSet
      <4> QED
        BY <3>2, <4>1
    <3>4. atFirst \in BOOLEAN /\ failed \in Nat
      BY <3>1 DEF atFirst, failed
    <3>5. /\ detail' \in Report /\ detail'.success = TRUE /\ detail'.reason = "ok"
          /\ detail'.firstAuth = atFirst /\ detail'.authFails = failed
          /\ detail'.retries = detail.retries
      BY <1>1, <3>3, <3>4 DEF Report, Filled, yes
    <3> QED
      BY <3>5 DEF atFirst, failed
  <2>9. /\ pc' = "report" /\ winner' = order[pos] /\ winner' \in Auth /\ winner' # Nobody
        /\ UNCHANGED <<entries, cfg, agent, order, pos, attempt, faults>>
    BY <1>9, <2>1, CredentialsAssumption DEF GetAnswer
  <2>10. ProbeTyped'
    BY <1>1, <2>5, <2>8, <2>9 DEF ProbeTyped
  <2>11. OnTheList' /\ Trying'
    BY <2>1, <2>9 DEF ProbeInv, OnTheList, Trying
  <2>12. Len(log') = pos + detail.retries
    <3>1. Len(log) \in Nat /\ detail.retries \in Nat /\ pos \in Nat
      BY <1>1 DEF Report
    <3> QED
      BY <2>4, <2>5, <3>1
  <2>13. Done'
    BY <2>2, <2>5, <2>6, <2>8, <2>9, <2>12 DEF Done
  <2> QED
    BY <2>10, <2>11, <2>13 DEF ProbeInv
<1>10. CASE Record
  <2>1. DOMAIN entries' \subseteq Addr
    <3>1. PICK found : DOMAIN found \subseteq Addr /\ MergeFound(found)
      <4>1. DOMAIN NoEntries \subseteq Addr
        BY DEF NoEntries
      <4>2. DOMAIN [a \in Addr |-> Target] \subseteq Addr
        OBVIOUS
      <4> QED
        BY <1>10, <4>1, <4>2 DEF Record
    <3> QED
      BY <1>1, <3>1 DEF MergeFound, Merged
  <2>2. <<>> \in Seq(Auth) /\ Len(<<>>) = 0
    OBVIOUS
  <2>3. ProbeTyped'
    BY <1>1, <1>10, <2>1, <2>2 DEF Record, ProbeTyped
  <2> QED
    BY <1>10, <2>3 DEF Record, ProbeInv, OnTheList, Trying, Done
<1>11. CASE ChangeAgent
  <2>1. /\ faults' \in 0..MaxFaults /\ agent' \in Agents
        /\ UNCHANGED <<entries, cfg, pc, order, pos, attempt, detail, winner, log>>
    BY <1>2, <1>11 DEF ChangeAgent
  <2>2. ProbeTyped'
    BY <1>1, <2>1 DEF ProbeInv, ProbeTyped
  <2> QED
    BY <2>1, <2>2 DEF ProbeInv, OnTheList, Trying, Done
<1>12. CASE UNCHANGED vars
  BY <1>12 DEF vars, ProbeInv, ProbeTyped, OnTheList, Trying, Done
<1> QED
  BY <1>4, <1>5, <1>6, <1>7, <1>8, <1>9, <1>10, <1>11, <1>12 DEF Next, Step

LEMMA AlwaysProbeInv == Spec => []ProbeInv
<1> QED
  BY ProbeInit, ProbeStep, PTL DEF Spec
-----------------------------------------------------------------------------
(* What the runs check of a probe.                                         *)

\* The state of a probe has its type: the current credential is on the list, no
\* more Gets are repeated than Retries allows, no more credentials have failed
\* than there are.
THEOREM ProbesTyped == Spec => []TypeOK
<1>1. ProbeInv => TypeOK
  <2> SUFFICES ASSUME ProbeInv PROVE TypeOK
    OBVIOUS
  <2>1. Len(order) \in Nat /\ pos \in 0..Len(order)
    BY DEF ProbeInv, ProbeTyped
  <2>2. CASE pc \in {"connect", "get"}
    BY <2>1, <2>2 DEF ProbeInv, ProbeTyped, OnTheList, Trying, TypeOK, Extra
  <2>3. CASE pc = "report"
    BY <2>1, <2>3 DEF ProbeInv, ProbeTyped, OnTheList, Done, TypeOK, Extra
  <2>4. CASE pc = "idle"
    BY <2>1, <2>4 DEF ProbeInv, ProbeTyped, TypeOK, Extra
  <2> QED
    BY <2>2, <2>3, <2>4 DEF ProbeInv, ProbeTyped
<1> QED
  BY AlwaysProbeInv, <1>1, PTL

\* The credentials of the calls are those up to the last one.
LEMMA TriedAre ==
  ASSUME ProbeInv, pc = "report"
  PROVE  Tried = 1..pos /\ Cardinality(Tried) = pos
<1>1. pos \in Nat /\ log \in Seq(Call) /\ AllLeft(log, pos)
  BY DEF ProbeInv, ProbeTyped, OnTheList, Done
<1>2. \A i \in DOMAIN log : log[i].pos \in 1..pos
  BY <1>1 DEF AllLeft, InOrder
<1>3. ASSUME NEW q \in 1..pos
      PROVE  \E i \in DOMAIN log : log[i].pos = q
  BY <1>1 DEF AllLeft, Left, CallsOf
<1>4. Tried = 1..pos
  BY <1>2, <1>3 DEF Tried
<1> QED
  BY <1>1, <1>4, FS_Interval

\* The report of a probe is about what happened on the wire (probe, snmp.go
\* 374-441).
THEOREM ReportsTruthful == Spec => []ReportTruthful
<1>1. ProbeInv => ReportTruthful
  <2> SUFFICES ASSUME ProbeInv, pc = "report" PROVE ReportTruthful
    BY DEF ReportTruthful
  <2>1. Tried = 1..pos /\ Cardinality(Tried) = pos
    BY TriedAre
  <2>2. pos \in Nat \ {0} /\ detail \in Report /\ log \in Seq(Call)
    BY DEF ProbeInv, ProbeTyped, OnTheList
  <2>3. Done
    BY DEF ProbeInv
  <2>4. detail.retries = Len(log) - pos
    BY <2>2, <2>3 DEF Done, Report
  <2>5. (Tried = {1}) <=> (pos = 1)
    <3>1. pos \in 1..pos /\ 1..1 = {1}
      BY <2>2
    <3> QED
      BY <2>1, <3>1
  <2>6. detail.firstAuth = (detail.success /\ Tried = {1})
    BY <2>2, <2>3, <2>5 DEF Done, Report
  <2> QED
    BY <2>1, <2>3, <2>4, <2>6 DEF Done, ReportTruthful
<1> QED
  BY AlwaysProbeInv, <1>1, PTL

\* A probe gives up only after every credential of the group got its full number
\* of Gets, in order and without a gap: the loops of probe().
THEOREM TriesInFull == Spec => []TriedInFull
<1>1. ProbeInv => TriedInFull
  <2> SUFFICES ASSUME ProbeInv, pc = "report" PROVE TriedInFull
    BY DEF TriedInFull
  <2>1. Tried = 1..pos
    BY TriedAre
  <2>2. log \in Seq(Call) /\ pos \in 1..Len(order) /\ Range(order) = Range(cfg.auths)
    BY DEF ProbeInv, ProbeTyped, OnTheList
  <2>3. AllLeft(log, pos) /\ (~detail.success => pos = Len(order))
    BY DEF ProbeInv, Done
  <2>4. \A i, k \in DOMAIN log : i < k => log[i].pos <= log[k].pos
    BY <2>3 DEF AllLeft, InOrder
  <2>5. ASSUME NEW p \in Tried
        PROVE  LET final == Max(CallsWith(p))
               IN  /\ \A i \in CallsWith(p) \ {final} : log[i].result \in Errors
                   /\ log[final].call = "get" /\ log[final].result \in Errors =>
                        Cardinality(CallsWith(p)) = 1 + Max({Retries, 0})
    <3>1. CallsWith(p) = CallsOf(log, p) /\ Left(log, p)
      BY <2>1, <2>3 DEF AllLeft, CallsWith
    <3>2. PICK final \in CallsOf(log, p) :
            /\ \A i \in CallsOf(log, p) : i <= final
            /\ \A i \in CallsOf(log, p) \ {final} : log[i].result \in Errors
            /\ log[final].call = "get" /\ log[final].result \in Errors =>
                 Cardinality(CallsOf(log, p)) = 1 + Extra
      BY <3>1 DEF Left
    <3>3. CallsOf(log, p) \subseteq Nat
      <4>1. DOMAIN log \subseteq Nat
        BY <2>2
      <4> QED
        BY <4>1 DEF CallsOf
    <3>4. final = Max(CallsWith(p))
      BY <3>1, <3>2, <3>3 DEF Max
    <3> QED
      BY <3>1, <3>2, <3>4 DEF Extra
  <2> QED
    BY <2>1, <2>2, <2>3, <2>4, <2>5 DEF TriedInFull
<1> QED
  BY AlwaysProbeInv, <1>1, PTL
-----------------------------------------------------------------------------
(* The modules of a device just found.                                     *)

\* What a chain lists; a legacy list brings the slow half of its interface modules.
Listed(chain) ==
  IF HasTier(chain) THEN ModulesIn(chain)
  ELSE chain.modules \cup {MetaOf[m] : m \in DOMAIN MetaOf \cap chain.modules}

\* Splitting a list into tiers loses nothing and adds nothing.
LEMMA TiersListed ==
  ASSUME NEW chain
  PROVE  /\ ModulesIn(TiersOf(chain)) = Listed(chain)
         /\ DOMAIN TiersOf(chain) = {"hot", "cold", "topology"}
<1>1. CASE HasTier(chain)
  <2>1. TiersOf(chain) = [hot |-> chain.hot, cold |-> chain.cold, topology |-> chain.topology]
    BY <1>1 DEF TiersOf
  <2> QED
    BY <1>1, <2>1 DEF Listed, ModulesIn
<1>2. CASE ~HasTier(chain)
  <2> DEFINE mods == chain.modules
             hot  == mods \cap DOMAIN MetaOf
             meta == {MetaOf[m] : m \in hot}
             topo == (mods \ (hot \cup meta)) \cap TopologyModules
             cold == meta \cup (mods \ (hot \cup topo))
  <2>1. TiersOf(chain) = [hot |-> hot, cold |-> cold, topology |-> topo]
    BY <1>2 DEF TiersOf, PartitionLegacy
  <2>2. Listed(chain) = mods \cup meta
    <3>1. meta = {MetaOf[m] : m \in DOMAIN MetaOf \cap mods}
      OBVIOUS
    <3> QED
      BY <1>2, <3>1 DEF Listed
  <2>3. hot \cup cold \cup topo = mods \cup meta
    <3> HIDE DEF meta
    <3> QED
      OBVIOUS
  <2>4. ModulesIn(TiersOf(chain)) = hot \cup cold \cup topo
    <3> HIDE DEF hot, cold, topo
    <3> QED
      BY <2>1 DEF ModulesIn
  <2>5. DOMAIN TiersOf(chain) = {"hot", "cold", "topology"}
    BY <2>1
  <2> HIDE DEF mods, hot, meta, topo, cold
  <2> QED
    BY <2>2, <2>3, <2>4, <2>5
<1> QED
  BY <1>1, <1>2

\* The filter drops exactly what the library lacks, and says so.
LEMMA FilterTells ==
  ASSUME NEW tiers, DOMAIN tiers = {"hot", "cold", "topology"}, NEW library
  PROVE  LET kept == FilterToKnown(tiers, library)
         IN  /\ library # {} => ModulesIn(kept.tiers) \subseteq library
             /\ ModulesIn(kept.tiers) \cup kept.dropped = ModulesIn(tiers)
<1>1. CASE library = {}
  BY <1>1 DEF FilterToKnown
<1>2. CASE library # {}
  <2> DEFINE known == [t \in DOMAIN tiers |-> tiers[t] \cap library]
             kept == FilterToKnown(tiers, library)
  <2>1. kept.tiers = known /\ kept.dropped = ModulesIn(tiers) \ library
    BY <1>2 DEF FilterToKnown
  <2>2. /\ known.hot = tiers.hot \cap library /\ known.cold = tiers.cold \cap library
        /\ known.topology = tiers.topology \cap library
    OBVIOUS
  <2> HIDE DEF known, kept
  <2>3. ModulesIn(known) = ModulesIn(tiers) \cap library
    BY <2>2 DEF ModulesIn
  <2>4. ModulesIn(kept.tiers) = ModulesIn(tiers) \cap library
    BY <2>1, <2>3
  <2> QED
    BY <2>1, <2>4 DEF kept
<1> QED
  BY <1>1, <1>2

\* The matchers that hit, and the chain they choose.
Hits(answer) == {i \in DOMAIN Fingerprinter.matchers : MatcherHit(Fingerprinter.matchers[i], answer)}

FirstHit(answer, i) ==
  /\ i \in 0..Len(Fingerprinter.matchers)
  /\ i # 0 => i \in Hits(answer)
  /\ \A k \in Hits(answer) : i # 0 /\ i <= k

ChainAt(i) == IF i = 0 THEN Fingerprinter.default ELSE Fingerprinter.matchers[i]

\* The first matcher that hits decides.
LEMMA FirstDecides ==
  ASSUME NEW answer
  PROVE  /\ \E i : FirstHit(answer, i)
         /\ \A i : FirstHit(answer, i) =>
              /\ MatchTiers(Fingerprinter, answer).tiers = TiersOf(ChainAt(i))
              /\ MatchTiers(Fingerprinter, answer).kind =
                   (IF i = 0 THEN "unknown" ELSE "known")
<1> DEFINE fp == Fingerprinter
           n == Len(fp.matchers)
           hits == Hits(answer)
           match == MatchTiers(fp, answer)
<1>1. n \in Nat /\ DOMAIN fp.matchers = 1..n
  BY CredentialsAssumption
<1>2. hits \subseteq 1..n
  BY <1>1 DEF Hits
<1>3. /\ hits # {} => match = [tiers |-> TiersOf(fp.matchers[Min(hits)]), kind |-> "known"]
      /\ hits = {} => match = [tiers |-> TiersOf(fp.default), kind |-> "unknown"]
  BY DEF MatchTiers, Hits
<1> HIDE DEF n, hits, match
<1>4. CASE hits = {}
  <2>1. FirstHit(answer, 0)
    BY <1>1, <1>4 DEF FirstHit, hits, n
  <2>2. \A i : FirstHit(answer, i) => i = 0
    BY <1>4 DEF FirstHit, hits
  <2>3. match.tiers = TiersOf(ChainAt(0)) /\ match.kind = "unknown"
    BY <1>3, <1>4 DEF ChainAt
  <2> QED
    BY <2>1, <2>2, <2>3 DEF match
<1>5. CASE hits # {}
  <2>1. hits \subseteq Nat
    BY <1>2
  <2>2. \E i \in hits : \A k \in hits : i <= k
    BY <1>5, <2>1, LeastNumber
  <2>3. Min(hits) \in hits /\ \A k \in hits : Min(hits) <= k
    BY <2>2 DEF Min
  <2>4. PICK j \in hits : j = Min(hits) /\ \A k \in hits : j <= k
    BY <2>3
  <2>5. j \in 1..n /\ j \in 0..n /\ j # 0
    BY <1>1, <1>2
  <2>6. FirstHit(answer, j)
    BY <2>4, <2>5 DEF FirstHit, hits, n
  <2>7. ASSUME NEW i, FirstHit(answer, i)
        PROVE  i = j
    <3>1. i # 0 /\ i \in hits /\ i <= j
      BY <2>7 DEF FirstHit, hits
    <3>2. i \in Nat /\ j \in Nat /\ j <= i
      BY <1>2, <2>4, <2>5, <3>1
    <3> QED
      BY <3>1, <3>2
  <2>8. match.tiers = TiersOf(ChainAt(j)) /\ match.kind = "known"
    BY <1>3, <1>5, <2>4, <2>5 DEF ChainAt
  <2> QED
    BY <2>5, <2>6, <2>7, <2>8 DEF match
<1> QED
  BY <1>4, <1>5

\* Between scans the entry of a device just found is what its answer made of it.
ServedInv ==
  /\ DOMAIN entries \subseteq Addr
  /\ pc # "idle" => device = NotFound
  /\ device # NotFound =>
       /\ device = Event
       /\ \A a \in DOMAIN entries : entries[a].target.tiers = Modules.tiers

LEMMA ServedStep == ServedInv /\ [Next]_vars => ServedInv'
<1> SUFFICES ASSUME ServedInv, [Next]_vars PROVE ServedInv'
  OBVIOUS
<1> USE DEF ServedInv
<1>1. CASE pc # "idle" /\ UNCHANGED <<entries, device>>
  BY <1>1
<1>2. CASE StartProbe
  BY <1>2 DEF StartProbe
<1>3. CASE Record
  <2>1. CASE detail.success
    <3>1. /\ entries' = Merged(entries, [a \in Addr |-> Target]) /\ device' = Event
          /\ pc' = "idle" /\ UNCHANGED <<cfg, labels>>
      BY <1>3, <2>1 DEF Record, MergeFound
    <3>2. DOMAIN entries' = Addr /\ \A a \in Addr : entries'[a] = Fresh(Target)
      <4> DEFINE found == [a \in Addr |-> Target]
      <4>1. DOMAIN found = Addr /\ \A a \in Addr : found[a] = Target
        OBVIOUS
      <4> HIDE DEF found
      <4>2. DOMAIN entries \ DOMAIN found = {}
        BY <4>1
      <4> QED
        BY <3>1, <4>1, <4>2 DEF Merged, found
    <3>3. \A a \in Addr : entries'[a].target.tiers = Modules.tiers
      BY <3>2 DEF Fresh, Target
    <3>4. Modules' = Modules /\ Event' = Event
      BY <3>1 DEF Modules, Event
    <3> QED
      BY <3>1, <3>2, <3>3, <3>4
  <2>2. CASE ~detail.success
    <3>1. device' = NotFound /\ pc' = "idle" /\ entries' = Merged(entries, NoEntries)
      BY <1>3, <2>2 DEF Record, MergeFound
    <3>2. DOMAIN entries' \subseteq Addr
      BY <3>1 DEF Merged, NoEntries
    <3> QED
      BY <3>1, <3>2
  <2> QED
    BY <2>1, <2>2
<1>4. CASE ChangeAgent
  BY <1>4 DEF ChangeAgent, Modules, Event
<1>5. CASE UNCHANGED vars
  BY <1>5 DEF vars, Modules, Event
<1>6. Connect \/ ConnectFails \/ GetError \/ GetNothing \/ GetAnswer =>
        pc # "idle" /\ UNCHANGED <<entries, device>>
  BY DEF Connect, ConnectFails, GetError, GetNothing, GetAnswer
<1> QED
  BY <1>1, <1>2, <1>3, <1>4, <1>5, <1>6 DEF Next, Step

\* The modules served for a device just found come from the first matcher that
\* fits its answer or from the defaults, are in the library, and what the library
\* lacks of them is reported (MatchTiersResult, filterTiersToKnown).
THEOREM ServesJustified == Spec => []ModulesJustified
<1>1. Init => ServedInv
  BY DEF Init, NoEntries, ServedInv
<1>2. ServedInv => ModulesJustified
  <2> SUFFICES ASSUME ServedInv, device # NotFound, NEW a \in DOMAIN entries
               PROVE  LET served == ModulesIn(entries[a].target.tiers)
                          first == CHOOSE i \in 0..Len(Fingerprinter.matchers) :
                                     FirstHit(labels, i)
                      IN  /\ cfg.library # {} => served \subseteq cfg.library
                          /\ served \cup device.dropped = Listed(ChainAt(first))
                          /\ device.kind = (IF first = 0 THEN "unknown" ELSE "known")
    <3> DEFINE fits(i) == labels[Fingerprinter.matchers[i].label]
                            \in Fingerprinter.matchers[i].values \ {""}
               right(i) == /\ i # 0 => fits(i)
                           /\ \A k \in DOMAIN Fingerprinter.matchers :
                                fits(k) => i # 0 /\ i <= k
    <3>1. ASSUME NEW i \in 0..Len(Fingerprinter.matchers)
          PROVE  right(i) <=> FirstHit(labels, i)
      <4>1. \A k \in DOMAIN Fingerprinter.matchers : fits(k) <=> k \in Hits(labels)
        BY DEF Hits, MatcherHit
      <4>2. i # 0 => i \in DOMAIN Fingerprinter.matchers
        BY CredentialsAssumption
      <4>3. Hits(labels) \subseteq DOMAIN Fingerprinter.matchers
        BY DEF Hits
      <4> HIDE DEF fits
      <4> QED
        BY <4>1, <4>2, <4>3 DEF FirstHit
    <3>2. (CHOOSE i \in 0..Len(Fingerprinter.matchers) : right(i)) =
            (CHOOSE i \in 0..Len(Fingerprinter.matchers) : FirstHit(labels, i))
      <4> HIDE DEF right
      <4> QED
        BY <3>1
    <3> QED
      BY <3>2 DEF ModulesJustified, Listed, ChainAt
  <2> DEFINE first == CHOOSE i \in 0..Len(Fingerprinter.matchers) : FirstHit(labels, i)
             match == MatchTiers(Fingerprinter, labels)
             kept == FilterToKnown(match.tiers, cfg.library)
  <2>1. FirstHit(labels, first)
    <3>1. \E i \in 0..Len(Fingerprinter.matchers) : FirstHit(labels, i)
      BY FirstDecides DEF FirstHit
    <3> QED
      BY <3>1
  <2>2. /\ entries[a].target.tiers = kept.tiers /\ device.dropped = kept.dropped
        /\ device.kind = match.kind
    BY DEF ServedInv, Event, Modules
  <2> HIDE DEF first
  <2>3. /\ match.tiers = TiersOf(ChainAt(first))
        /\ match.kind = (IF first = 0 THEN "unknown" ELSE "known")
    BY <2>1, FirstDecides
  <2>4. /\ ModulesIn(match.tiers) = Listed(ChainAt(first))
        /\ DOMAIN match.tiers = {"hot", "cold", "topology"}
    BY <2>3, TiersListed
  <2> HIDE DEF match
  <2>5. /\ cfg.library # {} => ModulesIn(kept.tiers) \subseteq cfg.library
        /\ ModulesIn(kept.tiers) \cup kept.dropped = ModulesIn(match.tiers)
    BY <2>4, FilterTells
  <2> HIDE DEF kept
  <2> QED
    BY <2>2, <2>3, <2>4, <2>5 DEF first
<1> QED
  BY <1>1, <1>2, ServedStep, PTL DEF Spec
-----------------------------------------------------------------------------
(* A probe is a hunt.                                                      *)

\* The queue of the hunt: what is left of the order.
LEMMA QueueLeft ==
  ASSUME NEW list \in Seq(Auth), NEW p \in 1..Len(list)
  PROVE  LET left == SubSeq(list, p, Len(list))
         IN  /\ left # <<>> /\ Head(left) = list[p]
             /\ Tail(left) = SubSeq(list, p + 1, Len(list))
             /\ p = Len(list) => Tail(left) = <<>>
<1>1. p \in Int /\ Len(list) \in Nat
  OBVIOUS
<1> DEFINE left == SubSeq(list, p, Len(list))
<1>2. /\ left \in Seq(Auth) /\ Len(left) = (Len(list) - p) + 1
      /\ left[1] = list[p]
  BY SubSeqProperties
<1>3. SubSeq(list, p, Len(list)) = <<list[p]>> \o SubSeq(list, p + 1, Len(list))
  BY SubSeqRecursiveFirst
<1>4. left # <<>>
  BY <1>1, <1>2, EmptySeq
<1>5. Tail(left) = SubSeq(list, p + 1, Len(list))
  BY HeadTailOfSubSeq
<1>6. p = Len(list) => SubSeq(list, p + 1, Len(list)) = <<>>
  BY SubSeqEmpty
<1>7. Head(left) = list[p]
  <2> HIDE DEF left
  <2>1. Head(left) = left[1]
    OBVIOUS
  <2> QED
    BY <1>2, <2>1
<1> QED
  BY <1>4, <1>5, <1>6, <1>7

LEMMA RejectedIsReject ==
  ASSUME ProbeInv, pc \in {"connect", "get"}, NEW e, Rejected(e),
         order' = order, winner' = winner
  PROVE  Hunting!Reject
<1>1. order \in Seq(Auth) /\ pos \in 1..Len(order)
  BY DEF ProbeInv, ProbeTyped, OnTheList
<1>2. CASE pos = Len(order)
  <2>1. pc' = "report"
    BY <1>2 DEF Rejected, NextAuth
  <2> QED
    BY <1>1, <1>2, <2>1, QueueLeft DEF Hunting!Reject
<1>3. CASE pos # Len(order)
  <2>1. pc' = "connect" /\ pos' = pos + 1
    BY <1>3 DEF Rejected, NextAuth
  <2> QED
    BY <1>1, <2>1, QueueLeft DEF Hunting!Reject
<1> QED
  BY <1>2, <1>3

\* Every step of a probe is a step of the hunt or none.
LEMMA StepHunts ==
  ASSUME ProbeInv, [Next]_vars
  PROVE  [Hunting!Next]_(Hunting!vars)
<1> USE DEF Hunting!Next, Hunting!vars
<1>1. CASE StartProbe
  <2>1. PICK i \in 1..Len(cfg'.auths) : order' = Fronted(cfg'.auths, i)
    BY <1>1, PreferAuthIs, CredentialsAssumption DEF StartProbe
  <2>2. cfg'.auths \in Seq(Auth) /\ cfg' \in Configs
    BY <1>1, CredentialsAssumption DEF StartProbe
  <2>3. order' \in Seq(Auth) /\ order' = Hunting!ToFront(cfg'.auths, i)
    BY <2>1, <2>2, FrontedIs
  <2>4. SubSeq(order', 1, Len(order')) = order'
    BY <2>3, SubSeqFull
  <2>5. Hunting!Begin
    BY <1>1, <2>2, <2>3, <2>4 DEF StartProbe, Hunting!Begin
  <2> QED
    BY <2>5
<1>2. CASE Connect
  BY <1>2 DEF Connect
<1>3. CASE ConnectFails
  BY <1>3, RejectedIsReject DEF ConnectFails
<1>4. CASE GetError
  <2>1. PICK e \in Errors :
          IF attempt < Extra
          THEN /\ attempt' = attempt + 1
               /\ detail' = [detail EXCEPT !.retries = @ + 1]
               /\ UNCHANGED <<pc, pos>>
          ELSE Rejected(e)
    BY <1>4 DEF GetError, Extra
  <2>2. CASE attempt < Extra
    BY <1>4, <2>1, <2>2 DEF GetError
  <2>3. CASE ~(attempt < Extra)
    BY <1>4, <2>1, <2>3, RejectedIsReject DEF GetError
  <2> QED
    BY <2>2, <2>3
<1>5. CASE GetNothing
  BY <1>5, RejectedIsReject DEF GetNothing
<1>6. CASE GetAnswer
  <2>1. order \in Seq(Auth) /\ pos \in 1..Len(order)
    BY <1>6 DEF GetAnswer, ProbeInv, ProbeTyped, OnTheList
  <2>2. Hunting!Accept
    BY <1>6, <2>1, QueueLeft DEF GetAnswer, Hunting!Accept
  <2> QED
    BY <2>2
<1>7. CASE Record
  BY <1>7 DEF Record
<1>8. CASE ChangeAgent
  BY <1>8 DEF ChangeAgent
<1>9. CASE UNCHANGED vars
  BY <1>9 DEF vars
<1> QED
  BY <1>1, <1>2, <1>3, <1>4, <1>5, <1>6, <1>7, <1>8, <1>9 DEF Next, Step

\* The scan's probe implements the hunt: the credentials of one list of the group,
\* at most one of them moved to the front, one after the other, each once, until
\* one works or none is left.
THEOREM ProbesHunt == Spec => IsHunt
<1>1. Init => Hunting!Init
  BY DEF Init, Hunting!Init
<1>2. ProbeInv /\ [Next]_vars => [Hunting!Next]_(Hunting!vars)
  BY StepHunts
<1> QED
  BY <1>1, <1>2, AlwaysProbeInv, PTL DEF Spec, IsHunt, Hunting!Spec
===============================================================================

---------------------------- MODULE Commands_proofs ----------------------------
(***************************************************************************)
(* Running the operator's commands one after the other, whatever is        *)
(* answered, walked, edited or killed: which files there are in the end.   *)
(***************************************************************************)
EXTENDS Commands, Numbers_proofs

-----------------------------------------------------------------------------
(* The inductive invariant.                                                *)

Writing == job.pc \in {"stat", "open", "write", "chmod"}

\* A plan, and a pick as DraftPick makes it and the operator leaves it.
IsPlan(p) ==
  /\ p = [auths |-> p.auths, groups |-> p.groups]
  /\ IsList(p.auths) /\ \A a \in Range(p.auths) : IsAuth(a)
  /\ IsList(p.groups) /\ \A g \in Range(p.groups) : IsGroup(g)

\* What is left to write of an init is a suffix of its two files.
PickFile(d) == <<[path |-> "pick", body |-> <<d.pick>>]>>
LeftToWrite ==
  \/ job.cmd = "init" /\ ValidateInitPlan(plan)
     /\ \/ job.todo = InitFiles(plan)
        \/ job.todo = Tail(InitFiles(plan)) /\ files.auths = RenderAuths(plan)
  \/ job.cmd = "pick" /\ job.todo = PickFile(draft)
  \/ job.cmd = "emit"
     /\ job.todo = <<[path |-> "module", body |-> <<EmitPickModule(files.pick[1])>>]>>

CommandsTyped ==
  /\ TypeOK
  /\ files = [p \in Paths |-> files[p]]
  /\ job = [cmd |-> job.cmd, pc |-> job.pc, todo |-> job.todo, force |-> job.force,
            outcome |-> job.outcome]
  /\ IsPlan(plan)

\* writeNewFile: it comes to opening a file that is there only when forced.
AtFile ==
  /\ Writing => LeftToWrite
  /\ job.pc = "open" => job.force \/ files[Next1.path] = Absent
  /\ job.pc = "write" => files[Next1.path] = <<>>
  /\ job.pc = "chmod" => files[Next1.path] = Next1.body

\* What a command that has succeeded has left, or what it has read.
Succeeded ==
  /\ job.cmd = "init" =>
       /\ ValidateInitPlan(plan)
       /\ files.auths = RenderAuths(plan) /\ files.discovery = RenderDiscovery(plan)
  /\ job.cmd = "check" =>
       /\ Readable(files.auths)
       /\ \E withSnmp \in BOOLEAN : CheckAuthDiscovery(files.auths, files.discovery, withSnmp)

CommandsInv ==
  /\ CommandsTyped
  /\ job.pc \in {"auths", "groups"} => job.cmd = "init"
  /\ AtFile
  /\ job.cmd = "pick" /\ job.outcome # "error" => draft \in Drafts
  /\ job.outcome = "ok" => Succeeded
-----------------------------------------------------------------------------
(* Lists, auths and groups.                                                *)

LEMMA ListIs ==
  ASSUME NEW s, IsList(s)
  PROVE  /\ Len(s) \in Nat /\ DOMAIN s = 1..Len(s)
         /\ \A i \in DOMAIN s : s[i] \in Range(s)
         /\ \A x \in Range(s) : \E i \in DOMAIN s : s[i] = x
<1> DEFINE R == Range(s)
<1>1. s \in Seq(R)
  BY DEF IsList
<1>2. Len(s) \in Nat /\ DOMAIN s = 1..Len(s)
  <2> HIDE DEF R
  <2> QED
    BY <1>1
<1> QED
  BY <1>2 DEF Range

LEMMA EmptyList ==
  ASSUME NEW s, IsList(s)
  PROVE  s = <<>> <=> Len(s) = 0
<1> DEFINE R == Range(s)
<1>1. s \in Seq(R)
  BY DEF IsList
<1> HIDE DEF R
<1> QED
  BY <1>1, EmptySeq

\* A function on the first numbers is a list.
LEMMA ListFrom ==
  ASSUME NEW n \in Nat, NEW r, r = [i \in 1..n |-> r[i]]
  PROVE  IsList(r) /\ Len(r) = n /\ DOMAIN r = 1..n
<1> DEFINE R == Range(r)
<1>1. DOMAIN r = 1..n
  OBVIOUS
<1>2. \A i \in 1..n : r[i] \in R
  BY <1>1 DEF Range
<1> HIDE DEF R
<1>3. r \in [1..n -> R]
  BY <1>2
<1>4. r \in Seq(R) /\ Len(r) = n
  BY <1>3
<1> QED
  BY <1>1, <1>4 DEF IsList, R

LEMMA AppendedList ==
  ASSUME NEW s, IsList(s), NEW x
  PROVE  /\ IsList(Append(s, x)) /\ Range(Append(s, x)) = Range(s) \cup {x}
         /\ Len(Append(s, x)) = Len(s) + 1
<1> DEFINE R == Range(s)
           X == R \cup {x}
           t == Append(s, x)
<1>1. s \in Seq(R)
  BY DEF IsList
<1> HIDE DEF R
<1>2. s \in Seq(X) /\ x \in X
  BY <1>1
<1> HIDE DEF X
<1>3. Append(s, x) \in Seq(X) /\ Range(Append(s, x)) = Range(s) \cup {x}
  BY <1>2, OneAppended
<1>4. Len(Append(s, x)) = Len(s) + 1
  BY <1>2, AppendProperties
<1>5. t \in Seq(Range(t))
  BY <1>3 DEF X, R
<1> QED
  BY <1>3, <1>4, <1>5 DEF IsList

LEMMA JoinedList ==
  ASSUME NEW s, IsList(s), NEW t, IsList(t)
  PROVE  IsList(s \o t) /\ Range(s \o t) = Range(s) \cup Range(t)
<1> DEFINE X == Range(s) \cup Range(t)
           u == s \o t
<1>1. s \in Seq(Range(s)) /\ t \in Seq(Range(t))
  BY DEF IsList
<1>2. s \in Seq(X) /\ t \in Seq(X)
  <2> DEFINE R == Range(s)
             T == Range(t)
  <2> HIDE DEF R, T
  <2> QED
    BY <1>1 DEF R, T
<1> HIDE DEF X
<1>3. /\ u \in Seq(X) /\ Len(u) = Len(s) + Len(t)
      /\ \A i \in 1..Len(s) : u[i] = s[i]
      /\ \A i \in 1..Len(t) : u[Len(s) + i] = t[i]
  BY <1>2, ConcatProperties
<1>4. /\ Len(s) \in Nat /\ DOMAIN s = 1..Len(s) /\ Len(t) \in Nat /\ DOMAIN t = 1..Len(t)
      /\ DOMAIN u = 1..Len(u)
  BY <1>2, <1>3
<1> HIDE DEF u
<1>5. \A i \in DOMAIN u : i \in DOMAIN s \/ \E k \in DOMAIN t : i = Len(s) + k
  <2>1. ASSUME NEW i \in DOMAIN u, i \notin DOMAIN s
        PROVE  i - Len(s) \in DOMAIN t /\ i = Len(s) + (i - Len(s))
    BY <1>3, <1>4, <2>1
  <2> QED
    BY <2>1
<1>6. /\ \A i \in DOMAIN s : i \in DOMAIN u
      /\ \A k \in DOMAIN t : Len(s) + k \in DOMAIN u
  BY <1>3, <1>4
<1>7. Range(u) = Range(s) \cup Range(t)
  <2>1. ASSUME NEW x \in Range(u) PROVE x \in Range(s) \cup Range(t)
    <3>1. PICK i \in DOMAIN u : u[i] = x
      BY <2>1 DEF Range
    <3>2. CASE i \in DOMAIN s
      BY <1>3, <1>4, <3>1, <3>2 DEF Range
    <3>3. CASE \E k \in DOMAIN t : i = Len(s) + k
      BY <1>3, <1>4, <3>1, <3>3 DEF Range
    <3> QED
      BY <1>5, <3>2, <3>3
  <2>2. ASSUME NEW x \in Range(s) PROVE x \in Range(u)
    BY <1>3, <1>4, <1>6, <2>2 DEF Range
  <2>3. ASSUME NEW x \in Range(t) PROVE x \in Range(u)
    BY <1>3, <1>4, <1>6, <2>3 DEF Range
  <2> QED
    BY <2>1, <2>2, <2>3
<1>8. u \in Seq(Range(u))
  BY <1>3, <1>7 DEF X
<1> QED
  BY <1>7, <1>8 DEF u, IsList

LEMMA SomeOfList ==
  ASSUME NEW s, IsList(s), NEW where
  PROVE  IsList(ElementsAt(s, where)) /\ Range(ElementsAt(s, where)) \subseteq Range(s)
<1> DEFINE R == Range(s)
           t == ElementsAt(s, where)
<1>1. s \in Seq(R) /\ DOMAIN s = 1..Len(s)
  BY ListIs DEF IsList
<1> HIDE DEF R
<1>2. t \in Seq(R) /\ Range(t) = {s[i] : i \in where \cap DOMAIN s}
  BY <1>1, ElementsAtIs
<1>3. Range(t) \subseteq R
  BY <1>2 DEF Range, R
<1>4. Len(t) \in Nat /\ t = [i \in 1..Len(t) |-> t[i]]
  BY <1>2
<1> HIDE DEF t
<1>5. IsList(t)
  BY <1>4, ListFrom
<1> QED
  BY <1>3, <1>5 DEF t, R

LEMMA OrElseIs ==
  ASSUME NEW x, NEW default
  PROVE  /\ default # "" => OrElse(x, default) # ""
         /\ x # "" => OrElse(x, default) = x
         /\ x = "" => OrElse(x, default) = default
BY DEF OrElse

LEMMA ParsedAuthIs ==
  ASSUME NEW a, IsAuth(a)
  PROVE  IsAuth(ParseAuthFlag(a))
<1> DEFINE l == OrElse(a.level, "authPriv")
           p == OrElse(a.authProto, "SHA256")
           q == OrElse(a.privProto, "AES")
<1>1. ParseAuthFlag(a) = IF a.version # 3 THEN a
        ELSE [[[a EXCEPT !.level = l] EXCEPT !.authProto = p] EXCEPT !.privProto = q]
  BY DEF ParseAuthFlag, IsAuth
<1> HIDE DEF l, p, q
<1> QED
  BY <1>1 DEF IsAuth

LEMMA AnsweredIs ==
  ASSUME NEW a, IsAuth(a)
  PROVE  IsAuth(Answered(a))
<1> DEFINE record(h, l, p, q) ==
      [name |-> a.name, version |-> a.version, has |-> h, level |-> l,
       authProto |-> p, privProto |-> q]
<1>1. \E h, l, p, q : Answered(a) = record(h, l, p, q)
  BY DEF Answered, IsAuth
<1> QED
  BY <1>1 DEF IsAuth

LEMMA ParsedGroupIs ==
  ASSUME NEW g, IsGroup(g)
  PROVE  IsGroup(ParseGroupFlag(g))
<1> DEFINE m == OrElse(g.mode, "sweep")
           n == OrElse(g.fp, "network")
<1>1. ParseGroupFlag(g) = [[g EXCEPT !.mode = m] EXCEPT !.fp = n]
  BY DEF ParseGroupFlag, IsGroup
<1> HIDE DEF m, n
<1> QED
  BY <1>1 DEF IsGroup

LEMMA FlagsPlan ==
  ASSUME NEW f \in Flags
  PROVE  IsPlan(PlanFromFlags(f))
<1> DEFINE of(v) == ElementsAt(f.auths, {i \in DOMAIN f.auths : f.auths[i].version = v})
           sorted == of(1) \o of(2) \o of(3)
           auths == [i \in DOMAIN sorted |-> ParseAuthFlag(sorted[i])]
           groups == [i \in DOMAIN f.groups |-> ParseGroupFlag(f.groups[i])]
<1>1. PlanFromFlags(f) = [auths |-> auths, groups |-> groups]
  BY DEF PlanFromFlags
<1>2. /\ IsList(f.auths) /\ \A a \in Range(f.auths) : IsAuth(a)
      /\ IsList(f.groups) /\ \A g \in Range(f.groups) : IsGroup(g)
  BY CommandsAssumption
<1>3. ASSUME NEW v \in {1, 2, 3}
      PROVE  IsList(of(v)) /\ Range(of(v)) \subseteq Range(f.auths)
  BY <1>2, SomeOfList
<1> HIDE DEF of
<1>4. IsList(sorted) /\ Range(sorted) \subseteq Range(f.auths)
  <2>1. IsList(of(1)) /\ IsList(of(2)) /\ IsList(of(3))
    BY <1>3
  <2>2. IsList(of(1) \o of(2)) /\ Range(of(1) \o of(2)) = Range(of(1)) \cup Range(of(2))
    BY <2>1, JoinedList
  <2>3. IsList(sorted) /\ Range(sorted) = Range(of(1) \o of(2)) \cup Range(of(3))
    BY <2>1, <2>2, JoinedList
  <2> QED
    BY <1>3, <2>2, <2>3
<1> HIDE DEF sorted
<1>5. IsList(auths) /\ \A a \in Range(auths) : IsAuth(a)
  <2>1. Len(sorted) \in Nat /\ DOMAIN sorted = 1..Len(sorted)
        /\ \A i \in DOMAIN sorted : sorted[i] \in Range(sorted)
    BY <1>4, ListIs
  <2>2. \A i \in DOMAIN sorted : IsAuth(ParseAuthFlag(sorted[i]))
    BY <1>2, <1>4, <2>1, ParsedAuthIs
  <2>3. auths = [i \in 1..Len(sorted) |-> auths[i]] /\ DOMAIN auths = DOMAIN sorted
        /\ \A i \in DOMAIN sorted : auths[i] = ParseAuthFlag(sorted[i])
    BY <2>1
  <2> HIDE DEF auths
  <2>4. IsList(auths)
    BY <2>1, <2>3, ListFrom
  <2> QED
    BY <2>2, <2>3, <2>4 DEF Range
<1>6. IsList(groups) /\ \A g \in Range(groups) : IsGroup(g)
  <2> DEFINE gs == f.groups
  <2>1. Len(gs) \in Nat /\ DOMAIN gs = 1..Len(gs) /\ \A i \in DOMAIN gs : gs[i] \in Range(gs)
    BY <1>2, ListIs
  <2>2. \A i \in DOMAIN gs : IsGroup(ParseGroupFlag(gs[i]))
    BY <1>2, <2>1, ParsedGroupIs
  <2>3. groups = [i \in 1..Len(gs) |-> groups[i]] /\ DOMAIN groups = DOMAIN gs
        /\ \A i \in DOMAIN gs : groups[i] = ParseGroupFlag(gs[i])
    BY <2>1
  <2> HIDE DEF groups, gs
  <2>4. IsList(groups)
    BY <2>1, <2>3, ListFrom
  <2> QED
    BY <2>2, <2>3, <2>4 DEF Range
<1> HIDE DEF auths, groups
<1> QED
  BY <1>1, <1>5, <1>6 DEF IsPlan
-----------------------------------------------------------------------------
(* What init renders is what the daemon reads.                             *)

\* No file is both unreadable and a list of entries.
FilesApart == \A s : IsList(s) => s \notin {Absent, Broken}

LEMMA RenderedAuth ==
  ASSUME NEW a, IsAuth(a), ValidAuth(a)
  PROVE  /\ RenderAuth(a).name = ReadBack(a.name) /\ RenderAuth(a).version = a.version
         /\ a.version = 3 => /\ ParsedLevel(RenderAuth(a)) = PlannedLevel(a)
                             /\ ParsedLevel(RenderAuth(a)) \in Levels
                             /\ "username" \in RenderAuth(a).has
                             /\ Secrets(PlannedLevel(a)) \subseteq RenderAuth(a).has
<1> DEFINE l == PlannedLevel(a)
           r == RenderAuth(a)
           name == ReadBack(a.name)
<1>1. CASE a.version # 3
  <2>1. r = [[a EXCEPT !.name = name] EXCEPT !.has = a.has \cap {"community"}]
    BY <1>1 DEF RenderAuth, IsAuth
  <2> HIDE DEF name, r
  <2>2. r.name = name /\ r.version = a.version
    BY <2>1 DEF IsAuth
  <2> QED
    BY <1>1, <2>2 DEF name, r
<1>2. CASE a.version = 3
  <2>1. "username" \in a.has /\ l \in Levels /\ Secrets(l) \subseteq a.has
    BY <1>2 DEF ValidAuth
  <2> DEFINE h == a.has \ {"community"}
             p == OrElse(a.authProto, IF l = "noAuthNoPriv" THEN "" ELSE "SHA256")
             q == OrElse(a.privProto, IF l = "authPriv" THEN "AES" ELSE "")
  <2>2. r = [name |-> name, version |-> a.version, has |-> h, level |-> l,
             authProto |-> p, privProto |-> q]
    BY <1>2 DEF RenderAuth, IsAuth
  <2> HIDE DEF p, q, l, r, name
  <2>3. l # ""
    BY <2>1 DEF Levels
  <2>4. ParsedLevel(r) = l
    BY <2>2, <2>3 DEF ParsedLevel, OrElse
  <2>5. Secrets(l) \subseteq {"password", "priv_password"}
    BY <2>1 DEF Secrets, Levels
  <2>6. "username" \in h /\ Secrets(l) \subseteq h
    BY <2>1, <2>5
  <2>7. r.name = name /\ r.version = a.version /\ r.has = h
    BY <2>2
  <2> QED
    BY <2>1, <2>4, <2>6, <2>7 DEF l, r, name
<1> QED
  BY <1>1, <1>2

LEMMA RenderedGroup ==
  ASSUME NEW g, IsGroup(g)
  PROVE  /\ RenderGroup(g).name = g.name /\ RenderGroup(g).cidrs = g.cidrs
         /\ RenderGroup(g).auths = g.auths /\ RenderGroup(g).allowLarge = g.allowLarge
         /\ RenderGroup(g).exclude = <<>> /\ RenderGroup(g).fp # ""
         /\ GroupMode(RenderGroup(g)) = PlannedMode(g)
<1> DEFINE m == PlannedMode(g)
           n == OrElse(g.fp, "network")
           r == RenderGroup(g)
<1>1. r = [[[g EXCEPT !.exclude = <<>>] EXCEPT !.fp = n] EXCEPT !.mode = m]
  BY DEF RenderGroup, IsGroup
<1>2. m # "" /\ n # ""
  BY DEF PlannedMode, OrElse
<1> HIDE DEF m, n, r
<1>3. r = [name |-> g.name, cidrs |-> g.cidrs, exclude |-> <<>>, auths |-> g.auths, fp |-> n,
           mode |-> m, allowLarge |-> g.allowLarge]
  BY <1>1 DEF IsGroup
<1>4. GroupMode(r) = m
  BY <1>2, <1>3 DEF GroupMode, OrElse
<1>5. /\ r.name = g.name /\ r.cidrs = g.cidrs /\ r.auths = g.auths
      /\ r.allowLarge = g.allowLarge /\ r.exclude = <<>> /\ r.fp # ""
  BY <1>2, <1>3
<1> QED
  BY <1>4, <1>5 DEF m, r

LEMMA RenderedFiles ==
  ASSUME NEW p, IsPlan(p)
  PROVE  /\ IsList(RenderAuths(p)) /\ IsList(RenderDiscovery(p))
         /\ Len(RenderAuths(p)) = Len(p.auths) /\ Len(RenderDiscovery(p)) = Len(p.groups)
         /\ DOMAIN RenderAuths(p) = DOMAIN p.auths /\ DOMAIN RenderDiscovery(p) = DOMAIN p.groups
         /\ \A i \in DOMAIN p.auths :
              /\ RenderAuths(p)[i] = RenderAuth(p.auths[i])
              /\ p.auths[i] \in Range(p.auths) /\ IsAuth(p.auths[i])
         /\ \A i \in DOMAIN p.groups :
              /\ RenderDiscovery(p)[i] = RenderGroup(p.groups[i])
              /\ p.groups[i] \in Range(p.groups) /\ IsGroup(p.groups[i])
<1> DEFINE as == p.auths
           gs == p.groups
           A == RenderAuths(p)
           G == RenderDiscovery(p)
<1>1. /\ A = [i \in DOMAIN as |-> RenderAuth(as[i])]
      /\ G = [i \in DOMAIN gs |-> RenderGroup(gs[i])]
  BY DEF RenderAuths, RenderDiscovery
<1>2. /\ IsList(as) /\ \A a \in Range(as) : IsAuth(a)
      /\ IsList(gs) /\ \A g \in Range(gs) : IsGroup(g)
  BY DEF IsPlan
<1> HIDE DEF as, gs, A, G
<1>3. /\ Len(as) \in Nat /\ DOMAIN as = 1..Len(as) /\ \A i \in DOMAIN as : as[i] \in Range(as)
      /\ Len(gs) \in Nat /\ DOMAIN gs = 1..Len(gs) /\ \A i \in DOMAIN gs : gs[i] \in Range(gs)
  BY <1>2, ListIs
<1>4. A = [i \in 1..Len(as) |-> A[i]] /\ G = [i \in 1..Len(gs) |-> G[i]]
  BY <1>1, <1>3
<1>5. /\ IsList(A) /\ Len(A) = Len(as) /\ DOMAIN A = DOMAIN as
      /\ IsList(G) /\ Len(G) = Len(gs) /\ DOMAIN G = DOMAIN gs
  BY <1>3, <1>4, ListFrom
<1>6. /\ \A i \in DOMAIN as : A[i] = RenderAuth(as[i])
      /\ \A i \in DOMAIN gs : G[i] = RenderGroup(gs[i])
  BY <1>1
<1> QED
  BY <1>2, <1>3, <1>5, <1>6 DEF as, gs, A, G

LEMMA PlanLoads ==
  ASSUME FilesApart, NEW p, IsPlan(p), ValidateInitPlan(p), KnownProtocols(RenderAuths(p)),
         \A g \in Range(RenderDiscovery(p)) : g.fp \in Fingerprinters,
         \A a \in Range(p.auths) : a.name \notin NullNames
  PROVE  DaemonLoads(RenderAuths(p), RenderDiscovery(p))
<1> DEFINE as == p.auths
           gs == p.groups
           A == RenderAuths(p)
           G == RenderDiscovery(p)
<1>1. /\ IsList(A) /\ IsList(G) /\ DOMAIN A = DOMAIN as /\ DOMAIN G = DOMAIN gs
      /\ \A i \in DOMAIN as : A[i] = RenderAuth(as[i]) /\ as[i] \in Range(as) /\ IsAuth(as[i])
      /\ \A i \in DOMAIN gs : G[i] = RenderGroup(gs[i]) /\ gs[i] \in Range(gs) /\ IsGroup(gs[i])
      /\ Len(A) = Len(as) /\ Len(G) = Len(gs)
  BY RenderedFiles
<1>2. /\ as # <<>> /\ Distinct(as) /\ \A a \in Range(as) : ValidAuth(a)
      /\ gs # <<>> /\ Distinct(gs) /\ \A g \in Range(gs) : ValidGroup(g, Names(as))
      /\ IsList(as) /\ IsList(gs)
  BY DEF ValidateInitPlan, IsPlan
<1>3. /\ KnownProtocols(A) /\ \A g \in Range(G) : g.fp \in Fingerprinters
      /\ \A a \in Range(as) : a.name \notin NullNames
  OBVIOUS
<1> HIDE DEF as, gs, A, G
<1>4. Readable(A) /\ Readable(G)
  BY <1>1 DEF FilesApart, Readable
<1>5. A # <<>> /\ G # <<>>
  BY <1>1, <1>2, EmptyList
<1>6. ASSUME NEW i \in DOMAIN as
      PROVE  A[i].name = as[i].name /\ ParsesAuth(A[i])
  <2>1. /\ A[i] = RenderAuth(as[i]) /\ IsAuth(as[i]) /\ ValidAuth(as[i])
        /\ A[i] \in Range(A) /\ ReadBack(as[i].name) = as[i].name
    BY <1>1, <1>2, <1>3 DEF Range, ReadBack
  <2>2. /\ A[i].name = as[i].name /\ A[i].version = as[i].version
        /\ as[i].version = 3 => /\ ParsedLevel(A[i]) = PlannedLevel(as[i])
                                /\ ParsedLevel(A[i]) \in Levels
                                /\ "username" \in A[i].has
                                /\ Secrets(PlannedLevel(as[i])) \subseteq A[i].has
    BY <2>1, RenderedAuth
  <2>3. A[i].version \in {1, 2, 3}
    BY <2>1, <2>2 DEF ValidAuth
  <2>4. A[i].authProto \in AuthProtocols \cup {""} /\ A[i].privProto \in PrivProtocols \cup {""}
    BY <1>3, <2>1 DEF KnownProtocols
  <2>5. CASE as[i].version = 3
    <3>1. A[i].version = 3 /\ Secrets(ParsedLevel(A[i])) \subseteq A[i].has
      BY <2>2, <2>5
    <3> QED
      BY <2>2, <2>4, <2>5, <3>1 DEF ParsesAuth
  <2>6. CASE as[i].version # 3
    <3>1. A[i].version \in {1, 2}
      BY <2>2, <2>3, <2>6
    <3>2. A[i].version \in 0..2
      <4> DEFINE v == A[i].version
      <4>1. v = 1 \/ v = 2
        BY <3>1
      <4> HIDE DEF v
      <4>2. v \in 0..2
        BY <4>1
      <4> QED
        BY <4>2 DEF v
    <3> QED
      BY <2>2, <3>2 DEF ParsesAuth
  <2> QED
    BY <2>5, <2>6
<1>7. ASSUME NEW i \in DOMAIN gs
      PROVE  /\ G[i].name = gs[i].name /\ G[i].name # "" /\ G[i].cidrs # <<>> /\ G[i].auths # <<>>
             /\ GroupMode(G[i]) \in Modes /\ Range(G[i].auths) \subseteq Names(as)
             /\ FindsFingerprinter(G[i]) /\ Expands(G[i])
  <2>1. G[i] = RenderGroup(gs[i]) /\ IsGroup(gs[i]) /\ ValidGroup(gs[i], Names(as))
    BY <1>1, <1>2
  <2>2. /\ G[i].name = gs[i].name /\ G[i].cidrs = gs[i].cidrs /\ G[i].auths = gs[i].auths
        /\ G[i].allowLarge = gs[i].allowLarge /\ GroupMode(G[i]) = PlannedMode(gs[i])
        /\ G[i].exclude = <<>> /\ G[i].fp # ""
    BY <2>1, RenderedGroup
  <2>3. \A c \in Range(gs[i].cidrs) : c # Bad /\ ~TooLarge(c, gs[i].allowLarge)
    BY <2>1 DEF ValidGroup, ValidCidr
  <2>4. Expands(G[i])
    <3>1. Range(<<>>) = {}
      BY DEF Range
    <3>2. Bad \notin Range(G[i].exclude)
      BY <2>2, <3>1
    <3> QED
      BY <2>2, <2>3, <3>2 DEF Expands
  <2>5. G[i] \in Range(G)
    BY <1>1 DEF Range
  <2>6. FindsFingerprinter(G[i])
    BY <1>3, <2>2, <2>5 DEF FindsFingerprinter, OrElse
  <2> QED
    BY <2>1, <2>2, <2>4, <2>6 DEF ValidGroup
<1>8. Distinct(G)
  BY <1>1, <1>2, <1>7 DEF Distinct
<1>9. LoadsDiscovery(G)
  <2>1. \A g \in Range(G) : g.name # "" /\ g.cidrs # <<>> /\ g.auths # <<>> /\ GroupMode(g) \in Modes
    BY <1>1, <1>7 DEF Range
  <2> QED
    BY <1>4, <1>5, <1>8, <2>1 DEF LoadsDiscovery
<1>10. ASSUME NEW n \in Names(as)
       PROVE  \E a \in AuthsMap(A) : a.name = n /\ ParsesAuth(a)
  <2>1. PICK a \in Range(as) : a.name = n
    BY DEF Names
  <2>2. PICK i \in DOMAIN as : as[i] = a
    BY <1>2, ListIs
  <2>3. A[i] \in Range(A) /\ A[i].name = n /\ ParsesAuth(A[i])
    BY <1>1, <1>6, <2>1, <2>2 DEF Range
  <2> QED
    BY <2>3 DEF AuthsMap
<1>11. ASSUME NEW g \in Range(G)
       PROVE  FindsFingerprinter(g) /\ LoadsAuths(A, g) /\ Expands(g)
  <2>1. PICK i \in DOMAIN G : G[i] = g
    BY DEF Range
  <2>2. Range(g.auths) \subseteq Names(as) /\ FindsFingerprinter(g) /\ Expands(g)
    BY <1>1, <1>7, <2>1
  <2> QED
    BY <1>4, <1>5, <1>10, <2>2 DEF LoadsAuths
<1> QED
  BY <1>9, <1>11 DEF DaemonLoads, A, G

\* What `init --check' finds, against what the daemon needs.
LEMMA CheckedStarts ==
  ASSUME NEW auths, NEW discovery, NEW withSnmp \in BOOLEAN,
         Readable(auths), CheckAuthDiscovery(auths, discovery, withSnmp)
  PROVE  \/ DaemonLoads(auths, discovery)
         \/ auths = <<>>
         \/ \E g \in Range(discovery) :
              \/ ~FindsFingerprinter(g)
              \/ ~Expands(g)
              \/ \E a \in AuthsMap(auths) : a.name \in Range(g.auths) /\ ~ParsesAuth(a)
<1> DEFINE known == Names(auths) \cup (IF withSnmp THEN {a.name : a \in SnmpAuths} ELSE {})
<1>1. /\ LoadsDiscovery(discovery)
      /\ \A g \in Range(discovery) : Range(g.auths) \subseteq known
  BY DEF CheckAuthDiscovery
<1>2. ASSUME NEW n \in known
      PROVE  \E a \in AuthsMap(auths) : a.name = n
  <2>1. CASE n \in Names(auths)
    BY <2>1 DEF Names, AuthsMap
  <2>2. CASE n \notin Names(auths)
    BY <2>2 DEF AuthsMap
  <2> QED
    BY <2>1, <2>2
<1> HIDE DEF known
<1>3. SUFFICES ASSUME auths # <<>>,
                      \A g \in Range(discovery) :
                        /\ FindsFingerprinter(g) /\ Expands(g)
                        /\ \A a \in AuthsMap(auths) : a.name \in Range(g.auths) => ParsesAuth(a)
               PROVE  DaemonLoads(auths, discovery)
  OBVIOUS
<1>4. ASSUME NEW g \in Range(discovery)
      PROVE  LoadsAuths(auths, g)
  BY <1>1, <1>2, <1>3 DEF LoadsAuths
<1> QED
  BY <1>1, <1>3, <1>4 DEF DaemonLoads
-----------------------------------------------------------------------------
(* What walk-pick reads, and what it makes of it.                          *)

IsWalk(w) == IsList(w) /\ \A v \in Range(w) : v.oid \in Seq(Nat)

LEMMA ReadWalk ==
  ASSUME NEW agent \in Agents, NEW read \in Reads(agent)
  PROVE  IsWalk(read)
<1> DEFINE R == Range(agent)
<1>1. IsList(agent) /\ \A v \in R : v.oid \in Seq(Nat)
  BY CommandsAssumption
<1>2. agent \in Seq(R) /\ Len(agent) \in Nat
  BY <1>1, ListIs DEF IsList
<1>3. CASE read = agent
  BY <1>1, <1>3 DEF IsWalk
<1>4. CASE read # agent
  <2>1. PICK n \in 1..Len(agent) : read = SubSeq(agent, 1, n) \o agent
    BY <1>4 DEF Reads
  <2> DEFINE s == SubSeq(agent, 1, n)
  <2> HIDE DEF R
  <2>2. s \in Seq(R) /\ Len(s) \in Nat
    <3>1. \A i \in 1..n : agent[i] \in R
      BY <1>2
    <3> QED
      BY <1>2, <3>1, SubSeqProperties
  <2> HIDE DEF s
  <2>3. s = [i \in 1..Len(s) |-> s[i]] /\ Range(s) \subseteq R
    BY <2>2 DEF Range
  <2>4. IsList(s)
    BY <2>2, <2>3, ListFrom
  <2>5. read = s \o agent
    BY <2>1 DEF s
  <2>6. IsList(read) /\ Range(read) = Range(s) \cup Range(agent)
    BY <1>1, <2>4, <2>5, JoinedList
  <2>7. Range(read) \subseteq R
    BY <2>3, <2>6 DEF R
  <2> QED
    BY <1>1, <2>6, <2>7 DEF IsWalk
<1> QED
  BY <1>3, <1>4

LEMMA DraftIs ==
  ASSUME NEW d \in Drafts
  PROVE  /\ IsWalk(d.walk) /\ d.lib \subseteq Seq(Nat) /\ d.cat = ClusterWalk(d.walk)
         /\ d.pick = DraftPick(d.walk, d.cat, d.lib)
<1>1. PICK read \in UNION {Reads(agent) : agent \in Agents}, prefix \in WalkPrefixes,
           library \in Libraries \cup {{}} : d = Draft(read, prefix, library)
  BY DEF Drafts
<1> DEFINE got == FilterWalk(read, prefix)
           cat == ClusterWalk(got)
           pick == DraftPick(got, cat, library)
<1>2. d = [walk |-> got, lib |-> library, cat |-> cat, pick |-> pick]
  BY <1>1 DEF Draft
<1>3. IsWalk(read)
  BY ReadWalk
<1>4. IsWalk(got)
  BY <1>3, SomeOfList DEF FilterWalk, IsWalk
<1>5. cat = ClusterWalk(got) /\ pick = DraftPick(got, cat, library)
  OBVIOUS
<1>6. library \subseteq Seq(Nat)
  BY CommandsAssumption
<1> HIDE DEF got, cat, pick
<1> QED
  BY <1>2, <1>4, <1>5, <1>6

\* What is not in a table of several columns.
LeftIn(walk, used) == ElementsAt(walk, {i \in DOMAIN walk : walk[i].oid \notin used})

LEMMA LeftOids ==
  ASSUME NEW walk, IsList(walk), NEW used
  PROVE  Oids(LeftIn(walk, used)) = Oids(walk) \ used
<1> DEFINE where == {i \in DOMAIN walk : walk[i].oid \notin used}
           left == LeftIn(walk, used)
           R == Range(walk)
<1>1. walk \in Seq(R)
  BY DEF IsList
<1>2. Range(left) = {walk[i] : i \in where \cap DOMAIN walk}
  <2> HIDE DEF R
  <2> QED
    BY <1>1, ElementsAtIs DEF LeftIn
<1>3. Range(left) = {v \in Range(walk) : v.oid \notin used}
  BY <1>2 DEF Range
<1> HIDE DEF left
<1> QED
  BY <1>3 DEF Oids, left

LEMMA ClusterIs ==
  ASSUME NEW walk
  PROVE  LET c == ClusterWalk(walk)
             O == Oids(walk)
         IN  /\ c.tables = UNION {TablesOf(O, p) : p \in Nodes(O)}
             /\ c.lone = SingleColumns(LeftIn(walk, Mark(O, c.tables)))
             /\ c.scalars = Oids(LeftIn(walk, Mark(O, c.tables))) \ Mark(O, c.lone)
<1> DEFINE O == Oids(walk)
           tables == UNION {TablesOf(O, p) : p \in Nodes(O)}
           left == LeftIn(walk, Mark(O, tables))
           lone == SingleColumns(left)
           scalars == Oids(left) \ Mark(O, lone)
<1>1. ClusterWalk(walk) = [tables |-> tables, lone |-> lone, scalars |-> scalars]
  BY DEF ClusterWalk, LeftIn
<1> HIDE DEF lone, scalars, tables
<1>2. ClusterWalk(walk).tables = tables /\ ClusterWalk(walk).lone = lone
      /\ ClusterWalk(walk).scalars = scalars
  BY <1>1
<1> QED
  BY <1>2 DEF lone, scalars, tables

LEMMA MarkIs ==
  ASSUME NEW O, NEW tables
  PROVE  Mark(O, tables) = {o \in O : \E t \in tables : \E c \in ColumnOids(t) : IsPrefix(c, o)}
BY DEF Mark, Under

\* Every column of a table, and every lone column, is an OID.
LEMMA NodeIs ==
  ASSUME NEW O, O \subseteq Seq(Nat), NEW p \in Nodes(O)
  PROVE  p \in Seq(Nat)
<1>1. PICK q \in O : \E n \in 0..Len(q) : p = SubSeq(q, 1, n)
  BY DEF Nodes
<1>2. q \in Seq(Nat) /\ Len(q) \in Nat
  OBVIOUS
<1>3. PICK n \in 0..Len(q) : p = SubSeq(q, 1, n)
  BY <1>1
<1>4. n \in Int /\ \A i \in 1..n : q[i] \in Nat
  BY <1>2
<1> QED
  BY <1>3, <1>4, SubSeqProperties

LEMMA TableColumns ==
  ASSUME NEW O, O \subseteq Seq(Nat), NEW p \in Nodes(O), NEW t \in TablesOf(O, p),
         NEW c \in ColumnOids(t)
  PROVE  c \in Seq(Nat)
<1>1. PICK k \in ChildKeys(O, p) :
        t = [entry |-> p, columns |-> GroupOf(O, p, k), pieces |-> Pieces(O, Append(p, k))]
  BY DEF TablesOf
<1>2. PICK j \in ChildKeys(O, p) : c = Append(p, j)
  <2>1. t.entry = p /\ t.columns = GroupOf(O, p, k)
    BY <1>1
  <2> QED
    BY <2>1 DEF ColumnOids, GroupOf
<1>3. p \in Seq(Nat)
  BY NodeIs
<1>4. j \in Nat
  <2>1. PICK q \in Under(O, p) \ {p} : j = q[Len(p) + 1]
    BY <1>2 DEF ChildKeys
  <2>2. q \in Seq(Nat) /\ Len(q) \in Nat /\ Len(p) \in Nat /\ Len(p) <= Len(q)
        /\ SubSeq(p, 1, Len(p)) = SubSeq(q, 1, Len(p))
    BY <1>3 DEF Under, IsPrefix
  <2>3. Len(p) # Len(q)
    <3>1. SubSeq(p, 1, Len(p)) = p /\ SubSeq(q, 1, Len(q)) = q
      BY <1>3, <2>2, SubSeqFull
    <3> QED
      BY <2>1, <2>2, <3>1
  <2>4. Len(p) + 1 \in 1..Len(q)
    BY <2>2, <2>3
  <2> QED
    BY <2>1, <2>2, <2>4
<1> QED
  BY <1>2, <1>3, <1>4, AppendProperties

LEMMA LoneColumns ==
  ASSUME NEW left, Oids(left) \subseteq Seq(Nat), NEW t \in SingleColumns(left),
         NEW c \in ColumnOids(t)
  PROVE  c \in Seq(Nat)
<1>1. PICK n \in Nodes(Oids(left)) \ {<<>>} : t.entry = Parent(n) /\ t.columns = {Last(n)}
  BY DEF SingleColumns
<1>2. n \in Seq(Nat) /\ n # <<>>
  BY <1>1, NodeIs
<1>3. Len(n) \in Nat /\ Len(n) # 0
  BY <1>2, EmptySeq
<1>4. Last(n) \in Nat
  BY <1>2, <1>3 DEF Last
<1>5. Parent(n) \in Seq(Nat)
  <2>1. \A i \in 1..Len(n) - 1 : n[i] \in Nat
    BY <1>2, <1>3
  <2>2. Len(n) - 1 \in Int
    BY <1>3
  <2> QED
    BY <1>2, <2>1, <2>2, SubSeqProperties DEF Parent
<1>6. c = Append(Parent(n), Last(n))
  BY <1>1 DEF ColumnOids
<1> QED
  BY <1>4, <1>5, <1>6, AppendProperties

LEMMA PrefixOf ==
  ASSUME NEW h \in Seq(Nat), NEW c \in Seq(Nat), NEW o \in Seq(Nat),
         IsPrefix(h, c), IsPrefix(c, o)
  PROVE  IsPrefix(h, o)
<1>1. /\ Len(h) \in Nat /\ Len(c) \in Nat /\ Len(o) \in Nat
      /\ Len(h) <= Len(c) /\ Len(c) <= Len(o)
      /\ SubSeq(h, 1, Len(h)) = SubSeq(c, 1, Len(h)) /\ SubSeq(c, 1, Len(c)) = SubSeq(o, 1, Len(c))
  BY DEF IsPrefix
<1>2. \A i \in 1..Len(h) : c[i] = o[i]
  <2>1. \A i \in 1..Len(c) : SubSeq(c, 1, Len(c))[i] = c[i] /\ SubSeq(o, 1, Len(c))[i] = o[i]
    BY <1>1
  <2> QED
    BY <1>1, <2>1
<1>3. SubSeq(c, 1, Len(h)) = SubSeq(o, 1, Len(h))
  BY <1>1, <1>2
<1> QED
  BY <1>1, <1>3 DEF IsPrefix

\* The number of index labels of a column's leaves.
LEMMA LeafLength ==
  ASSUME NEW O, O \subseteq Seq(Nat), NEW c \in Seq(Nat), SameLen(InstanceSuffixes(O, c)),
         NEW o \in Under(O, c), IsLeaf(O, o)
  PROVE  Len(o) = Len(c) + Pieces(O, c)
<1> DEFINE s == SubSeq(o, Len(c) + 1, Len(o))
           all == InstanceSuffixes(O, c)
           t == CHOOSE x \in all : TRUE
<1>1. o \in Seq(Nat) /\ Len(o) \in Nat /\ Len(c) \in Nat /\ Len(c) <= Len(o)
  BY DEF Under, IsPrefix
<1>2. Len(s) = Len(o) - Len(c)
  <2>1. \A i \in Len(c) + 1 .. Len(o) : o[i] \in Nat
    BY <1>1
  <2>2. Len(s) = IF Len(c) + 1 <= Len(o) THEN Len(o) - (Len(c) + 1) + 1 ELSE 0
    <3>1. Len(c) + 1 \in Int /\ Len(o) \in Int
      BY <1>1
    <3> QED
      BY <2>1, <3>1, SubSeqProperties
  <2> HIDE DEF s
  <2> QED
    BY <1>1, <2>2
<1>3. s \in all
  BY DEF InstanceSuffixes
<1> HIDE DEF s, all
<1>4. t \in all
  BY <1>3
<1>5. Len(s) = Len(t)
  BY <1>3, <1>4 DEF SameLen, all
<1>6. Pieces(O, c) = Len(t)
  BY DEF Pieces, all
<1> QED
  BY <1>1, <1>2, <1>5, <1>6

\* visit, defaultIndexLabels: every column of a table has the pieces of the first.
LEMMA TableFull ==
  ASSUME NEW O, O \subseteq Seq(Nat), NEW p \in Nodes(O), NEW t \in TablesOf(O, p),
         NEW c \in ColumnOids(t), NEW o \in Under(O, c), IsLeaf(O, o)
  PROVE  Len(o) = Len(c) + t.pieces
<1>1. PICK k \in ChildKeys(O, p) :
        t = [entry |-> p, columns |-> GroupOf(O, p, k), pieces |-> Pieces(O, Append(p, k))]
  BY DEF TablesOf
<1>2. t.entry = p /\ t.columns = GroupOf(O, p, k) /\ t.pieces = Pieces(O, Append(p, k))
  BY <1>1
<1>3. PICK j \in GroupOf(O, p, k) : c = Append(p, j)
  BY <1>2 DEF ColumnOids
<1>4. /\ j \in ChildKeys(O, p) /\ ColumnLike(O, c)
      /\ j = k \/ Pieces(O, Append(p, k)) = Pieces(O, c)
  BY <1>3 DEF GroupOf, Alike
<1>5. c \in Seq(Nat)
  <2>1. c \in ColumnOids(t)
    OBVIOUS
  <2> QED
    BY <2>1, TableColumns
<1>6. Len(o) = Len(c) + Pieces(O, c)
  BY <1>4, <1>5, LeafLength DEF ColumnLike
<1>7. t.pieces = Pieces(O, c)
  BY <1>2, <1>3, <1>4
<1> QED
  BY <1>6, <1>7

\* A column goes into the draft of its table unless the library scrapes it.
LEMMA ColumnDrafted ==
  ASSUME NEW walk, NEW lib, NEW t, NEW from, NEW c \in ColumnOids(t), ~Lookup(lib, c)
  PROVE  LET d == DraftTable(walk, lib, t, from)
         IN  \E k \in d.metrics \cup d.labels : c = Append(d.entry, k)
<1> DEFINE new == {k \in t.columns : ~Lookup(lib, Append(t.entry, k))}
           labels == {k \in new : ColumnType(walk, from, Append(t.entry, k)) \in LabelTypes}
           d == DraftTable(walk, lib, t, from)
<1>1. PICK k \in t.columns : c = Append(t.entry, k)
  BY DEF ColumnOids
<1>2. k \in new /\ new = (new \ labels) \cup labels
  BY <1>1
<1>3. d = [entry |-> t.entry, pieces |-> t.pieces, metrics |-> new \ labels, labels |-> labels]
  BY DEF DraftTable
<1> HIDE DEF new, labels
<1>4. d.entry = t.entry /\ d.metrics = new \ labels /\ d.labels = labels
  BY <1>3
<1> HIDE DEF d
<1>5. k \in d.metrics \cup d.labels /\ c = Append(d.entry, k)
  BY <1>1, <1>2, <1>4
<1> QED
  BY <1>5 DEF d

LEMMA DraftPickIs ==
  ASSUME NEW walk, NEW cat, NEW lib
  PROVE  LET pick == DraftPick(walk, cat, lib)
             module == EmitPickModule(pick)
         IN  /\ pick.scalars = {o \in cat.scalars : ~Lookup(lib, o)
                                                    /\ ScalarType(walk, o) \notin StringTypes}
             /\ pick.tables = {d \in DraftTables(walk, cat, lib) : d.metrics # {}}
             /\ \A o \in pick.scalars : DotZero(o) => o \in module.get
             /\ \A d \in pick.tables : \A k \in d.metrics \cup d.labels :
                  Append(d.entry, k) \in module.walk
<1> DEFINE scalars == {o \in cat.scalars : ~Lookup(lib, o)
                                            /\ ScalarType(walk, o) \notin StringTypes}
           tables == {d \in DraftTables(walk, cat, lib) : d.metrics # {}}
           pick == DraftPick(walk, cat, lib)
           module == EmitPickModule(pick)
<1>1. pick.scalars = scalars /\ pick.tables = tables
  BY DEF DraftPick
<1> HIDE DEF pick
<1>2. /\ module.get = {IF DotZero(o) THEN o ELSE Append(o, 0) : o \in pick.scalars}
      /\ module.walk = UNION {{Append(t.entry, k) : k \in t.metrics \cup t.labels} :
                                t \in pick.tables}
  BY DEF EmitPickModule
<1> HIDE DEF module
<1>3. /\ \A o \in pick.scalars : DotZero(o) => o \in module.get
      /\ \A d \in pick.tables : \A k \in d.metrics \cup d.labels :
           Append(d.entry, k) \in module.walk
  BY <1>2
<1> QED
  BY <1>1, <1>3 DEF module, pick

\* Where a varbind of the walk comes to be.
LEMMA Fetched ==
  ASSUME NEW walk, IsWalk(walk), NEW lib, lib \subseteq Seq(Nat),
         NEW cat, cat = ClusterWalk(walk), NEW o \in Oids(walk), ~Lookup(lib, o)
  PROVE  LET module == EmitPickModule(DraftPick(walk, cat, lib))
             dropped == {d \in DraftTables(walk, cat, lib) : d.metrics = {}}
         IN  \/ o \in module.get
             \/ \E c \in module.walk : IsPrefix(c, o)
             \/ o \in cat.scalars /\ ScalarType(walk, o) \in StringTypes
             \/ \E d \in dropped : \E k \in d.labels : IsPrefix(Append(d.entry, k), o)
             \/ o \in cat.scalars /\ ~DotZero(o)
<1> DEFINE O == Oids(walk)
           left == LeftIn(walk, Mark(O, cat.tables))
           pick == DraftPick(walk, cat, lib)
           module == EmitPickModule(pick)
           drafts == DraftTables(walk, cat, lib)
<1>1. O \subseteq Seq(Nat) /\ IsList(walk)
  BY DEF IsWalk, Oids
<1>2. /\ cat.tables = UNION {TablesOf(O, p) : p \in Nodes(O)}
      /\ cat.lone = SingleColumns(left) /\ cat.scalars = Oids(left) \ Mark(O, cat.lone)
  BY ClusterIs
<1>3. Oids(left) = O \ Mark(O, cat.tables)
  BY <1>1, LeftOids
<1>4. /\ pick.scalars = {q \in cat.scalars : ~Lookup(lib, q)
                                             /\ ScalarType(walk, q) \notin StringTypes}
      /\ pick.tables = {d \in drafts : d.metrics # {}}
      /\ \A q \in pick.scalars : DotZero(q) => q \in module.get
      /\ \A d \in pick.tables : \A k \in d.metrics \cup d.labels :
           Append(d.entry, k) \in module.walk
  BY DraftPickIs
<1>5. \A t \in cat.tables \cup cat.lone : \E from : DraftTable(walk, lib, t, from) \in drafts
  <2> DEFINE rows(t) == {q \in O \ Mark(O, cat.tables) : Len(q) = Len(t.entry) + 1 + t.pieces}
             some == {DraftTable(walk, lib, t, O) : t \in cat.tables}
             others == {DraftTable(walk, lib, t, rows(t)) : t \in cat.lone}
  <2>1. drafts = some \cup others
    BY DEF DraftTables
  <2>2. /\ \A t \in cat.tables : DraftTable(walk, lib, t, O) \in some
        /\ \A t \in cat.lone : DraftTable(walk, lib, t, rows(t)) \in others
    OBVIOUS
  <2> HIDE DEF drafts, some, others, rows
  <2> QED
    BY <2>1, <2>2
<1>6. o \in O
  OBVIOUS
<1> HIDE DEF O, left, pick, module, drafts
<1>7. CASE o \in cat.scalars
  BY <1>4, <1>7 DEF module, pick
<1>8. CASE o \notin cat.scalars
  <2>1. o \in Mark(O, cat.tables) \/ o \in Mark(O, cat.lone)
    BY <1>2, <1>3, <1>6, <1>8
  <2>2. PICK t \in cat.tables \cup cat.lone : \E c \in ColumnOids(t) : IsPrefix(c, o)
    BY <2>1, MarkIs
  <2>3. PICK c \in ColumnOids(t) : IsPrefix(c, o)
    BY <2>2
  <2>4. c \in Seq(Nat)
    <3>1. CASE t \in cat.tables
      <4>1. PICK p \in Nodes(O) : t \in TablesOf(O, p)
        BY <1>2, <3>1
      <4> QED
        BY <1>1, <2>3, <4>1, TableColumns
    <3>2. CASE t \in cat.lone
      <4>1. Oids(left) \subseteq Seq(Nat)
        BY <1>1, <1>3
      <4> QED
        BY <1>2, <2>3, <3>2, <4>1, LoneColumns
    <3> QED
      BY <3>1, <3>2
  <2>5. ~Lookup(lib, c)
    <3>1. SUFFICES ASSUME NEW h \in lib, IsPrefix(h, c) PROVE FALSE
      BY DEF Lookup
    <3>2. h \in Seq(Nat) /\ o \in Seq(Nat)
      BY <1>1, <1>6
    <3>3. IsPrefix(h, o)
      BY <2>3, <2>4, <3>1, <3>2, PrefixOf
    <3> QED
      BY <3>3 DEF Lookup
  <2>6. PICK from : DraftTable(walk, lib, t, from) \in drafts
    BY <1>5
  <2> DEFINE d == DraftTable(walk, lib, t, from)
  <2>7. \E k \in d.metrics \cup d.labels : c = Append(d.entry, k)
    BY <2>5, ColumnDrafted
  <2>8. d \in drafts
    BY <2>6
  <2> HIDE DEF d
  <2>9. PICK k \in d.metrics \cup d.labels : c = Append(d.entry, k)
    BY <2>7
  <2>10. CASE d.metrics # {}
    <3>1. d \in pick.tables
      BY <1>4, <2>8, <2>10
    <3>2. c \in module.walk
      BY <1>4, <2>9, <3>1
    <3> QED
      BY <2>3, <3>2 DEF module, pick
  <2>11. CASE d.metrics = {}
    <3>1. k \in d.labels /\ IsPrefix(Append(d.entry, k), o)
      BY <2>3, <2>9, <2>11
    <3> QED
      BY <2>8, <2>11, <3>1 DEF drafts
  <2> QED
    BY <2>10, <2>11
<1> QED
  BY <1>7, <1>8
-----------------------------------------------------------------------------
(* How a command begins and ends.                                          *)

WritePcs == {"stat", "open", "write", "chmod"}

\* What is to be shown of the types after a step.
TypedNext ==
  /\ files' = [p \in Paths |-> files'[p]]
  /\ job' = [cmd |-> job'.cmd, pc |-> job'.pc, todo |-> job'.todo, force |-> job'.force,
             outcome |-> job'.outcome]
  /\ job'.cmd \in {"none", "init", "check", "pick", "emit"}
  /\ job'.pc \in {"idle", "auths", "groups"} \cup WritePcs
  /\ job'.outcome \in {"none", "ok", "error", "killed"}
  /\ job'.pc \in WritePcs <=> job'.todo # <<>>
  /\ job'.pc # "idle" => job'.outcome = "none"
  /\ started' \in 0..MaxCommands /\ faults' \in 0..MaxFaults
  /\ IsPlan(plan')

LEMMA TypedAgain ==
  ASSUME TypedNext
  PROVE  CommandsTyped'
<1>1. DOMAIN files' = Paths
  BY DEF TypedNext
<1>2. TypeOK'
  BY <1>1 DEF TypedNext, WritePcs, TypeOK
<1> QED
  BY <1>2 DEF TypedNext, CommandsTyped

LEMMA NoPlanIs == IsPlan(NoPlan)
<1>1. <<>> = [i \in 1..0 |-> <<>>[i]] /\ Range(<<>>) = {}
  BY DEF Range
<1>2. IsList(<<>>)
  BY DEF IsList
<1> QED
  BY <1>1, <1>2 DEF NoPlan, IsPlan

LEMMA NowTyped ==
  ASSUME CommandsInv
  PROVE  /\ files = [p \in Paths |-> files[p]] /\ DOMAIN files = Paths
         /\ job = [cmd |-> job.cmd, pc |-> job.pc, todo |-> job.todo, force |-> job.force,
                   outcome |-> job.outcome]
         /\ job.cmd \in {"none", "init", "check", "pick", "emit"}
         /\ job.pc \in {"idle", "auths", "groups"} \cup WritePcs
         /\ job.outcome \in {"none", "ok", "error", "killed"}
         /\ job.pc \in WritePcs <=> job.todo # <<>>
         /\ job.pc # "idle" => job.outcome = "none"
         /\ started \in 0..MaxCommands /\ faults \in 0..MaxFaults
         /\ IsPlan(plan)
BY DEF CommandsInv, CommandsTyped, TypeOK, WritePcs

LEMMA StartKeeps ==
  ASSUME CommandsInv, NEW cmd \in {"init", "pick", "emit"}, NEW pc \in {"auths", "stat"},
         NEW todo, NEW force \in BOOLEAN,
         Starts(cmd, pc, todo, force), UNCHANGED <<files, faults>>, IsPlan(plan'),
         pc = "stat" <=> todo # <<>>, pc = "auths" => cmd = "init",
         pc = "stat" => LeftToWrite', cmd = "pick" => draft' \in Drafts
  PROVE  CommandsInv'
<1>1. /\ started < MaxCommands /\ started' = started + 1
      /\ job' = [cmd |-> cmd, pc |-> pc, todo |-> todo, force |-> force, outcome |-> "none"]
  BY DEF Starts
<1>2. job'.cmd = cmd /\ job'.pc = pc /\ job'.todo = todo /\ job'.force = force
      /\ job'.outcome = "none"
  BY <1>1
<1>3. started' \in 0..MaxCommands
  BY <1>1, NowTyped, CommandsAssumption
<1>4. TypedNext
  BY <1>1, <1>2, <1>3, NowTyped DEF TypedNext, WritePcs
<1>5. AtFile'
  BY <1>2 DEF AtFile, Writing
<1> QED
  BY <1>2, <1>4, <1>5, TypedAgain DEF CommandsInv

LEMMA ReportKeeps ==
  ASSUME CommandsInv, NEW cmd \in {"init", "check", "pick", "emit"}, NEW outcome \in {"ok", "error"},
         Reports(cmd, outcome), UNCHANGED <<files, faults>>, IsPlan(plan'),
         outcome = "ok" => cmd = "check" /\ Succeeded'
  PROVE  CommandsInv'
<1>1. /\ started < MaxCommands /\ started' = started + 1
      /\ job' = [cmd |-> cmd, pc |-> "idle", todo |-> <<>>, force |-> FALSE, outcome |-> outcome]
  BY DEF Reports
<1>2. job'.cmd = cmd /\ job'.pc = "idle" /\ job'.todo = <<>> /\ job'.outcome = outcome
  BY <1>1
<1>3. started' \in 0..MaxCommands
  BY <1>1, NowTyped, CommandsAssumption
<1>4. TypedNext
  BY <1>1, <1>2, <1>3, NowTyped DEF TypedNext, WritePcs
<1>5. AtFile'
  BY <1>2 DEF AtFile, Writing
<1> QED
  BY <1>2, <1>4, <1>5, TypedAgain DEF CommandsInv

\* A step from one program counter of a command to another.
LEMMA EndsIs ==
  ASSUME CommandsInv, NEW outcome, Ends(outcome)
  PROVE  /\ job' = [cmd |-> job'.cmd, pc |-> job'.pc, todo |-> job'.todo, force |-> job'.force,
                    outcome |-> job'.outcome]
         /\ job'.cmd = job.cmd /\ job'.pc = "idle" /\ job'.todo = <<>>
         /\ job'.force = job.force /\ job'.outcome = outcome
<1>1. job' = [[[job EXCEPT !.pc = "idle"] EXCEPT !.todo = <<>>] EXCEPT !.outcome = outcome]
  BY NowTyped DEF Ends
<1>2. job = [cmd |-> job.cmd, pc |-> job.pc, todo |-> job.todo, force |-> job.force,
             outcome |-> job.outcome]
  BY NowTyped
<1> QED
  BY <1>1, <1>2

LEMMA FailureKeeps ==
  ASSUME CommandsInv, job.pc # "idle", NEW outcome \in {"error", "killed"}, Ends(outcome),
         files' = [p \in Paths |-> files'[p]], faults' \in 0..MaxFaults, IsPlan(plan'),
         UNCHANGED <<draft, started>>
  PROVE  CommandsInv'
<1>1. TypedNext
  BY EndsIs, NowTyped DEF TypedNext, WritePcs
<1>2. AtFile'
  BY EndsIs DEF AtFile, Writing
<1>3. job.outcome = "none"
  BY NowTyped
<1>4. job'.cmd = "pick" => draft' \in Drafts
  BY <1>3, EndsIs DEF CommandsInv
<1> QED
  BY <1>1, <1>2, <1>4, TypedAgain, EndsIs DEF CommandsInv
-----------------------------------------------------------------------------
(* Every step keeps the invariant: init.                                   *)

LEMMA InitFilesAre ==
  ASSUME NEW p
  PROVE  LET first == [path |-> "auths", body |-> RenderAuths(p)]
             second == [path |-> "discovery", body |-> RenderDiscovery(p)]
         IN  /\ InitFiles(p) # <<>> /\ Len(InitFiles(p)) = 2 /\ Head(InitFiles(p)) = first
             /\ Tail(InitFiles(p)) = <<second>>
             /\ Len(Tail(InitFiles(p))) = 1 /\ Head(Tail(InitFiles(p))) = second
             /\ Tail(InitFiles(p)) # <<>>
<1> DEFINE first == [path |-> "auths", body |-> RenderAuths(p)]
           second == [path |-> "discovery", body |-> RenderDiscovery(p)]
<1>1. InitFiles(p) = <<first, second>>
  BY DEF InitFiles
<1> HIDE DEF first, second
<1>2. Tail(<<first, second>>) = <<second>> /\ Head(<<first, second>>) = first
      /\ Len(<<first, second>>) = 2 /\ Len(<<second>>) = 1 /\ Head(<<second>>) = second
      /\ <<first, second>> # <<>> /\ <<second>> # <<>>
  OBVIOUS
<1> QED
  BY <1>1, <1>2 DEF first, second

LEMMA InitFromFlagsKeeps ==
  ASSUME CommandsInv, NEW f \in Flags, NEW force \in BOOLEAN, InitFromFlags(f, force)
  PROVE  CommandsInv'
<1> DEFINE p == PlanFromFlags(f)
<1>1. UNCHANGED <<files, faults>>
  BY DEF InitFromFlags
<1>2. CASE Starts("init", "stat", InitFiles(p), force) /\ plan' = p /\ ValidateInitPlan(p)
  <2>1. IsPlan(p) /\ InitFiles(p) # <<>>
    BY FlagsPlan, InitFilesAre
  <2>2. job'.cmd = "init" /\ job'.todo = InitFiles(p)
    BY <1>2 DEF Starts
  <2> HIDE DEF p
  <2>3. LeftToWrite'
    BY <1>2, <2>2 DEF LeftToWrite
  <2> QED
    BY <1>1, <1>2, <2>1, <2>3, StartKeeps
<1>3. CASE Reports("init", "error") /\ plan' = NoPlan
  BY <1>1, <1>3, NoPlanIs, ReportKeeps
<1> QED
  BY <1>2, <1>3 DEF InitFromFlags

LEMMA InitWizardKeeps ==
  ASSUME CommandsInv, NEW force \in BOOLEAN, InitWizard(force)
  PROVE  CommandsInv'
BY NoPlanIs, StartKeeps DEF InitWizard

\* The wizard goes on asking, or comes to writing a valid plan.
LEMMA WizardGoesOn ==
  ASSUME CommandsInv, job.pc \in {"auths", "groups"}, IsPlan(plan'),
         UNCHANGED <<files, draft, started, faults>>,
         \/ \E more \in {"auths", "groups"} : job' = [job EXCEPT !.pc = more]
         \/ ValidateInitPlan(plan')
            /\ job' = [job EXCEPT !.pc = "stat", !.todo = InitFiles(plan')]
  PROVE  CommandsInv'
<1>1. job.cmd = "init" /\ job.outcome = "none" /\ job.todo = <<>>
  BY NowTyped DEF CommandsInv, WritePcs
<1>2. CASE \E more \in {"auths", "groups"} : job' = [job EXCEPT !.pc = more]
  <2>1. PICK more \in {"auths", "groups"} : job' = [job EXCEPT !.pc = more]
    BY <1>2
  <2>2. /\ job' = [cmd |-> job'.cmd, pc |-> job'.pc, todo |-> job'.todo, force |-> job'.force,
                   outcome |-> job'.outcome]
        /\ job'.cmd = "init" /\ job'.pc = more /\ job'.todo = <<>> /\ job'.outcome = "none"
    BY <1>1, <2>1, NowTyped
  <2>3. TypedNext
    BY <2>2, NowTyped DEF TypedNext, WritePcs
  <2>4. AtFile'
    BY <2>2 DEF AtFile, Writing
  <2> QED
    BY <2>2, <2>3, <2>4, TypedAgain DEF CommandsInv
<1>3. CASE ValidateInitPlan(plan') /\ job' = [job EXCEPT !.pc = "stat", !.todo = InitFiles(plan')]
  <2>1. InitFiles(plan') # <<>>
    BY InitFilesAre
  <2> DEFINE todo == InitFiles(plan')
  <2>2. job' = [[job EXCEPT !.pc = "stat"] EXCEPT !.todo = todo]
    BY <1>3, NowTyped
  <2> HIDE DEF todo
  <2>3. /\ job' = [cmd |-> job'.cmd, pc |-> job'.pc, todo |-> job'.todo, force |-> job'.force,
                   outcome |-> job'.outcome]
        /\ job'.cmd = "init" /\ job'.pc = "stat" /\ job'.todo = todo /\ job'.outcome = "none"
    BY <1>1, <2>2, NowTyped
  <2>4. TypedNext
    BY <2>1, <2>3, NowTyped DEF TypedNext, WritePcs, todo
  <2>5. LeftToWrite'
    BY <1>3, <2>3 DEF LeftToWrite, todo
  <2>6. AtFile'
    BY <2>3, <2>5 DEF AtFile, Writing
  <2> QED
    BY <2>3, <2>4, <2>6, TypedAgain DEF CommandsInv
<1> QED
  BY <1>2, <1>3
LEMMA WizardAuthKeeps ==
  ASSUME CommandsInv, WizardAuth
  PROVE  CommandsInv'
<1>1. job.pc = "auths" /\ UNCHANGED <<files, draft, started, faults>>
  BY DEF WizardAuth
<1>2. PICK a \in AuthAnswers :
        IF a.version \notin 1..3 THEN Ends("error") /\ UNCHANGED plan
        ELSE /\ plan' = [plan EXCEPT !.auths = Append(@, Answered(a))]
             /\ \E more \in {"auths", "groups"} : job' = [job EXCEPT !.pc = more]
  BY DEF WizardAuth
<1>3. CASE Ends("error") /\ UNCHANGED plan
  BY <1>1, <1>3, NowTyped, FailureKeeps
<1>4. CASE /\ plan' = [plan EXCEPT !.auths = Append(@, Answered(a))]
           /\ \E more \in {"auths", "groups"} : job' = [job EXCEPT !.pc = more]
  <2> DEFINE x == Answered(a)
             auths == Append(plan.auths, x)
  <2>1. IsAuth(x)
    BY AnsweredIs, CommandsAssumption
  <2> HIDE DEF x
  <2>2. IsPlan(plan)
    BY NowTyped
  <2>3. IsList(auths) /\ Range(auths) = Range(plan.auths) \cup {x}
    BY <2>2, AppendedList DEF IsPlan
  <2>4. plan' = [plan EXCEPT !.auths = auths]
    BY <1>4 DEF x
  <2> HIDE DEF auths
  <2>5. plan' = [auths |-> auths, groups |-> plan.groups]
    BY <2>2, <2>4 DEF IsPlan
  <2>6. IsPlan(plan')
    BY <2>1, <2>2, <2>3, <2>5 DEF IsPlan
  <2> QED
    BY <1>1, <1>4, <2>6, WizardGoesOn
<1> QED
  BY <1>2, <1>3, <1>4

LEMMA WizardGroupKeeps ==
  ASSUME CommandsInv, WizardGroup
  PROVE  CommandsInv'
<1>1. job.pc = "groups" /\ UNCHANGED <<files, draft, started, faults>>
  BY DEF WizardGroup
<1> DEFINE group(g) ==
      [name |-> g.name, cidrs |-> g.cidrs, exclude |-> <<>>,
       auths |-> IF g.pick = "all" THEN [i \in DOMAIN plan.auths |-> plan.auths[i].name]
                 ELSE g.auths,
       fp |-> "network", mode |-> OrElse(g.mode, "sweep"),
       allowLarge |-> (\E c \in Range(g.cidrs) : c # Bad /\ TooLarge(c, FALSE)) /\ g.allow]
<1>2. PICK g \in GroupAnswers :
        /\ plan' = [plan EXCEPT !.groups = Append(@, group(g))]
        /\ \/ job' = job
           \/ IF ValidateInitPlan(plan')
              THEN job' = [job EXCEPT !.pc = "stat", !.todo = InitFiles(plan')]
              ELSE Ends("error")
  BY DEF WizardGroup
<1> DEFINE x == group(g)
           groups == Append(plan.groups, x)
<1>3. IsGroup(x)
  BY DEF IsGroup
<1> HIDE DEF x, group
<1>4. IsPlan(plan)
  BY NowTyped
<1>5. IsList(groups) /\ Range(groups) = Range(plan.groups) \cup {x}
  BY <1>4, AppendedList DEF IsPlan
<1>6. plan' = [plan EXCEPT !.groups = groups]
  BY <1>2 DEF x
<1> HIDE DEF groups
<1>7. plan' = [auths |-> plan.auths, groups |-> groups]
  BY <1>4, <1>6 DEF IsPlan
<1>8. IsPlan(plan')
  BY <1>3, <1>4, <1>5, <1>7 DEF IsPlan
<1>9. CASE job' = job
  <2>1. job' = [job EXCEPT !.pc = "groups"]
    BY <1>1, <1>9, NowTyped
  <2> QED
    BY <1>1, <1>8, <2>1, WizardGoesOn
<1>10. CASE ValidateInitPlan(plan') /\ job' = [job EXCEPT !.pc = "stat", !.todo = InitFiles(plan')]
  BY <1>1, <1>8, <1>10, WizardGoesOn
<1>11. CASE Ends("error")
  BY <1>1, <1>8, <1>11, NowTyped, FailureKeeps
<1> QED
  BY <1>2, <1>9, <1>10, <1>11

LEMMA WizardFailsKeeps ==
  ASSUME CommandsInv, WizardFails
  PROVE  CommandsInv'
<1>1. /\ job.pc \in {"auths", "groups"} /\ Ends("error")
      /\ UNCHANGED <<files, plan, draft, started, faults>>
  BY DEF WizardFails
<1> QED
  BY <1>1, NowTyped, FailureKeeps

LEMMA InitCheckKeeps ==
  ASSUME CommandsInv, NEW withSnmp \in BOOLEAN, InitCheck(withSnmp)
  PROVE  CommandsInv'
<1> DEFINE match == /\ Readable(files.auths)
                    /\ CheckAuthDiscovery(files.auths, files.discovery, withSnmp)
           outcome == IF match THEN "ok" ELSE "error"
<1>1. Reports("check", outcome) /\ plan' = NoPlan /\ UNCHANGED <<files, faults>>
  BY DEF InitCheck
<1>2. outcome = "ok" => match
  OBVIOUS
<1>3. job'.cmd = "check"
  BY <1>1 DEF Reports
<1>4. outcome = "ok" => Succeeded'
  BY <1>1, <1>2, <1>3 DEF Succeeded
<1>5. outcome \in {"ok", "error"}
  OBVIOUS
<1> HIDE DEF match, outcome
<1> QED
  BY <1>1, <1>4, <1>5, NoPlanIs, ReportKeeps
-----------------------------------------------------------------------------
(* Every step keeps the invariant: walk-pick, the operator, walk-emit.     *)

LEMMA WalkPickKeeps ==
  ASSUME CommandsInv, NEW d \in Drafts, NEW force \in BOOLEAN, WalkPick(d, force)
  PROVE  CommandsInv'
<1>1. plan' = NoPlan /\ UNCHANGED <<files, faults>>
  BY DEF WalkPick
<1>2. CASE Reports("pick", "error")
  BY <1>1, <1>2, NoPlanIs, ReportKeeps
<1>3. CASE Starts("pick", "stat", PickFile(d), force) /\ draft' = d
  <2>1. PickFile(d) # <<>>
    BY DEF PickFile
  <2>2. LeftToWrite'
    BY <1>3 DEF Starts, LeftToWrite
  <2> QED
    BY <1>1, <1>3, <2>1, <2>2, NoPlanIs, StartKeeps
<1> QED
  BY <1>2, <1>3 DEF WalkPick, PickFile

LEMMA WalkEmitKeeps ==
  ASSUME CommandsInv, NEW force \in BOOLEAN, WalkEmit(force)
  PROVE  CommandsInv'
<1> DEFINE todo == <<[path |-> "module", body |-> <<EmitPickModule(files.pick[1])>>]>>
<1>1. plan' = NoPlan /\ UNCHANGED <<files, faults>>
  BY DEF WalkEmit
<1>2. CASE Reports("emit", "error")
  BY <1>1, <1>2, NoPlanIs, ReportKeeps
<1>3. CASE Starts("emit", "stat", todo, force)
  <2>1. todo # <<>>
    OBVIOUS
  <2>2. LeftToWrite'
    BY <1>1, <1>3 DEF Starts, LeftToWrite
  <2> HIDE DEF todo
  <2> QED
    BY <1>1, <1>3, <2>1, <2>2, NoPlanIs, StartKeeps
<1> QED
  BY <1>2, <1>3 DEF WalkEmit

LEMMA EditPickKeeps ==
  ASSUME CommandsInv, EditPick
  PROVE  CommandsInv'
<1>1. job.pc = "idle" /\ UNCHANGED <<job, plan, draft, started, faults>>
  BY DEF EditPick
<1>2. PICK keep \in {"tables", "scalars", "labels"} :
        files' = [files EXCEPT !.pick[1] = Edited(@, keep)]
  BY DEF EditPick
<1> DEFINE edited == [files.pick EXCEPT ![1] = Edited(files.pick[1], keep)]
<1>3. files' = [files EXCEPT !.pick = edited]
  BY <1>2
<1> HIDE DEF edited
<1>4. files' = [p \in Paths |-> files'[p]] /\ files'.auths = files.auths
      /\ files'.discovery = files.discovery
  BY <1>3, NowTyped DEF Paths
<1>5. job.outcome = "ok" => Succeeded'
  <2>1. Succeeded' = Succeeded
    BY <1>1, <1>4 DEF Succeeded
  <2> QED
    BY <2>1 DEF CommandsInv
<1>6. TypedNext
  BY <1>1, <1>4, NowTyped DEF TypedNext
<1>7. AtFile'
  BY <1>1 DEF AtFile, Writing
<1> QED
  BY <1>1, <1>5, <1>6, <1>7, TypedAgain DEF CommandsInv
-----------------------------------------------------------------------------
(* Every step keeps the invariant: writeNewFile.                           *)

\* The file being written, for each of the commands that write.
LEMMA ToWrite ==
  ASSUME CommandsInv, Writing
  PROVE  /\ job.cmd \in {"init", "pick", "emit"} /\ job.pc # "idle" /\ job.outcome = "none"
         /\ Next1.path \in Paths
         /\ \/ /\ job.cmd = "init" /\ ValidateInitPlan(plan)
               /\ job.todo = InitFiles(plan) /\ Len(job.todo) = 2
               /\ Next1 = [path |-> "auths", body |-> RenderAuths(plan)]
            \/ /\ job.cmd = "init" /\ ValidateInitPlan(plan)
               /\ job.todo = Tail(InitFiles(plan)) /\ Len(job.todo) = 1
               /\ Next1 = [path |-> "discovery", body |-> RenderDiscovery(plan)]
               /\ files.auths = RenderAuths(plan)
            \/ /\ job.cmd = "pick" /\ draft \in Drafts /\ Len(job.todo) = 1
               /\ job.todo = PickFile(draft)
               /\ Next1 = [path |-> "pick", body |-> <<draft.pick>>]
            \/ /\ job.cmd = "emit" /\ Len(job.todo) = 1
               /\ job.todo = <<[path |-> "module", body |-> <<EmitPickModule(files.pick[1])>>]>>
               /\ Next1.path = "module"
<1>1. LeftToWrite /\ job.pc # "idle" /\ job.outcome = "none"
  BY NowTyped DEF CommandsInv, AtFile, Writing
<1>2. CASE job.cmd = "init"
  <2> DEFINE first == [path |-> "auths", body |-> RenderAuths(plan)]
             second == [path |-> "discovery", body |-> RenderDiscovery(plan)]
  <2>1. first.path = "auths" /\ second.path = "discovery"
    OBVIOUS
  <2>2. /\ Len(InitFiles(plan)) = 2 /\ Head(InitFiles(plan)) = first
        /\ Len(Tail(InitFiles(plan))) = 1 /\ Head(Tail(InitFiles(plan))) = second
    BY InitFilesAre
  <2> HIDE DEF first, second
  <2>3. ValidateInitPlan(plan)
    BY <1>1, <1>2 DEF LeftToWrite
  <2>4. CASE job.todo = InitFiles(plan)
    <3>1. Next1 = first /\ Len(job.todo) = 2
      BY <2>2, <2>4 DEF Next1
    <3> QED
      BY <1>1, <1>2, <2>1, <2>3, <2>4, <3>1 DEF first, Paths
  <2>5. CASE job.todo = Tail(InitFiles(plan)) /\ files.auths = RenderAuths(plan)
    <3>1. Next1 = second /\ Len(job.todo) = 1
      BY <2>2, <2>5 DEF Next1
    <3> QED
      BY <1>1, <1>2, <2>1, <2>3, <2>5, <3>1 DEF second, Paths
  <2> QED
    BY <1>1, <1>2, <2>4, <2>5 DEF LeftToWrite
<1>3. CASE job.cmd = "pick"
  <2>1. draft \in Drafts
    BY <1>1, <1>3 DEF CommandsInv
  <2> DEFINE file == [path |-> "pick", body |-> <<draft.pick>>]
  <2>2. job.todo = <<file>>
    BY <1>1, <1>3 DEF LeftToWrite, PickFile
  <2>3. file.path = "pick"
    OBVIOUS
  <2>4. job.todo = PickFile(draft)
    BY <2>2 DEF PickFile
  <2> HIDE DEF file
  <2>5. Next1 = file /\ Len(job.todo) = 1
    BY <2>2 DEF Next1
  <2> QED
    BY <1>1, <1>3, <2>1, <2>3, <2>4, <2>5 DEF file, Paths
<1>4. CASE job.cmd = "emit"
  <2> DEFINE file == [path |-> "module", body |-> <<EmitPickModule(files.pick[1])>>]
  <2>1. job.todo = <<file>>
    BY <1>1, <1>4 DEF LeftToWrite
  <2>2. file.path = "module"
    OBVIOUS
  <2> HIDE DEF file
  <2>3. Next1 = file /\ Len(job.todo) = 1
    BY <2>1 DEF Next1
  <2> QED
    BY <1>1, <1>4, <2>1, <2>2, <2>3 DEF file, Paths
<1> QED
  BY <1>1, <1>2, <1>3, <1>4 DEF LeftToWrite

LEMMA FileSet ==
  ASSUME CommandsInv, NEW p \in Paths, NEW x, files' = [files EXCEPT ![p] = x]
  PROVE  /\ files' = [q \in Paths |-> files'[q]] /\ files'[p] = x
         /\ \A q \in Paths \ {p} : files'[q] = files[q]
BY NowTyped

\* From one system call to the next: what is left to write is the same.
LEMMA CallKeeps ==
  ASSUME CommandsInv, Writing, NEW pc \in WritePcs, job' = [job EXCEPT !.pc = pc],
         UNCHANGED <<plan, draft, started, faults>>,
         files' = [q \in Paths |-> files'[q]],
         \A q \in Paths \ {Next1.path} : files'[q] = files[q],
         pc = "open" => job.force \/ files'[Next1.path] = Absent,
         pc = "write" => files'[Next1.path] = <<>>,
         pc = "chmod" => files'[Next1.path] = Next1.body
  PROVE  CommandsInv'
<1>1. /\ job' = [cmd |-> job'.cmd, pc |-> job'.pc, todo |-> job'.todo, force |-> job'.force,
                 outcome |-> job'.outcome]
      /\ job'.cmd = job.cmd /\ job'.pc = pc /\ job'.todo = job.todo /\ job'.force = job.force
      /\ job'.outcome = job.outcome
  BY NowTyped
<1>2. job.outcome = "none" /\ job.todo # <<>>
  BY NowTyped DEF Writing, WritePcs
<1>3. TypedNext
  BY <1>1, <1>2, NowTyped DEF TypedNext
<1>4. Next1' = Next1
  BY <1>1 DEF Next1
<1>5. LeftToWrite'
  BY <1>1, ToWrite DEF LeftToWrite, Paths
<1>6. AtFile'
  BY <1>1, <1>4, <1>5 DEF AtFile
<1>7. job'.cmd = "pick" => draft' \in Drafts
  BY <1>1, ToWrite
<1> QED
  BY <1>1, <1>2, <1>3, <1>6, <1>7, TypedAgain DEF CommandsInv, WritePcs

LEMMA StatKeeps ==
  ASSUME CommandsInv, Stat
  PROVE  CommandsInv'
<1>1. Writing /\ job.pc # "idle" /\ UNCHANGED <<files, plan, draft, started, faults>>
  BY DEF Stat, Writing
<1>2. CASE Ends("error")
  BY <1>1, <1>2, NowTyped, FailureKeeps
<1>3. CASE /\ files[Next1.path] = Absent \/ job.force
           /\ job' = [job EXCEPT !.pc = "open"]
  BY <1>1, <1>3, NowTyped, CallKeeps DEF WritePcs
<1> QED
  BY <1>2, <1>3, NowTyped DEF Stat

LEMMA OpenKeeps ==
  ASSUME CommandsInv, Open
  PROVE  CommandsInv'
<1>1. /\ Writing /\ UNCHANGED <<plan, draft, started, faults>>
      /\ files' = [files EXCEPT ![Next1.path] = <<>>] /\ job' = [job EXCEPT !.pc = "write"]
  BY DEF Open, Writing
<1>2. Next1.path \in Paths
  BY <1>1, ToWrite
<1> QED
  BY <1>1, <1>2, FileSet, CallKeeps DEF WritePcs

LEMMA WriteKeeps ==
  ASSUME CommandsInv, Write
  PROVE  CommandsInv'
<1>1. /\ Writing /\ UNCHANGED <<plan, draft, started, faults>>
      /\ files' = [files EXCEPT ![Next1.path] = Next1.body] /\ job' = [job EXCEPT !.pc = "chmod"]
  BY DEF Write, Writing
<1>2. Next1.path \in Paths
  BY <1>1, ToWrite
<1> QED
  BY <1>1, <1>2, FileSet, CallKeeps DEF WritePcs

LEMMA StrikeIs ==
  ASSUME CommandsInv, Strike
  PROVE  faults' \in 0..MaxFaults
BY NowTyped, CommandsAssumption DEF Strike

LEMMA WriteFailsKeeps ==
  ASSUME CommandsInv, WriteFails
  PROVE  CommandsInv'
<1>1. /\ Writing /\ job.pc # "idle" /\ Strike /\ Ends("error") /\ UNCHANGED <<plan, draft, started>>
      /\ \E left : files' = [files EXCEPT ![Next1.path] = left]
  BY DEF WriteFails, Writing
<1>2. Next1.path \in Paths
  BY <1>1, ToWrite
<1>3. files' = [q \in Paths |-> files'[q]]
  BY <1>1, <1>2, FileSet
<1> QED
  BY <1>1, <1>3, NowTyped, StrikeIs, FailureKeeps

\* The last file is there: the command has succeeded.
LEMMA LastKeeps ==
  ASSUME CommandsInv, job.pc = "chmod", Len(job.todo) = 1, Ends("ok"),
         UNCHANGED <<files, plan, draft, started, faults>>
  PROVE  CommandsInv'
<1>1. Writing /\ files[Next1.path] = Next1.body
  BY DEF Writing, CommandsInv, AtFile
<1>2. TypedNext
  BY EndsIs, NowTyped DEF TypedNext, WritePcs
<1>3. AtFile'
  BY EndsIs DEF AtFile, Writing
<1>4. job'.cmd = job.cmd /\ job'.pc = "idle" /\ job'.outcome = "ok"
  BY EndsIs
<1>5. job.cmd = "pick" => draft' \in Drafts
  BY <1>1, ToWrite
<1>6. job.cmd = "init" =>
        /\ ValidateInitPlan(plan')
        /\ files'.auths = RenderAuths(plan') /\ files'.discovery = RenderDiscovery(plan')
  BY <1>1, ToWrite
<1>7. job.cmd # "check"
  BY <1>1, ToWrite
<1>8. Succeeded'
  BY <1>4, <1>6, <1>7 DEF Succeeded
<1> QED
  BY <1>2, <1>3, <1>4, <1>5, <1>8, TypedAgain DEF CommandsInv

\* The first file of init is there: the second is next.
LEMMA ChmodKeeps ==
  ASSUME CommandsInv, Chmod
  PROVE  CommandsInv'
<1>1. job.pc = "chmod" /\ UNCHANGED <<files, plan, draft, started, faults>>
  BY DEF Chmod
<1>2. Writing /\ files[Next1.path] = Next1.body
  BY <1>1 DEF Writing, CommandsInv, AtFile
<1>3. CASE Len(job.todo) = 1
  BY <1>1, <1>3, LastKeeps DEF Chmod
<1>4. CASE Len(job.todo) # 1
  <2> DEFINE todo == Tail(job.todo)
  <2>1. /\ job.cmd = "init" /\ job.outcome = "none" /\ ValidateInitPlan(plan)
        /\ job.todo = InitFiles(plan) /\ files.auths = RenderAuths(plan)
    BY <1>2, <1>4, ToWrite
  <2>2. todo = Tail(InitFiles(plan)) /\ todo # <<>>
    BY <2>1, InitFilesAre
  <2>3. job' = [job EXCEPT !.pc = "stat", !.todo = todo]
    BY <1>4 DEF Chmod
  <2> HIDE DEF todo
  <2>4. job' = [[job EXCEPT !.pc = "stat"] EXCEPT !.todo = todo]
    BY <2>3, NowTyped
  <2>5. /\ job' = [cmd |-> job'.cmd, pc |-> job'.pc, todo |-> job'.todo, force |-> job'.force,
                   outcome |-> job'.outcome]
        /\ job'.cmd = "init" /\ job'.pc = "stat" /\ job'.todo = todo /\ job'.outcome = "none"
    BY <2>1, <2>4, NowTyped
  <2>6. TypedNext
    BY <1>1, <2>2, <2>5, NowTyped DEF TypedNext, WritePcs
  <2>7. LeftToWrite'
    BY <1>1, <2>1, <2>2, <2>5 DEF LeftToWrite
  <2>8. AtFile'
    BY <2>5, <2>7 DEF AtFile
  <2> QED
    BY <2>5, <2>6, <2>8, TypedAgain DEF CommandsInv
<1> QED
  BY <1>3, <1>4

LEMMA CallFailsKeeps ==
  ASSUME CommandsInv, CallFails
  PROVE  CommandsInv'
<1>1. /\ job.pc # "idle" /\ Strike /\ Ends("error") /\ UNCHANGED <<files, plan, draft, started>>
  BY DEF CallFails
<1> QED
  BY <1>1, NowTyped, StrikeIs, FailureKeeps

LEMMA KillKeeps ==
  ASSUME CommandsInv, Kill
  PROVE  CommandsInv'
<1>1. /\ job.pc # "idle" /\ Strike /\ Ends("killed") /\ UNCHANGED <<files, plan, draft, started>>
  BY DEF Kill
<1> QED
  BY <1>1, NowTyped, StrikeIs, FailureKeeps
-----------------------------------------------------------------------------
(* The invariant holds throughout.                                         *)

LEMMA CommandsStarts ==
  ASSUME Init
  PROVE  CommandsInv
<1>1. files = [p \in Paths |-> files[p]]
  BY DEF Init, Paths
<1>2. /\ job.cmd = "none" /\ job.pc = "idle" /\ job.todo = <<>> /\ job.force = FALSE
      /\ job.outcome = "none" /\ plan = NoPlan /\ started = 0 /\ faults = 0
      /\ job = [cmd |-> job.cmd, pc |-> job.pc, todo |-> job.todo, force |-> job.force,
                outcome |-> job.outcome]
  BY DEF Init
<1>3. 0 \in 0..MaxCommands /\ 0 \in 0..MaxFaults
  BY CommandsAssumption
<1>4. DOMAIN files = Paths
  BY <1>1
<1>5. TypeOK
  BY <1>2, <1>3, <1>4 DEF TypeOK
<1>6. CommandsTyped
  BY <1>1, <1>2, <1>5, NoPlanIs DEF CommandsTyped
<1>7. AtFile
  BY <1>2 DEF AtFile, Writing
<1> QED
  BY <1>2, <1>6, <1>7 DEF CommandsInv

LEMMA StayKeeps ==
  ASSUME CommandsInv, UNCHANGED vars
  PROVE  CommandsInv'
<1>1. UNCHANGED <<files, job, plan, draft, started, faults>>
  BY DEF vars
<1>2. TypedNext
  BY <1>1, NowTyped DEF TypedNext
<1>3. LeftToWrite' = LeftToWrite /\ Next1' = Next1
  BY <1>1 DEF LeftToWrite, Next1
<1>4. AtFile'
  BY <1>1, <1>3 DEF AtFile, Writing, CommandsInv
<1>5. Succeeded' = Succeeded
  BY <1>1 DEF Succeeded
<1> QED
  BY <1>1, <1>2, <1>4, <1>5, TypedAgain DEF CommandsInv

LEMMA CommandsKeep ==
  ASSUME CommandsInv, [Next]_vars
  PROVE  CommandsInv'
<1>1. ASSUME NEW force \in BOOLEAN, NEW f \in Flags, InitFromFlags(f, force)
      PROVE  CommandsInv'
  BY <1>1, InitFromFlagsKeeps
<1>2. ASSUME NEW force \in BOOLEAN, InitWizard(force)
      PROVE  CommandsInv'
  BY <1>2, InitWizardKeeps
<1>3. ASSUME NEW force \in BOOLEAN, NEW d \in Drafts, WalkPick(d, force)
      PROVE  CommandsInv'
  BY <1>3, WalkPickKeeps
<1>4. ASSUME NEW force \in BOOLEAN, WalkEmit(force)
      PROVE  CommandsInv'
  BY <1>4, WalkEmitKeeps
<1>5. CASE WizardAuth \/ WizardGroup \/ WizardFails
  BY <1>5, WizardAuthKeeps, WizardGroupKeeps, WizardFailsKeeps
<1>6. ASSUME NEW withSnmp \in BOOLEAN, InitCheck(withSnmp)
      PROVE  CommandsInv'
  BY <1>6, InitCheckKeeps
<1>7. CASE EditPick
  BY <1>7, EditPickKeeps
<1>8. CASE Stat \/ Open \/ Write \/ WriteFails
  BY <1>8, StatKeeps, OpenKeeps, WriteKeeps, WriteFailsKeeps
<1>9. CASE Chmod \/ CallFails \/ Kill
  BY <1>9, ChmodKeeps, CallFailsKeeps, KillKeeps
<1>10. CASE UNCHANGED vars
  BY <1>10, StayKeeps
<1> QED
  BY <1>1, <1>2, <1>3, <1>4, <1>5, <1>6, <1>7, <1>8, <1>9, <1>10 DEF Next

LEMMA CommandsAlways == Spec => []CommandsInv
<1>1. Init => CommandsInv
  BY CommandsStarts
<1>2. CommandsInv /\ [Next]_vars => CommandsInv'
  BY CommandsKeep
<1> QED
  BY <1>1, <1>2, PTL DEF Spec
-----------------------------------------------------------------------------
(* The results.                                                            *)

\* A command has files to write exactly while it is writing, and ends with an
\* outcome (runInit, runWalkPick, runWalkEmit, writeNewFile).
THEOREM CommandsTypedAlways == Spec => []TypeOK
<1>1. CommandsInv => TypeOK
  BY DEF CommandsInv, CommandsTyped
<1> QED
  BY <1>1, CommandsAlways, PTL

\* Whatever plan an init was given, the daemon starts from the two files it
\* reports to have written, unless a protocol, a fingerprinter or the name of
\* an auth keeps it from starting, and reads in them the levels and modes of
\* the plan (ValidateInitPlan, RenderAuthsYAML, RenderDiscoveryYAML against
\* loadGroupRuntimes, loadAuthsOverlay and planInitialJobs).
THEOREM InitsLoad ==
  ASSUME FilesApart
  PROVE  Spec => []InitLoads
<1>1. ASSUME CommandsInv
      PROVE  InitLoads
  <2>1. SUFFICES ASSUME job.cmd = "init", job.outcome = "ok"
                 PROVE  /\ /\ KnownProtocols(files.auths)
                           /\ \A g \in Range(files.discovery) : g.fp \in Fingerprinters
                           /\ \A a \in Range(plan.auths) : a.name \notin NullNames
                           => DaemonLoads(files.auths, files.discovery)
                        /\ Len(files.auths) = Len(plan.auths)
                        /\ Len(files.discovery) = Len(plan.groups)
                        /\ \A i \in DOMAIN plan.auths :
                             plan.auths[i].version = 3 =>
                               ParsedLevel(files.auths[i]) = PlannedLevel(plan.auths[i])
                        /\ \A i \in DOMAIN plan.groups :
                             GroupMode(files.discovery[i]) = PlannedMode(plan.groups[i])
    BY DEF InitLoads
  <2>2. /\ ValidateInitPlan(plan) /\ IsPlan(plan)
        /\ files.auths = RenderAuths(plan) /\ files.discovery = RenderDiscovery(plan)
    BY <1>1, <2>1, NowTyped DEF CommandsInv, Succeeded
  <2>3. \A a \in Range(plan.auths) : ValidAuth(a)
    BY <2>2 DEF ValidateInitPlan
  <2>4. ASSUME KnownProtocols(files.auths),
               \A g \in Range(files.discovery) : g.fp \in Fingerprinters,
               \A a \in Range(plan.auths) : a.name \notin NullNames
        PROVE  DaemonLoads(files.auths, files.discovery)
    BY <2>2, <2>4, PlanLoads
  <2>5. \A i \in DOMAIN plan.auths :
          plan.auths[i].version = 3 => ParsedLevel(files.auths[i]) = PlannedLevel(plan.auths[i])
    BY <2>2, <2>3, RenderedFiles, RenderedAuth
  <2>6. \A i \in DOMAIN plan.groups :
          GroupMode(files.discovery[i]) = PlannedMode(plan.groups[i])
    <3>1. ASSUME NEW i \in DOMAIN plan.groups
          PROVE  GroupMode(files.discovery[i]) = PlannedMode(plan.groups[i])
      <4>1. files.discovery[i] = RenderGroup(plan.groups[i]) /\ IsGroup(plan.groups[i])
        BY <2>2, RenderedFiles
      <4> QED
        BY <4>1, RenderedGroup
    <3> QED
      BY <3>1
  <2> QED
    BY <2>2, <2>4, <2>5, <2>6, RenderedFiles
<1> QED
  BY <1>1, CommandsAlways, PTL

\* What `init --check' passes, the daemon starts from, unless the auths file
\* has no auth, or a group has a fingerprinter that is not there, a network or
\* an exclude that does not expand, or an auth that does not parse: the check
\* looks at none of these (CheckAuthDiscovery against loadGroupRuntimes,
\* loadAuthsOverlay and planInitialJobs).
THEOREM ChecksMeanStarts == Spec => []CheckMeansStarts
<1>1. ASSUME CommandsInv
      PROVE  CheckMeansStarts
  <2>1. SUFFICES ASSUME job.cmd = "check", job.outcome = "ok"
                 PROVE  \/ DaemonLoads(files.auths, files.discovery)
                        \/ files.auths = <<>>
                        \/ \E g \in Range(files.discovery) :
                             \/ ~FindsFingerprinter(g)
                             \/ ~Expands(g)
                             \/ \E a \in AuthsMap(files.auths) :
                                  a.name \in Range(g.auths) /\ ~ParsesAuth(a)
    BY DEF CheckMeansStarts
  <2>2. PICK withSnmp \in BOOLEAN : CheckAuthDiscovery(files.auths, files.discovery, withSnmp)
    BY <1>1, <2>1 DEF CommandsInv, Succeeded
  <2>3. Readable(files.auths)
    BY <1>1, <2>1 DEF CommandsInv, Succeeded
  <2> QED
    BY <2>2, <2>3, CheckedStarts
<1> QED
  BY <1>1, CommandsAlways, PTL

\* Whatever was walked and whatever the library scrapes, the module of an
\* unedited draft fetches the rest of the walk, but for the three exceptions
\* (ClusterWalk, DraftPick, EmitPickModule).
THEOREM NothingIsMissed == Spec => []NothingMissed
<1>1. ASSUME CommandsInv
      PROVE  NothingMissed
  <2>1. CASE job.cmd = "pick" /\ job.pc = "stat"
    <3>1. draft \in Drafts
      BY <1>1, <2>1, NowTyped DEF CommandsInv
    <3>2. /\ IsWalk(draft.walk) /\ draft.lib \subseteq Seq(Nat)
          /\ draft.cat = ClusterWalk(draft.walk)
          /\ draft.pick = DraftPick(draft.walk, draft.cat, draft.lib)
      BY <3>1, DraftIs
    <3>3. ASSUME NEW o \in Oids(draft.walk), ~Lookup(draft.lib, o)
          PROVE  LET module == EmitPickModule(draft.pick)
                     dropped == {d \in DraftTables(draft.walk, draft.cat, draft.lib) :
                                   d.metrics = {}}
                 IN  \/ o \in module.get
                     \/ \E c \in module.walk : IsPrefix(c, o)
                     \/ o \in draft.cat.scalars /\ ScalarType(draft.walk, o) \in StringTypes
                     \/ \E d \in dropped : \E k \in d.labels : IsPrefix(Append(d.entry, k), o)
                     \/ o \in draft.cat.scalars /\ ~DotZero(o)
      BY <3>2, <3>3, Fetched
    <3> QED
      BY <3>3 DEF NothingMissed
  <2>2. CASE ~(job.cmd = "pick" /\ job.pc = "stat")
    BY <2>2 DEF NothingMissed
  <2> QED
    BY <2>1, <2>2
<1> QED
  BY <1>1, CommandsAlways, PTL

\* The index labels of a table cover the whole index of every row of every
\* column (visit, defaultIndexLabels).
THEOREM IndexesFull == Spec => []FullIndex
<1>1. ASSUME CommandsInv
      PROVE  FullIndex
  <2>1. CASE job.cmd = "pick" /\ job.pc = "stat"
    <3> DEFINE O == Oids(draft.walk)
    <3>1. draft \in Drafts
      BY <1>1, <2>1, NowTyped DEF CommandsInv
    <3>2. O \subseteq Seq(Nat) /\ draft.cat = ClusterWalk(draft.walk)
      BY <3>1, DraftIs DEF IsWalk, Oids
    <3>3. draft.cat.tables = UNION {TablesOf(O, p) : p \in Nodes(O)}
      BY <3>2, ClusterIs
    <3> HIDE DEF O
    <3>4. ASSUME NEW t \in draft.cat.tables, NEW c \in ColumnOids(t), NEW o \in Under(O, c),
                 IsLeaf(O, o)
          PROVE  Len(o) = Len(c) + t.pieces
      <4>1. PICK p \in Nodes(O) : t \in TablesOf(O, p)
        BY <3>3
      <4> QED
        BY <3>2, <3>4, <4>1, TableFull
    <3> QED
      BY <3>4 DEF FullIndex, O
  <2> QED
    BY <2>1 DEF FullIndex
<1> QED
  BY <1>1, CommandsAlways, PTL

\* Without --force no command changes a file that it has not made itself,
\* whatever fails and whenever it is killed (writeNewFile).
THEOREM FilesKept == Spec => NeverOverwrites
<1> DEFINE kept == \A p \in Paths :
                     (job.pc # "idle" /\ files'[p] # files[p]) =>
                       \/ job.force
                       \/ files[p] = Absent
                       \/ job.pc = "write" /\ files[p] = <<>> /\ p = Next1.path
<1>1. ASSUME CommandsInv, [Next]_vars
      PROVE  kept
  <2>1. SUFFICES ASSUME NEW p \in Paths, job.pc # "idle", files'[p] # files[p]
                 PROVE  \/ job.force
                        \/ files[p] = Absent
                        \/ job.pc = "write" /\ files[p] = <<>> /\ p = Next1.path
    OBVIOUS
  <2>2. Open \/ Write \/ WriteFails
    BY <1>1, <2>1
       DEF Next, vars, InitFromFlags, InitWizard, WalkPick, WalkEmit, WizardAuth, WizardGroup,
           WizardFails, InitCheck, EditPick, Stat, Chmod, CallFails, Kill
  <2>3. \E x : files' = [files EXCEPT ![Next1.path] = x]
    BY <2>2 DEF Open, Write, WriteFails
  <2>4. Writing /\ job.pc \in {"open", "write"}
    BY <2>2 DEF Open, Write, WriteFails, Writing
  <2>5. p = Next1.path
    BY <1>1, <2>1, <2>3, <2>4, ToWrite, FileSet
  <2> QED
    BY <1>1, <2>4, <2>5 DEF CommandsInv, AtFile
<1>2. CommandsInv /\ [Next]_vars => [kept]_vars
  BY <1>1
<1> QED
  BY <1>2, CommandsAlways, PTL DEF Spec, NeverOverwrites
===============================================================================

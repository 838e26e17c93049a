----------------------------- MODULE MCCommands ------------------------------
(* Instances of Commands for TLC.                                          *)
EXTENDS Commands

V2(name, has)        == [name |-> name, version |-> 2, has |-> has, level |-> "",
                         authProto |-> "", privProto |-> ""]
V3(name, has, level) == [name |-> name, version |-> 3, has |-> has, level |-> level,
                         authProto |-> "", privProto |-> ""]
All == {"username", "password", "priv_password"}
Group(name, cidrs, auths, mode, large) ==
  [name |-> name, cidrs |-> cidrs, exclude |-> <<>>, auths |-> auths, fp |-> "",
   mode |-> mode, allowLarge |-> large]
Answer(g, pick, allow) ==
  [name |-> g.name, cidrs |-> g.cidrs, auths |-> g.auths, mode |-> g.mode,
   pick |-> pick, allow |-> allow]

Net1(bits) == [addr |-> [fam |-> "v4", digits |-> <<1, 0, 0>>], hostBits |-> bits]
Small == Net1(2)
Large == Net1(3)

a2   == V2("a", {"community"})
b3   == V3("b", All, "")
bNo  == V3("b", All, "noAuthNoPriv")
bPw  == V3("b", {"username", "password"}, "authNoPriv")
bHalf == V3("b", {"username", "password"}, "")
bOdd == [b3 EXCEPT !.privProto = "ROT13"]
OneOf(a) == [auths |-> <<a>>, groups |-> <<Group("g", <<Small>>, <<a.name>>, "", FALSE)>>]

MCFlags ==
  {OneOf(x) : x \in {a2, b3, bNo, bPw, bHalf, bOdd, V2("a", {}), V2("", {"community"}),
                     V2("9", {"community"}), V2("null", {"community"})}} \cup
  {[OneOf(b3) EXCEPT !.groups[1].fp = "gone"]} \cup
  {[auths |-> <<b3, a2>>, groups |-> gs] : gs \in {
     <<Group("g", <<Small>>, <<"a">>, "crawl", FALSE),
       Group("h", <<Small, Large>>, <<"a", "b">>, "", TRUE)>>,
     <<Group("g", <<Small>>, <<"a">>, "", FALSE), Group("g", <<Small>>, <<"b">>, "", FALSE)>>,
     <<Group("g", <<Large>>, <<"b">>, "both", FALSE)>>,
     <<Group("g", <<Bad>>, <<"b">>, "both", FALSE)>>,
     <<Group("g", <<Small>>, <<"c">>, "", FALSE)>>,
     <<Group("g", <<Small>>, <<>>, "", FALSE)>>}}

MCAuthAnswers == {a2, bPw, bHalf, [a2 EXCEPT !.version = 4]}
MCGroupAnswers ==
  {Answer(Group("g", <<Small>>, <<"a">>, "", FALSE), "named", FALSE),
   Answer(Group("g", <<Large>>, <<>>, "crawl", FALSE), "all", TRUE),
   Answer(Group("h", <<Large>>, <<>>, "other", FALSE), "all", FALSE)}

MCHandAuths == {<<a2, bHalf>>}
MCHandGroups ==
  {<<Group("g", <<Small>>, <<"a">>, "", FALSE), Group("h", <<Large>>, <<"b">>, "crawl", FALSE)>>,
   <<Group("g", <<Small>>, <<"a">>, "", FALSE)>>,
   <<[Group("g", <<Small>>, <<"a">>, "", FALSE) EXCEPT !.exclude = <<Bad>>]>>,
   <<[Group("g", <<Large>>, <<"lib">>, "", FALSE) EXCEPT !.fp = "gone"]>>}
MCSnmpAuths == {V2("lib", {"community"}), V2("a", {})}

-----------------------------------------------------------------------------
Number(o)  == [oid |-> o, type |-> "INTEGER"]
Text(o) == [oid |-> o, type |-> "STRING"]
Addr(o) == [oid |-> o, type |-> "IpAddress"]

\* Two scalars, a table of a name, a number and an address column over two
\* rows, one number with a longer index, and a column that stands alone.
Varbinds ==
  <<Text(<<1, 1, 0>>), Number(<<1, 2, 0>>),
    Text(<<1, 3, 1, 1>>), Text(<<1, 3, 1, 2>>), Number(<<1, 3, 2, 1>>), Number(<<1, 3, 2, 2>>),
    Addr(<<1, 3, 4, 2>>), Number(<<1, 3, 4, 3, 1>>), Number(<<2, 5, 1, 1>>), Number(<<2, 5, 1, 2>>)>>
Picked(indexes) == SelectSeq(Varbinds, LAMBDA v : \E i \in indexes : Varbinds[i] = v)
MCAgents ==
  {Picked(s) : s \in {{2, 9, 10}, {1, 3, 5, 8}, {3, 4, 6, 7, 8}}}
MCWalkPrefixes == {<<>>, <<1, 3>>}
MCLibraries == {{<<1, 3, 2>>, <<1, 2>>}}
=============================================================================

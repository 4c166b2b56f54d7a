------------------------------ MODULE MCCorpus ------------------------------
(***************************************************************************)
(* Two acts for TLC: a code with a merged paragraph, an overlong one and a *)
(* superscript article, and a decree with two articles that read           *)
(* "Art. 12".                                                              *)
(***************************************************************************)
EXTENDS CorpusProperties

Art(num) == Label(num, <<>>, "")
Art1x1 == Label(<<1>>, <<1>>, "")

MCRegistry == <<"code", "decree">>

MCSource == [code |-> <<"1-1", "1-1b", "1-2", "1-3", "1x1">>, decree |-> <<"d1x1", "d1x2", "d12">>]

MCHeader ==
    [p \in Range(MCSource.code) \cup Range(MCSource.decree) |->
        CASE p = "1-1" -> Art(<<1>>)              \* Art. 1. 1. ...
          [] p \in {"1x1", "d1x1"} -> Art1x1      \* Art. 1[1]. ...
          [] p \in {"d1x2", "d12"} -> Art(<<1, 2>>) \* of Art. 1[2], and of Art. 12
          [] OTHER -> NoLabel]

MCSection == [p \in DOMAIN MCHeader |-> CASE p = "1-1" -> 1 [] p = "1-2" -> 2 [] p = "1-3" -> 3 [] OTHER -> 0]

MCDomain == [code |-> "civil", decree |-> "civil"]

MCBudgets == {<<2, 0>>, <<1, 1>>, <<0, 2>>}

\* Chunks as the older ingestion wrote them.
Left(act, article, position, text) ==
    [act |-> act, article |-> article, position |-> position, text |-> text]

LegacyIds(label) ==
    {Left("code", Art(<<1>>), 0, Plain(<<"1-1">>)),
     Left("code", Art(<<1>>), 1, Text(<<"1-1b">>, "spaces")),
     Left("code", Art(<<1>>), 2, Plain(<<"1-2", "1-3">>)),
     Left("code", label, 3, Plain(<<"1x1">>)),
     Left("decree", Art(<<1, 2>>), 1, Plain(<<"d1x2">>)),
     Left("decree", Art(<<1, 2>>), 2, Text(<<>>, "footer")),
     Left("decree", Art(<<1, 2>>), 3, Text(<<"d12">>, "footer"))}

\* With the superscript cut from Art. 1[1], and with it kept.
MCLegacy ==
    {[id \in LegacyIds(label) |-> Doc(id.article, id.text)] : label \in {Art(<<1>>), Art1x1}}

============================================================================

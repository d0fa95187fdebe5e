---------------------------- MODULE MCProcString ----------------------------
(* Each proc and store, in the places it may have; with the two chains of  *)
(* README.md:120 and README.md:169.                                        *)
EXTENDS ProcString

MCDigits == {"1", "2", "7"}
MCUnits == {"gib"}
MCWords == MCDigits \cup MCUnits \cup {"a", "b", "x", "y", "mincopies", "stripe", "split2"}
             \cup DOMAIN ArgFns \cup DOMAIN ArgStoreProcs \cup DOMAIN ArgStoreUnprocs

W(tokens) == Leaf(tokens)
List(vs) == Node("list", vs)
Of(fn, words) == Node(fn, [i \in DOMAIN words |-> Leaf(words[i])])

Dir(s) == Node(s, <<W(<<"x">>), List(<<>>)>>)
Nested == Node("cp", <<W(<<"x">>), List(<<W(<<"1">>), W(<<"2">>)>>)>>)
Scp == Node("scp", <<W(<<"b">>), W(<<"x", " ", "y">>), List(<<>>)>>)
Remote == Of("rclone", << <<"y">> >>)
Gib == W(<<"7", "gib">>)

Copiers == {Node("=", <<W(<<"a">>), Nested>>), Node("=", <<W(<<"7">>), Scp>>),
            Node("=", <<W(<<"b">>), Remote>>)}
Quotas == Copiers \cup {Node("=", <<c, Gib>>) : c \in Copiers}

UpTo2(S) == {<<>>} \cup {<<x>> : x \in S} \cup {<<x, y>> : x \in S, y \in S}

DynProcs == {Node("mincopies", <<W(<<"2">>), List(qs)>>) : qs \in UpTo2(Quotas)}
              \cup {Node("stripe", <<W(<<"1">>), W(<<"2">>), List(<<q, r>>)>> ) :
                      q \in Quotas, r \in {Node("=", <<W(<<"b">>), Remote>>)}}

Leaves == {Node(n, <<>>) : n \in {"checksum", "sort"}}
            \cup {Of(n, << <<"x">> >>) : n \in {"index", "write"}}
            \cup {Of("join", << <<"-">> >>), Of("split2", << <<"1", "gib">>, <<"2">> >>),
                  Of("parity", << <<"2">>, <<"1">> >>), Of("group", << <<"1", "2">> >>),
                  Node("cmd", <<W(<<"a">>), List(<<W(<<"x", " ", "y">>), W(<<"b">>)>>)>>),
                  Nested, Node("ucp", Nested.args), Node("scp", Scp.args), Node("urclone", Remote.args)}

Chain(ps) == Node("chain", ps)
Inner == {Node("concur", <<W(<<"2">>), d>>) : d \in DynProcs}
           \cup {Node("multireader", cs) : cs \in UpTo2(Copiers)}

Index == Of("index", << <<"x">> >>)
Backup(d) == Chain(<<Node("split", <<>>),
                     Node("backlog", <<W(<<"7">>),
                       Chain(<<Node("checksum", <<>>), Index, Of("parity", << <<"2">>, <<"1">> >>),
                               Node("concur", <<W(<<"2">>), d>>)>>)>>)>>)

MCChains ==
  {Chain(<<p>>) : p \in Leaves \cup Inner}
    \cup {Chain(<<p, q>>) : p \in Leaves, q \in {Index, Node("sort", <<>>)}}
    \cup {Chain(<<Chain(<<p, Index>>), q>>) : p \in Leaves, q \in {Chain(<<>>), Node("sort", <<>>)}}
    \cup {Backup(d) : d \in {Node("mincopies", <<W(<<"2">>), List(<<q, r>>)>>) :
                               q \in Quotas, r \in {Node("=", <<W(<<"b">>), Remote>>)}}}

MCSlips == {"|", "=", ")", "}", " ", "2"}
=============================================================================

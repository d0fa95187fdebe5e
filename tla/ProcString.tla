----------------------------- MODULE ProcString -----------------------------
(***************************************************************************)
(* The text of the command line and the chain it is taken for: the parser  *)
(* combinators of argparse/ and what argproc/ builds of them.              *)
(*                                                                         *)
(* A text is a sequence of tokens: brackets, spaces, and pieces of words   *)
(* (those that touch make one word).  A parser is a record, as it is a     *)
(* value in the code.  What it makes of a text is a value, how much of the *)
(* text it has used, the kind of error, and the files that Run functions   *)
(* have opened so far, which they truncate: those of a text that is then   *)
(* rejected too.  What Run functions do but that is left out.              *)
(***************************************************************************)
EXTENDS Integers, Sequences, SequencesExt

CONSTANTS WordToken, \* what \w matches
          Digit,     \* of those, digits
          Unit,      \* of those, units of bytes
          Chains,    \* chains there is a text of
          Slips      \* tokens typed by mistake

VARIABLES chain,     \* the chain meant
          text,      \* what is typed
          mistyped,
          result     \* of argproc.New(...).Parse

vars == <<chain, text, mistyped, result>>

-----------------------------------------------------------------------------
(* The structs of argparse/.                                               *)

ArgStr == [kind |-> "str"]
ArgInt == [kind |-> "int"]
ArgBytes == [kind |-> "bytes"]
Args(ps) == [kind |-> "args", ps |-> ps]
Variadic(p) == [kind |-> "variadic", p |-> p]
Piped(p) == [kind |-> "piped", p |-> p]
Or(ps) == [kind |-> "or", ps |-> ps]
Pair(l, r) == [kind |-> "pair", l |-> l, r |-> r]
Fn(fns) == [kind |-> "fn", fns |-> fns]
Filter(p, run) == [kind |-> "filter", p |-> p, run |-> run]

Round == <<"(", ")">>
Braces == <<"{", "}">>

\* Run makes of the arguments a value with its name; it first opens the file
\* that the first of them names if opens.
Lambda(args, run) ==
  [kind |-> "lambda", args |-> args, run |-> run, brackets |-> Round, opens |-> FALSE]

\* Values: words and what Run functions make.
Leaf(w) == [fn |-> "", word |-> w, args |-> <<>>]
Node(fn, args) == [fn |-> fn, word |-> <<>>, args |-> args]

-----------------------------------------------------------------------------
(* What argproc builds of them.                                            *)

\* argProc, from within the parsers it is made of.
ProcRef == [kind |-> "proc"]

ArgStore == Fn([rclone |-> Lambda(Args(<<ArgStr>>), "rclone"),
                cp |-> Lambda(Args(<<ArgStr, Variadic(ArgInt)>>), "cp"),
                scp |-> Lambda(Args(<<ArgStr, ArgStr, Variadic(ArgInt)>>), "scp")])

ArgCopier == Pair(ArgStr, ArgStore)

ArgQuota == Or(<<Pair(ArgCopier, ArgBytes), ArgCopier>>)

ArgDynProc == Fn([mincopies |-> Lambda(Args(<<ArgInt, Variadic(ArgQuota)>>), "mincopies"),
                  stripe |-> Lambda(Args(<<ArgInt, ArgInt, Variadic(ArgQuota)>>), "stripe")])

OpenOut(run) == [Lambda(Args(<<ArgStr>>), run) EXCEPT !.opens = TRUE]

Cmd(run) == Lambda(Args(<<ArgStr, Variadic(ArgStr)>>), run)
Parity(run) == Lambda(Args(<<ArgInt, ArgInt>>), run)
Gzip(run) == Lambda(Args(<<>>), run)

ArgFns ==
  [n \in {"checksum", "uchecksum", "uindex", "split", "sort"} |->
     Lambda(Args(<<>>), n)]
  @@ [n \in {"index", "write", "join"} |-> OpenOut(n)]
  @@ [n \in {"cmd", "cmdin", "cmdout"} |-> Cmd(n)]
  @@ [n \in {"parity", "uparity"} |-> Parity(n)]
  @@ [n \in {"gzip", "ugzip"} |-> Gzip(n)]
  @@ [split2 |-> Lambda(Args(<<ArgBytes, ArgBytes>>), "split2"),
      backlog |-> Lambda(Args(<<ArgInt, ProcRef>>), "backlog"),
      concur |-> Lambda(Args(<<ArgInt, ArgDynProc>>), "concur"),
      multireader |-> Lambda(Variadic(ArgCopier), "multireader"),
      group |-> Lambda(Args(<<ArgInt>>), "group")]

\* A store as a proc of the chain, both ways.
ArgStoreProcs == [n \in {"cp", "scp", "rclone"} |-> Filter(ArgStore.fns[n], n)]
ArgStoreUnprocs == [ucp |-> Filter(ArgStore.fns["cp"], "ucp"),
                    uscp |-> Filter(ArgStore.fns["scp"], "uscp"),
                    urclone |-> Filter(ArgStore.fns["rclone"], "urclone")]

ArgChain == [Lambda(Piped(ProcRef), "chain") EXCEPT !.brackets = Braces]

ArgProc == Or(<<ArgChain, Fn(ArgFns @@ ArgStoreProcs @@ ArgStoreUnprocs)>>)

-----------------------------------------------------------------------------
(* The Parse methods.                                                      *)

Parsed(val, n, opened) == [err |-> "none", val |-> val, n |-> n, opened |-> opened]
\* "syntax" is ErrInvalidSyntax, with any number of ErrDetails about it.
Failed(err, opened) == [err |-> err, val |-> Leaf(<<>>), n |-> 0, opened |-> opened]
IsError(r) == r.err # "none"

UpTo(t, n) == SubSeq(t, 1, n)
After(t, n) == SubSeq(t, n + 1, Len(t))
First(t, c) == SelectInSeq(t, LAMBDA x : x = c)

LeftSpaces(t) == LET i == SelectInSeq(t, LAMBDA c : c # " ") IN IF i = 0 THEN Len(t) ELSE i - 1
Trimmed(t) == After(t, LeftSpaces(t))
SpaceEnd(t) == IF First(t, " ") = 0 THEN Len(t) ELSE First(t, " ") - 1
Word(t) == UpTo(t, SpaceEnd(t))

RECURSIVE Outside(_, _, _, _, _)
\* From i on, where nest brackets b are open, the first c that is not between
\* brackets, or 0.
Outside(t, c, b, i, nest) ==
  IF i > Len(t) THEN 0
  ELSE LET now == nest + (IF t[i] = b[1] THEN 1 ELSE IF t[i] = b[2] THEN -1 ELSE 0)
       IN  IF t[i] = c /\ now = 0 THEN i ELSE Outside(t, c, b, i + 1, now)

\* Quotes count if a space or nothing follows them.
ParseStr(t) ==
  LET end == SelectInSubSeq(t, 2, Len(t), LAMBDA c : c = "\"")
  IN  IF t # <<>> /\ t[1] = "\"" /\ end # 0 /\ (end = Len(t) \/ t[end + 1] = " ")
      THEN Parsed(Leaf(SubSeq(t, 2, end - 1)), end, <<>>)
      ELSE Parsed(Leaf(Word(t)), SpaceEnd(t), <<>>)

Digits(w) == w # <<>> /\ \A i \in DOMAIN w : w[i] \in Digit

ParseInt(t) ==
  IF Digits(Word(t)) THEN Parsed(Leaf(Word(t)), SpaceEnd(t), <<>>) ELSE Failed("error", <<>>)

\* A number, then a unit or nothing.  What has no number at its beginning is a
\* syntax error, what has something else after it another.
ParseBytes(t) ==
  LET w == Word(t)
  IN  IF Digits(w) \/ (w # <<>> /\ Last(w) \in Unit /\ Digits(Front(w)))
      THEN Parsed(Leaf(w), Len(w), <<>>)
      ELSE Failed(IF w = <<>> \/ w[1] \notin Digit THEN "syntax" ELSE "error", <<>>)

RECURSIVE Parse(_, _)

RECURSIVE ParseArgs(_, _, _, _)
\* Those of ps, after vals; they use all of the text.
ParseArgs(ps, t, vals, opened) ==
  LET rest == Trimmed(t)
      r == Parse(Head(ps), rest)
  IN  IF ps = <<>>
      THEN IF rest = <<>> THEN Parsed(Node("list", vals), Len(t), opened)
                          ELSE Failed("error", opened)    \* ErrTooManyArgs
      ELSE IF rest = <<>> /\ Head(ps).kind # "variadic"
      THEN Failed("error", opened)                        \* ErrTooFewArgs
      ELSE IF IsError(r) THEN Failed(r.err, opened \o r.opened)
      ELSE LET more == ParseArgs(Tail(ps), After(rest, r.n), Append(vals, r.val),
                                 opened \o r.opened)
           IN  [more EXCEPT !.n = Len(t)]

RECURSIVE ParseVariadic(_, _, _, _)
ParseVariadic(p, t, vals, opened) ==
  LET rest == Trimmed(t)
      r == Parse(p, rest)
  IN  IF rest = <<>> THEN Parsed(Node("list", vals), Len(t), opened)
      ELSE IF IsError(r) THEN Failed(r.err, opened \o r.opened)
      ELSE LET more == ParseVariadic(p, After(rest, r.n), Append(vals, r.val), opened \o r.opened)
           IN  [more EXCEPT !.n = Len(t)]

RECURSIVE ParsePiped(_, _, _, _)
\* How much of its segment an argument has used is not looked at.
ParsePiped(p, t, vals, opened) ==
  LET rest == Trimmed(t)
      i == Outside(rest, "|", Braces, 1, 0)
      segment == IF i = 0 THEN rest ELSE UpTo(rest, i - 1)
      r == Parse(p, segment)
  IN  IF rest = <<>> THEN Parsed(Node("list", vals), Len(t), opened)
      ELSE IF IsError(r) THEN Failed(r.err, opened \o r.opened)
      ELSE LET more == ParsePiped(p, After(rest, Len(segment) + 1), Append(vals, r.val),
                                  opened \o r.opened)
           IN  [more EXCEPT !.n = Len(t)]

RECURSIVE ParseOr(_, _)
\* The first that has another thing to say than that the syntax is not its.
ParseOr(ps, t) ==
  LET r == Parse(Head(ps), t)
      other == ParseOr(Tail(ps), t)
  IN  IF r.err = "syntax" /\ Len(ps) > 1 THEN [other EXCEPT !.opened = r.opened \o @] ELSE r

\* Mutation: whatever is on its left.
SeparatorFirst(p, t) == First(t, "=")

\* The separator of a pair of a pair is the second there is.
Separator(p, t) ==
  LET i == First(t, "=")
  IN  IF p.l.kind # "pair" \/ i = 0 THEN i
      ELSE SelectInSubSeq(t, i + 1, Len(t), LAMBDA c : c = "=")

\* How much of what comes before it has been used is not looked at.
ParsePair(p, t) ==
  LET i == Separator(p, t)
      l == Parse(p.l, UpTo(t, i - 1))
      r == Parse(p.r, After(t, i))
      opened == l.opened \o r.opened
  IN  IF i = 0 THEN Failed("syntax", <<>>)
      ELSE IF IsError(l) THEN l
      ELSE IF IsError(r) THEN Failed(r.err, opened)
      ELSE Parsed(Node("=", <<l.val, r.val>>), i + r.n, opened)

\* What is between a bracket and the one that closes it, for Run.
ParseLambda(p, t) ==
  LET end == Outside(t, p.brackets[2], p.brackets, 1, 0)
      r == Parse(p.args, SubSeq(t, 2, end - 1))
      path == r.val.args[1].word
  IN  IF Len(t) < 2 \/ t[1] # p.brackets[1] THEN Failed("syntax", <<>>)
      ELSE IF end = 0 THEN Failed("error", <<>>)          \* ErrUnclosedBracket
      ELSE IF IsError(r) THEN r
      ELSE Parsed(Node(p.run, r.val.args), end,
                  IF p.opens /\ path # <<"-">> THEN Append(r.opened, path) ELSE r.opened)

\* A bracket comes first, and one that closes some time after.
InBrackets(t) == t # <<>> /\ t[1] = "(" /\ First(t, ")") # 0

\* Mutation: without brackets, the name is an argument too.
FnArgsNamed(t, n) ==
  LET rest == After(t, n)
  IN  IF InBrackets(rest) THEN UpTo(rest, SelectLastInSeq(rest, LAMBDA c : c = ")"))
                          ELSE <<"(">> \o t \o <<")">>

\* What follows the n tokens of the name: from the bracket to the last that
\* closes one, or all there is, as if in brackets.
FnArgs(t, n) ==
  LET rest == After(t, n)
  IN  IF InBrackets(rest) THEN UpTo(rest, SelectLastInSeq(rest, LAMBDA c : c = ")"))
                          ELSE <<"(">> \o Trimmed(rest) \o <<")">>

ParseFn(fns, t) ==
  LET end == SelectInSeq(t, LAMBDA c : c \notin WordToken)
      n == IF end = 0 THEN Len(t) ELSE end - 1
      rest == After(t, n)
      r == Parse(fns[t[1]], FnArgs(t, n))
  IN  IF n = 0 THEN Failed("syntax", <<>>)
      ELSE IF n > 1 \/ t[1] \notin DOMAIN fns THEN Failed("error", <<>>)
      ELSE IF IsError(r) THEN r
      ELSE [r EXCEPT !.n = n + @ + IF InBrackets(rest) THEN 0 ELSE LeftSpaces(rest) - 2]

ParseFilter(p, t) ==
  LET r == Parse(p.p, t) IN IF IsError(r) THEN r ELSE [r EXCEPT !.val = Node(p.run, @.args)]

Parse(p, t) == CASE p.kind = "str" -> ParseStr(t)
                 [] p.kind = "int" -> ParseInt(t)
                 [] p.kind = "bytes" -> ParseBytes(t)
                 [] p.kind = "args" -> ParseArgs(p.ps, t, <<>>, <<>>)
                 [] p.kind = "variadic" -> ParseVariadic(p.p, t, <<>>, <<>>)
                 [] p.kind = "piped" -> ParsePiped(p.p, t, <<>>, <<>>)
                 [] p.kind = "or" -> ParseOr(p.ps, t)
                 [] p.kind = "pair" -> ParsePair(p, t)
                 [] p.kind = "lambda" -> ParseLambda(p, t)
                 [] p.kind = "fn" -> ParseFn(p.fns, t)
                 [] p.kind = "filter" -> ParseFilter(p, t)
                 [] p.kind = "proc" -> Parse(ArgProc, t)

New(t) == Parse(Filter(Piped(ProcRef), "chain"), t)
-----------------------------------------------------------------------------
(* Texts of a chain, as README.md writes them.                             *)

RECURSIVE Joined(_, _)
Joined(texts, sep) == IF Len(texts) <= 1 THEN FlattenSeq(texts)
                      ELSE texts[1] \o sep \o Joined(Tail(texts), sep)

RECURSIVE Text(_, _, _)
\* With brackets or, where nothing follows, without them (but those of stores
\* that have an id); with spaces where there may be any, or where there must.
Text(v, bare, gap) ==
  LET args == [i \in DOMAIN v.args |-> Text(v.args[i], bare, gap)]
      pipe == gap \o <<"|">> \o gap
  IN  CASE v.fn = "" -> IF \E i \in DOMAIN v.word : v.word[i] = " "
                        THEN <<"\"">> \o v.word \o <<"\"">> ELSE v.word
        [] v.fn = "=" -> args[1] \o <<"=">> \o Text(v.args[2], bare /\ v.args[2].fn = "", gap)
        [] v.fn = "list" -> Joined(args, <<" ">> \o gap)
        [] v.fn = "chain" -> <<"{">> \o gap \o Joined(args, pipe) \o gap \o <<"}">>
        [] OTHER -> IF bare THEN Joined(<< <<v.fn>> >> \o args, <<" ">> \o gap)
                    ELSE <<v.fn, "(">> \o gap \o Joined(args, <<" ">> \o gap) \o gap \o <<")">>

Texts(c) == {Joined([i \in DOMAIN c.args |-> Text(c.args[i], bare, gap)], gap \o <<"|">> \o gap) :
               bare \in BOOLEAN, gap \in {<<>>, <<" ">>}}

RECURSIVE Words(_)
\* What a text must have, in this order, to be one of v.
Words(v) ==
  LET args == [i \in DOMAIN v.args |-> Words(v.args[i])]
  IN  CASE v.fn \in {"list", "chain"} -> FlattenSeq(args)
        [] v.fn = "" -> v.word
        [] v.fn = "=" -> Joined(args, <<"=">>)
        [] OTHER -> <<v.fn>> \o FlattenSeq(args)

RECURSIVE Within(_, _)
\* s is t without some of its tokens.
Within(s, t) == \/ s = <<>>
                \/ /\ t # <<>>
                   /\ IF s[1] = t[1] THEN Within(Tail(s), Tail(t)) ELSE Within(s, Tail(t))

RECURSIVE Outputs(_)
\* The files that the procs of v write to.
Outputs(v) ==
  (IF v.fn \in {"index", "write", "join"} /\ v.args[1].word # <<"-">> THEN <<v.args[1].word>>
                                                                   ELSE <<>>)
    \o FlattenSeq([i \in DOMAIN v.args |-> Outputs(v.args[i])])

-----------------------------------------------------------------------------
(* The command line.                                                       *)

Unparsed == [err |-> "unparsed", val |-> Leaf(<<>>), n |-> 0, opened |-> <<>>]

Init == /\ chain \in Chains /\ text \in Texts(chain)
        /\ mistyped = FALSE /\ result = Unparsed

\* One token is missing, or another one.
Mistype ==
  /\ ~mistyped /\ result = Unparsed
  /\ \E i \in DOMAIN text :
       \/ text' = RemoveAt(text, i)
       \/ \E slip \in Slips \ {text[i]} : text' = ReplaceAt(text, i, slip)
  /\ mistyped' = TRUE
  /\ UNCHANGED <<chain, result>>

Start == /\ result = Unparsed
         /\ result' = New(text)
         /\ UNCHANGED <<chain, text, mistyped>>

Next == Mistype \/ Start

Spec == Init /\ [][Next]_vars

\* A text of a chain, in any of the ways to write it, is taken for that chain
\* with nothing left over: brackets and separators end what they were meant
\* to, a quota goes to the store it is written after (or its absence to it,
\* whatever quotas follow), and each file its procs write to is opened once.
ParsedAsWritten ==
  result # Unparsed /\ ~mistyped =>
    /\ result.err = "none" /\ result.val = chain /\ result.n = Len(text)
    /\ result.opened = Outputs(chain)

\* Whatever is typed, a chain that it is taken for is there, word for word in
\* that order, though some of the text may not count; and no file has been
\* emptied but those its procs write to.
AcceptedIsTyped ==
  result.err = "none" =>
    /\ Within(Words(result.val), text)
    /\ result.opened = Outputs(result.val)
=============================================================================

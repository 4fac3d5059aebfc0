------------------------- MODULE MC_RequestBuffers -------------------------
(* The pool of 32 K is scaled to 40 bytes. *)
EXTENDS RequestBuffers

Text(n) == [i \in 1 .. n |-> "x"]

End == <<"\n">>
EndR == <<"\r", "\n">>

(* Request lines: a URL of n bytes, and one with args arguments. *)
Get(n) == <<"x", " ">> \o Text(n) \o <<" ", "x">> \o End
GetArgs(n, args) ==
    <<"x", " ">> \o Text(n) \o <<"?", "x">>
    \o FlattenSeq([i \in 1 .. args - 1 |-> <<"&", "x">>])
    \o <<" ", "x">> \o EndR

Header(n) == <<"x", ":", " ">> \o Text(n) \o EndR
More(n) == <<" ">> \o Text(n) \o End
Cookie(text) == <<"Cookie", ":">> \o text \o End
Crumbs(n) == FlattenSeq([i \in 1 .. n |-> <<"x", ";">>])

MCStreams ==
    { \* requests in the pipeline, line ends of both kinds
      <<<<GetArgs(1, 1), Header(1), EndR>>, <<Get(1), End>>, <<Get(2), End>>>>,
      <<<<Get(1), End>>, <<Get(1), Header(2), EndR>>, <<GetArgs(1, 2), EndR>>>>,
      \* cookies, continued headers
      <<<<Get(1), Cookie(<<"x">>), End>>, <<Get(1), End>>>>,
      <<<<Get(1), Cookie(Text(9)), End>>, <<Get(1), End>>>>,
      <<<<Get(1), Cookie(Text(5)), End>>, <<Get(1), End>>>>,
      <<<<Get(1), Cookie(Crumbs(3)), End>>>>,
      <<<<Get(1), Header(1), More(2), More(1), End>>, <<Get(1), End>>>>,
      <<<<Get(1), Header(1), More(9), Header(1), End>>, <<Get(1), End>>>>,
      \* longer than half the pool, exactly that, longer than the pool
      <<<<Get(16), Header(2), End>>, <<Get(1), End>>>>,
      <<<<Get(14), End>>, <<Get(1), End>>>>,
      <<<<Get(15), End>>, <<Get(1), End>>>>,
      <<<<Get(15), Header(1), End>>>>,
      <<<<Get(38), End>>>>,
      <<<<Get(1), Header(38), End>>>>,
      \* many records, and none that can be made out
      <<<<GetArgs(1, 5), End>>, <<Get(1), End>>>>,
      <<<<GetArgs(1, 6), End>>, <<Get(1), End>>>>,
      <<<<GetArgs(6, 4), End>>>>,
      <<<<Get(1), Header(1), Header(1), Header(1), Header(1), Header(1), End>>>>,
      <<<<Text(3) \o End, End>>>>,
      <<<<Get(1), Text(2) \o End, End>>>>,
      <<<<Get(1), Header(1), Text(2) \o End, End>>>>,
      \* empty lines in front of a request, or at the end; a pipeline so full
      \* that more than half the pool is left unread
      <<<<End, Get(1), End>>, <<EndR, Get(1), End>>>>,
      <<<<Get(1), Header(1), End>>, <<End, End, Get(2), Header(1), End>>,
        <<End>>>>,
      <<<<End, End, Get(16), End>>, <<Get(1), End>>>>,
      <<<<End, Get(0), End>>, <<Get(9), Header(1), EndR>>, <<Get(1), End>>>> }
=============================================================================

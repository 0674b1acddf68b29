----------------------------- MODULE MCArticles -----------------------------
EXTENDS Articles

\* Bytes that become NUL, TAB, SPACE, '.', '=' and 'y', and one that is not special.
MCBytes == {214, 223, 246, 4, 19, 79, 100}

Sequences(S, n) == UNION {[1..k -> S] : k \in 0..n}

\* Later contents of a file differ in length.
MCContents == {<<>>, <<7>>, <<7, 7, 7, 7, 7, 7>>}

Server == [Address |-> "a", Port |-> 119, Username |-> "u", Password |-> "p", TLS |-> "yes", Connections |-> 2]

Cmd == [parses |-> TRUE, help |-> FALSE, files |-> <<"f">>, config |-> None, home |-> TRUE,
        articlesize |-> None, iothreads |-> 1, output |-> None, subject |-> None, groups |-> <<"g">>]

Conf == [reachable |-> TRUE, exists |-> TRUE, wellformed |-> TRUE, global |-> TRUE, From |-> "me", ArticleSize |-> 2,
         ArticleQueueSize |-> 1, OperationTimeout |-> 30, MsgIdDomain |-> <<>>, servers |-> <<Server>>]

Entry(id) == [id |-> id, kind |-> "file", readable |-> TRUE, within |-> {}]

\* A file, a directory with a file, a socket and a subdirectory with another file, a device,
\* and nothing.
Tree ==
  LET directory == {Entry("2"), [Entry("0") EXCEPT !.kind = "other"], [Entry("s") EXCEPT !.kind = "directory"],
                    [Entry("3") EXCEPT !.within = {"s"}]}
  IN [p \in {"f", "d", "o", "x"} |->
        CASE p = "f" -> [kind |-> "file", readable |-> TRUE, entries |-> {Entry("1")}]
          [] p = "d" -> [kind |-> "directory", readable |-> TRUE, entries |-> directory]
          [] p = "o" -> [kind |-> "other", readable |-> TRUE, entries |-> {}]
          [] p = "x" -> [kind |-> "missing", readable |-> FALSE, entries |-> {}]]

\* The same with an entry that cannot be read.
Locked(p, id) ==
  [Tree EXCEPT ![p].entries = {IF e.id = id THEN [e EXCEPT !.readable = FALSE] ELSE e : e \in @}]

Disk(bytes) == [i \in {"1", "2", "3"} |-> CASE i = "1" -> bytes [] i = "2" -> <<>> [] i = "3" -> <<8>>]

Input(cmd, conf, paths, bytes, bound) ==
  [cmd |-> cmd, conf |-> conf, tree |-> paths, disk |-> Disk(bytes), bound |-> bound]

\* Every short file in parts of every size.
EncodingInputs ==
  {Input([Cmd EXCEPT !.articlesize = size], Conf, Tree, bytes, 0) :
     size \in 1..5, bytes \in Sequences(MCBytes, 4)}

\* Several files, with a dot and a bracket in the domain.
PostingInputs ==
  {Input([Cmd EXCEPT !.files = paths, !.subject = "s"],
         [Conf EXCEPT !.MsgIdDomain = <<Mark("d"), Mark("."), Mark("<"), Mark("e")>>], Tree, <<1, 4, 214, 4, 7>>, 2) :
     paths \in {<<"f", "d">>, <<"d", "f">>}}

\* Directories and files that go while they are looked at, or cannot be read.
WalkingInputs ==
  {Input([Cmd EXCEPT !.files = <<"d", "o", "f">>, !.subject = "s"], Conf, paths, <<1>>, 2) :
     paths \in {Tree, Locked("f", "1"), Locked("d", "2"), Locked("d", "0"), Locked("d", "s"),
                [Tree EXCEPT !["d"].readable = FALSE], [Tree EXCEPT !["d"].kind = "unreachable", !["d"].entries = {}]}}

\* Command lines and configurations with one thing wrong, or nothing.
ConfigInputs ==
  {Input(cmd, conf, Tree, <<1>>, 1) :
     cmd \in {Cmd, [Cmd EXCEPT !.help = TRUE], [Cmd EXCEPT !.parses = FALSE], [Cmd EXCEPT !.home = FALSE],
              [Cmd EXCEPT !.files = <<"f", "d">>], [Cmd EXCEPT !.files = <<"x", "d">>, !.subject = "s"],
              [Cmd EXCEPT !.output = "directory"], [Cmd EXCEPT !.output = "unreachable"],
              [Cmd EXCEPT !.articlesize = 0], [Cmd EXCEPT !.articlesize = -1],
              [Cmd EXCEPT !.articlesize = Memory], [Cmd EXCEPT !.articlesize = (Memory \div 3) + 1],
              [Cmd EXCEPT !.groups = <<>>], [Cmd EXCEPT !.iothreads = -1]},
     conf \in {Conf, [Conf EXCEPT !.exists = FALSE], [Conf EXCEPT !.reachable = FALSE], [Conf EXCEPT !.From = ""],
               [Conf EXCEPT !.ArticleSize = 0], [Conf EXCEPT !.ArticleQueueSize = None],
               [Conf EXCEPT !.servers = <<>>], [Conf EXCEPT !.servers[1].Connections = -1],
               [Conf EXCEPT !.servers[1].Password = ""]}}

MCInputs == EncodingInputs \cup PostingInputs \cup WalkingInputs \cup ConfigInputs
=============================================================================

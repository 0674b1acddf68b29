------------------------------ MODULE Articles ------------------------------
(***************************************************************************)
(* What main.cc does around the pool of module Usenet: it reads the        *)
(* configuration, collects the files under the named paths (fileset.cc),   *)
(* reads and encodes one part after the other (yencgenerator.cc, module    *)
(* Yenc), hands the articles to the pool and at the end writes the nzb     *)
(* file.  Meanwhile others remove and change the files, and the callback   *)
(* for a failed post gives an article a new message id.                    *)
(*                                                                         *)
(* A path is a file (its only entry), a directory (with an entry for       *)
(* whatever is under it at any depth), something else, missing or          *)
(* unreachable: its status cannot be had, which throws.  An entry lies     *)
(* within the subdirectories whose ids it names, and is not readable if it *)
(* cannot be opened, or its status cannot be had.                          *)
(*                                                                         *)
(* File and piece indices begin at 0 as in the code.  A line is the        *)
(* sequence of its bytes without CRLF; a message id is a sequence of       *)
(* tokens, one for each mark, name and number in it.  Definitions whose    *)
(* comment begins with "Defect" are the same code with one mistake.        *)
(***************************************************************************)
EXTENDS Yenc, Configuration, SequencesExt

CONSTANTS
  Inputs,    \* command line, configuration file and file system to start with,
             \* and a bound: how often a file changes, is removed, or a post fails
  Contents,  \* what a file may be changed to
  Memory     \* the most bytes that one allocation can get

\* A vector has at most half as many bytes as size_t has values.
ASSUME MemoryAssumption == Memory \in Nat /\ 2 * Memory < SizeT

ASSUME InputAssumption ==
  /\ Contents \subseteq Seq(Byte)
  /\ \A g \in Inputs :
       /\ \A id \in DOMAIN g.disk : g.disk[id] \in Seq(Byte)
       /\ g.cmd.files \in Seq(DOMAIN g.tree)
       /\ \A p \in DOMAIN g.tree :
            /\ g.tree[p].kind = "file" => \E e \in g.tree[p].entries : e.kind = "file" /\ g.tree[p].entries = {e}
            /\ g.tree[p].kind \notin {"file", "directory"} => g.tree[p].entries = {}
            /\ \A e \in g.tree[p].entries : e.kind = "file" => e.id \in DOMAIN g.disk
       /\ {g.cmd.articlesize, g.conf.ArticleSize} \subseteq Int \cup {None}
       /\ g.conf.MsgIdDomain \in Seq([text : STRING, number : Nat])

VARIABLES
  given,      \* the member of Inputs
  tree,       \* for each path its kind and the entries under it
  disk,       \* for each file its bytes
  changed,    \* files that were changed after they were opened
  stage,      \* where main is, or how it ended
  cfg,
  walked,     \* named paths that have been looked at, with the one that is under way
  todo,       \* what the iterator over its directory has yet to show
  found,      \* the regular file it has shown last
  files,      \* fileset: size, number of parts and stream state of each file
  file, piece,   \* the next part to be read
  part,       \* what get_part knows of the part it encodes
  piece_sizes,   \* the map, with keys <<file, piece>>
  articles,   \* in the order they were enqueued
  exceptions, \* msgid_exceptions
  disturbed,  \* changes, removals and retries so far; also numbers the nonces
  nzb

world == <<given, tree, disk, changed>>
setup == <<cfg, walked, todo, found>>
position == <<file, piece>>
posted == <<piece_sizes, articles, exceptions, nzb>>
main == <<setup, files, position, part, encoder>>
vars == <<world, disturbed, stage, main, posted>>

Init ==
  /\ given \in Inputs
  /\ tree = given.tree /\ disk = given.disk /\ changed = {}
  /\ stage = "start" /\ cfg = None /\ walked = 0 /\ todo = {} /\ found = None
  /\ files = <<>> /\ file = 0 /\ piece = 0 /\ part = None
  /\ input = <<>> /\ line = <<>> /\ lines = <<>>
  /\ piece_sizes = <<>> /\ articles = <<>> /\ exceptions = <<>> /\ nzb = None /\ disturbed = 0

-----------------------------------------------------------------------------
(* Others remove paths and change files.                                    *)

Disturbed ==
  /\ disturbed < given.bound
  /\ disturbed' = disturbed + 1

Searching == {"start", "walk", "enter", "list", "add"}

\* Once a file is open it may be removed as far as its reader is concerned.
RemovePath ==
  /\ stage \in Searching
  /\ Disturbed
  /\ \E i \in DOMAIN given.cmd.files, kind \in {"missing", "unreachable"} :
       tree' = [tree EXCEPT ![given.cmd.files[i]] = [kind |-> kind, readable |-> FALSE, entries |-> {}]]
  /\ UNCHANGED <<given, disk, changed, stage, main, posted>>

\* A subdirectory goes with all that is within it.
RemoveEntry ==
  /\ stage \in Searching
  /\ Disturbed
  /\ \E p \in DOMAIN tree :
       /\ tree[p].kind = "directory"
       /\ \E e \in tree[p].entries :
            tree' = [tree EXCEPT ![p].entries = {d \in @ : d # e /\ e.id \notin d.within}]
  /\ UNCHANGED <<given, disk, changed, stage, main, posted>>

ChangeFile ==
  /\ stage \in {"walk", "enter", "list", "add", "post", "encode"}
  /\ Disturbed
  /\ \E i \in DOMAIN files, bytes \in Contents :
       /\ disk' = [disk EXCEPT ![files[i].id] = bytes]
       /\ changed' = changed \cup {files[i].id}
  /\ UNCHANGED <<given, tree, stage, main, posted>>

-----------------------------------------------------------------------------
(* The start of main.                                                       *)

KindOf == [p \in DOMAIN tree |-> tree[p].kind]

LoadConfig ==
  /\ stage = "start"
  /\ LET cmd == given.cmd
         conf == given.conf
     IN \/ Usage(cmd) /\ stage' = "exit1" /\ UNCHANGED cfg
        \/ ~Usage(cmd) /\ ~ConfigPath(cmd, conf) /\ stage' = "crashed" /\ UNCHANGED cfg
        \/ /\ ~Usage(cmd) /\ ConfigPath(cmd, conf)
           /\ ~Accepts(cmd, conf, KindOf) \/ Subject(cmd) = None
           /\ stage' = "exit1" /\ UNCHANGED cfg
        \/ /\ ~Usage(cmd) /\ ConfigPath(cmd, conf)
           /\ Accepts(cmd, conf, KindOf) /\ Subject(cmd) # None
           /\ stage' = IF cmd.output = "unreachable" THEN "crashed" ELSE "walk"
           /\ cfg' = ProgConfig(cmd, conf)
  /\ UNCHANGED <<world, disturbed, walked, todo, found, files, position, part, encoder, posted>>

\* Defect: what is left after the last whole part is forgotten.
NumWholeParts(size) == size \div cfg.article_size

NumParts(size) ==
  (size \div cfg.article_size) + IF size % cfg.article_size = 0 THEN 0 ELSE 1

\* The constructor of yencgenerator: the size is read once.
Opened(entry) ==
  LET size == Len(disk[entry.id])
  IN [id |-> entry.id, size |-> size, parts |-> NumParts(size), good |-> TRUE]

\* The next named path: a directory is entered, a file is taken, anything else passed
\* over, and a status that cannot be had throws.
NextPath ==
  /\ stage = "walk"
  /\ walked < Len(cfg.files)
  /\ walked' = walked + 1
  /\ LET p == tree[cfg.files[walked + 1]]
     IN \/ p.kind = "unreachable" /\ stage' = "crashed" /\ UNCHANGED found
        \/ p.kind = "directory" /\ stage' = "enter" /\ UNCHANGED found
        \/ p.kind = "file" /\ stage' = "add" /\ found' \in p.entries
        \/ p.kind \in {"missing", "other"} /\ UNCHANGED <<stage, found>>
  /\ UNCHANGED <<world, disturbed, cfg, todo, files, position, part, encoder, posted>>

UnderWay == tree[cfg.files[walked]]

\* The iterator throws if the directory has gone since, or cannot be listed.
EnterDirectory ==
  /\ stage = "enter"
  /\ LET listable == UnderWay.kind = "directory" /\ UnderWay.readable
     IN \/ listable /\ todo' = UnderWay.entries /\ stage' = "list"
        \/ ~listable /\ UNCHANGED todo /\ stage' = "crashed"
  /\ UNCHANGED <<world, disturbed, cfg, walked, found, files, position, part, encoder, posted>>

\* Defect: what is neither a file nor a directory throws too.
ThrowsIfSpecial(e) == e.kind = "other"

\* is_regular_file or the iterator's way into a subdirectory: one that has gone since it
\* was listed throws, as does what cannot be looked at.
Throws(e) ==
  IF e \in UnderWay.entries THEN e.kind # "file" /\ ~e.readable ELSE e.kind = "directory"

\* Defect: the walk over a directory ends at the first entry that is not a file.
LeftUnlessSpecial(e) == IF e.kind = "file" THEN todo \ {e} ELSE {}

LeftAfter(e) == todo \ {e}

\* The iterator shows the entries in whatever order, a subdirectory before what is within
\* it; what has gone it may pass over.
NextEntry ==
  /\ stage = "list"
  /\ \E e \in todo :
       /\ \A d \in todo : d.id \notin e.within
       /\ todo' = LeftAfter(e)
       /\ \/ Throws(e) /\ stage' = "crashed" /\ UNCHANGED found
          \/ e \in UnderWay.entries /\ e.kind = "file" /\ stage' = "add" /\ found' = e
          \/ e \notin UnderWay.entries /\ UNCHANGED <<stage, found>>
          \/ e.kind # "file" /\ ~Throws(e) /\ UNCHANGED <<stage, found>>
  /\ UNCHANGED <<world, disturbed, cfg, walked, files, position, part, encoder, posted>>

\* add_postitem.  A file that has gone since is_regular_file throws in yencgenerator or,
\* when add_file returns false for it, in the call of file_size; one that cannot be
\* opened throws; a division by an article size of 0 ends the program too.
AddPostitem ==
  /\ stage = "add"
  /\ LET opens == found \in UnderWay.entries /\ found.readable /\ cfg.article_size # 0
     IN \/ opens /\ files' = Append(files, Opened(found)) /\ stage' = "list"
        \/ ~opens /\ UNCHANGED files /\ stage' = "crashed"
  /\ UNCHANGED <<world, disturbed, setup, position, part, encoder, posted>>

PathDone ==
  /\ stage = "list"
  /\ todo = {}
  /\ stage' = "walk"
  /\ UNCHANGED <<world, disturbed, main, posted>>

Walk == NextPath \/ EnterDirectory \/ NextEntry \/ AddPostitem \/ PathDone

\* add_connections and start(): a negative number of connections or threads becomes
\* one that no memory suffices for.
StartPool ==
  /\ stage = "walk"
  /\ walked = Len(cfg.files)
  /\ stage' = IF cfg.io_threads < 0 \/ \E i \in DOMAIN cfg.connections : cfg.connections[i] < 0
              THEN "crashed" ELSE "post"
  /\ UNCHANGED <<world, disturbed, main, posted>>

-----------------------------------------------------------------------------
(* The loop over files and pieces.                                          *)

\* The next file begins, or one without parts is passed over.
NextFile ==
  /\ stage = "post"
  /\ file < Len(files)
  /\ piece = files[file + 1].parts
  /\ file' = file + 1 /\ piece' = 0
  /\ UNCHANGED <<world, disturbed, stage, setup, files, part, encoder, posted>>

Least(m, n) == IF m < n THEN m ELSE n

\* Defect: what is read is a byte more than a part has.
BytesReadOneMore(f, offset) ==
  IF f.good /\ offset < Len(disk[f.id]) THEN Least(cfg.article_size + 1, Len(disk[f.id]) - offset) ELSE 0

\* What seekg and read get of the article size: nothing beyond the end, and
\* nothing at all after a read that came short (failbit is not cleared).
BytesRead(f, offset) ==
  IF f.good /\ offset < Len(disk[f.id]) THEN Least(cfg.article_size, Len(disk[f.id]) - offset) ELSE 0

\* What ret.reserve asks for (buf.reserve, before it, for less).
Reserved == (3 * cfg.article_size) \div 2

\* get_part up to encode_block.
ReadPart ==
  /\ stage = "post"
  /\ file < Len(files)
  /\ piece < files[file + 1].parts
  /\ LET f == files[file + 1]
         offset == piece * cfg.article_size
         n == BytesRead(f, offset)
         data == SubSeq(disk[f.id], offset + 1, offset + n)
     IN \/ /\ Reserved > Memory
           /\ stage' = "crashed"
           /\ UNCHANGED <<part, files, input>>
        \/ /\ Reserved <= Memory
           /\ stage' = "encode"
           /\ part' = [file |-> file, piece |-> piece, total |-> f.parts, size |-> f.size,
                       begin |-> offset + 1, end |-> offset + n,
                       data |-> data]
           /\ input' = data
           /\ files' = [files EXCEPT ![file + 1].good = (f.good /\ n = cfg.article_size)]
  /\ UNCHANGED <<world, disturbed, setup, position, line, lines, posted>>

Token(text, number) == [text |-> text, number |-> number]
Mark(text) == Token(text, 0)

RunNonce == 0

\* get_usenet_message_id: <nonce.file.piece@domain>
MessageId(nonce, domain, f, p) ==
  <<Mark("<"), Token("nonce", nonce), Mark("."), Token("digits", f), Mark("."),
    Token("digits", p), Mark("@")>> \o domain \o <<Mark(">")>>

\* The keyword lines of a part: =ybegin, =ypart, =yend.
Keyword(n) == <<ESCAPE, KEYWORD, n>>

Payload(ls) == <<Keyword(1), Keyword(2)>> \o ls \o <<Keyword(3)>>

\* The bytes of some lines with their CRLFs.
Size(ls) == SumFunction([i \in DOMAIN ls |-> Len(ls[i]) + 2])

EncodePart ==
  /\ stage = "encode"
  /\ EncodeByte \/ EndLine
  /\ UNCHANGED <<world, disturbed, stage, setup, files, position, part, posted>>

\* A payload that outgrows what was reserved asks for twice as much.
OutgrowMemory ==
  /\ stage = "encode"
  /\ Size(Payload(lines)) > Reserved
  /\ 2 * Reserved > Memory
  /\ stage' = "crashed"
  /\ UNCHANGED <<world, disturbed, main, posted>>

Put(map, key, value) == [k \in DOMAIN map \cup {key} |-> IF k = key THEN value ELSE map[k]]

\* The part becomes the payload of an article that is enqueued.
EnqueueArticle ==
  /\ stage = "encode"
  /\ BlockEncoded
  /\ articles' = Append(articles,
       [part |-> part, payload |-> Payload(lines),
        msgid |-> MessageId(RunNonce, cfg.msgiddomain, file, piece)])
  /\ piece_sizes' = Put(piece_sizes, <<file, piece>>, Size(Payload(lines)))
  /\ piece' = piece + 1
  /\ lines' = <<>>
  /\ stage' = "post"
  /\ UNCHANGED <<world, disturbed, setup, files, file, part, input, line, exceptions, nzb>>

-----------------------------------------------------------------------------
(* The callback for a failed post, on an io thread.                         *)

IsDot(token) == token = Mark(".")

\* Defect: the file index is taken from behind the last dot but one.
KeyFromTheEnd(msgid) ==
  LET secondDot == SelectLastInSeq(msgid, IsDot)
      firstDot == SelectLastInSubSeq(msgid, 1, secondDot - 1, IsDot)
  IN <<msgid[firstDot + 1].number, msgid[secondDot + 1].number>>

\* get_key_from_message_id: the numbers behind the first two dots.
KeyFromMessageId(msgid) ==
  LET firstDot == SelectInSeq(msgid, IsDot)
      secondDot == SelectInSubSeq(msgid, firstDot + 1, Len(msgid), IsDot)
  IN <<msgid[firstDot + 1].number, msgid[secondDot + 1].number>>

Retry ==
  /\ stage \in {"post", "encode"}
  /\ Disturbed
  /\ \E i \in DOMAIN articles :
       LET key == KeyFromMessageId(articles[i].msgid)
           nonce == disturbed + 1
       IN /\ exceptions' = Put(exceptions, key, nonce)
          /\ articles' = [articles EXCEPT ![i].msgid = MessageId(nonce, cfg.msgiddomain, key[1], key[2])]
  /\ UNCHANGED <<world, stage, main, piece_sizes, nzb>>

-----------------------------------------------------------------------------
(* The end of main.                                                         *)

NonceOf(key) == IF key \in DOMAIN exceptions THEN exceptions[key] ELSE RunNonce

\* Every < and > is erased, those of a domain too.
Bare(msgid) == SelectSeq(msgid, LAMBDA token : token \notin {Mark("<"), Mark(">")})

\* write_nzb: the segments of each file.
Segments(f) ==
  [p \in 1..files[f].parts |->
     [bytes |-> piece_sizes[<<f - 1, p - 1>>], number |-> p,
      msgid |-> Bare(MessageId(NonceOf(<<f - 1, p - 1>>), cfg.msgiddomain, f - 1, p - 1))]]

\* join() has returned.  There is no nzb file if none was asked for, if it cannot be
\* opened, or if commands are left.
End ==
  /\ stage = "post"
  /\ file = Len(files)
  /\ stage' = "done"
  /\ nzb' \in {None, [f \in DOMAIN files |-> Segments(f)]}
  /\ UNCHANGED <<world, disturbed, main, piece_sizes, articles, exceptions>>

Ended == stage \in {"exit1", "crashed", "done"} /\ UNCHANGED vars

Next ==
  \/ RemovePath \/ RemoveEntry \/ ChangeFile
  \/ LoadConfig \/ Walk \/ StartPool
  \/ NextFile \/ ReadPart \/ EncodePart \/ OutgrowMemory \/ EnqueueArticle
  \/ Retry
  \/ End
  \/ Ended

Spec == Init /\ [][Next]_vars

-----------------------------------------------------------------------------
(* What becomes of an article outside.                                      *)

\* send_article: header, empty line, payload and the end of the message.
HeaderLines == <<<<72>>>>

Message(article) == HeaderLines \o <<<<>>>> \o article.payload \o <<<<>>, <<DOT>>>>

\* A server takes lines up to the first that is a single dot (dummy_server.cc).
LinesTaken(message) == SelectInSeq(message, LAMBDA l : l = <<DOT>>)

\* The members of I up to n, in ascending order, and what is at those positions of a
\* sequence (SelectSeq, of which the provers know no definition).
InOrder(I, n) ==
  LET upto[i \in 0..n] ==
        IF i = 0 THEN <<>> ELSE IF i \in I THEN Append(upto[i - 1], i) ELSE upto[i - 1]
  IN upto[n]

Chosen(s, I) == LET order == InOrder(I, Len(s)) IN [i \in DOMAIN order |-> s[order[i]]]

IsKeywordLine(l) == Len(l) > 1 /\ l[1] = ESCAPE /\ l[2] = KEYWORD

\* A reader decodes the lines between the keyword lines.
KeywordLines(article) ==
  Chosen(article.payload, {i \in DOMAIN article.payload : IsKeywordLine(article.payload[i])})

DataLines(article) == SubSeq(article.payload, 3, Len(article.payload) - 1)

Restored(article) == LET ls == DataLines(article) IN FlattenSeq([i \in DOMAIN ls |-> Decoded(ls[i])])

ArticlesOf(f) == Chosen(articles, {i \in DOMAIN articles : articles[i].part.file = f})

-----------------------------------------------------------------------------
(* Properties.                                                              *)

\* Every variable that has a type of its own has it.
ArticlesTypeOK ==
  /\ stage \in Searching \cup {"post", "encode", "done", "exit1", "crashed"}
  /\ file \in Nat /\ piece \in Nat /\ walked \in Nat /\ disturbed \in Nat
  /\ input \in Seq(Byte) /\ line \in Seq(Byte) /\ lines \in Seq(Seq(Byte))
  /\ cfg # None => cfg.article_size \in 0..(SizeT - 1)
  /\ todo # {} => todo \subseteq given.tree[cfg.files[walked]].entries
  /\ \A i \in DOMAIN files : files[i].size \in Nat /\ files[i].parts \in Nat /\ files[i].good \in BOOLEAN

\* Whatever the bytes of the file, no line of an article means something to a server
\* or a transport, and all but the last of a part are full, with no blank at their
\* end (yenc.cc:7-18, yenc.hpp:21-49).
LinesAreSafe ==
  /\ \A i \in DOMAIN lines : Harmless(lines[i])
  /\ \A i \in DOMAIN lines : Full(lines[i]) \/ (i = Len(lines) /\ BlockEncoded)

\* A server takes the whole article that connection::send_article writes without
\* doubling dots (connection.cc:324-327), and a reader finds the three keyword
\* lines and no others (yencgenerator.cc:50-83).
ArticlesArriveWhole ==
  \A i \in DOMAIN articles :
    /\ LinesTaken(Message(articles[i])) = Len(Message(articles[i]))
    /\ KeywordLines(articles[i]) = <<Keyword(1), Keyword(2), Keyword(3)>>

\* What is decoded from an article is what its keyword lines say: as many bytes as
\* =ypart has room for and =yend counts, with the checksum of what was read from the
\* file, even if the file changes meanwhile (yencgenerator.cc:44-83).
ArticlesDecode ==
  \A i \in DOMAIN articles :
    LET p == articles[i].part
    IN Restored(articles[i]) = p.data /\ Len(p.data) = p.end - p.begin + 1

\* Two articles of a file never claim the same byte of it, even if the file grows or
\* shrinks while it is posted (yencgenerator.cc:38-58).
PartsDoNotOverlap ==
  \A i, j \in DOMAIN articles :
    LET p == articles[i].part
        q == articles[j].part
    IN i < j /\ p.file = q.file => p.end < q.begin

\* A reader who puts the parts of a file together gets the file, if it did not change
\* while it was posted; and the parts are as many as =ybegin says (fileset.cc:59-68).
FilesAreRestored ==
  \A f \in 1..file :
    files[f].id \notin changed =>
      LET as == ArticlesOf(f - 1)
      IN /\ FlattenSeq([i \in DOMAIN as |-> Restored(as[i])]) = disk[files[f].id]
         /\ \A i \in DOMAIN as : as[i].part.total = Len(as)

\* The nzb file lists the articles of each file in order, under the ids they have after
\* all retries, but for angle brackets, and with the size of their payload (main.cc:67-82
\* against 251-255).
NzbListsArticles ==
  nzb # None =>
    \A f \in DOMAIN files :
      LET as == ArticlesOf(f - 1)
      IN nzb[f] = [i \in DOMAIN as |-> [bytes |-> Size(as[i].payload), number |-> i, msgid |-> Bare(as[i].msgid)]]

\* Every regular file under a named path that nobody removed is posted: the program does
\* not get past the walk without it, whatever else goes meanwhile (main.cc:134-154,
\* fileset.cc:11-19).
NothingLeftOut ==
  stage = "done" =>
    \A i \in DOMAIN cfg.files :
      \A e \in tree[cfg.files[i]].entries :
        e.kind = "file" => \E f \in DOMAIN files : files[f].id = e.id

Unreadable(p) == ~p.readable \/ \E e \in p.entries : ~e.readable

\* Nothing ends the program by a signal or an exception that nobody catches, except for:
\* no HOME, a path to the configuration or for the nzb file whose status cannot be had
\* (program_config.cc:213, 221, main.cc:118); the numbers that nothing checks, an article
\* size of 0 or of more than memory is there for, a negative number of connections or
\* threads (program_config.cc:77-81, 102, 126-131); and a path under way that has
\* something unreadable in it or has lost something since the program began
\* (main.cc:131-146, yencgenerator.cc:9-22).
CrashesAreExplained ==
  stage = "crashed" =>
    \/ NoHome(given.cmd) \/ ~given.conf.reachable \/ given.cmd.output = "unreachable"
    \/ cfg.article_size = 0 \/ 2 * Reserved > Memory
    \/ cfg.io_threads < 0 \/ \E i \in DOMAIN cfg.connections : cfg.connections[i] < 0
    \/ /\ walked > 0
       /\ LET p == given.tree[cfg.files[walked]] IN Unreadable(p) \/ UnderWay # p

\* "TAB/SPACE at the start/end of line are critical" (yenc.cc:9-10): a transport may
\* cut them off, so none is written there as it is.
BlanksAreEscaped ==
  \A i \in DOMAIN lines :
    lines[i][1] \notin {SPACE, TAB} /\ lines[i][Len(lines[i])] \notin {SPACE, TAB}
=============================================================================

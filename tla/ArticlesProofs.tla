--------------------------- MODULE ArticlesProofs ---------------------------
(***************************************************************************)
(* Theorems about the encoder of module Yenc and the articles that module  *)
(* Articles makes of its lines, for files of any bytes and any length,     *)
(* which may change at any time.                                           *)
(***************************************************************************)
EXTENDS Articles, FiniteSetTheorems, TLAPS

-----------------------------------------------------------------------------
(* The encoder.                                                             *)

\* One byte becomes a character that needs no escaping where it stands, or '=' and
\* one of seven characters that mean nothing to anybody.
LEMMA EncodedByte ==
  ASSUME NEW b \in Byte, NEW pos \in Nat
  PROVE  \/ \E c \in Byte :
              /\ Encoded(b, pos) = <<c>>
              /\ c \notin {NUL, LF, CR, ESCAPE}
              /\ pos = 0 => c \notin {SPACE, TAB, DOT}
              /\ pos = LineLength - 1 => c \notin {SPACE, TAB}
         \/ \E c \in {64, 73, 74, 77, 96, 110, 125} : Encoded(b, pos) = <<ESCAPE, c>>
<1> DEFINE c == Shifted(b)
<1>1. c \in Byte
  BY DEF Shifted, Byte
<1>2. CASE NeedsEscaping(c, pos)
  <2>1. c \in {NUL, CR, LF, ESCAPE, SPACE, TAB, DOT}
    BY <1>2 DEF NeedsEscaping
  <2>2. (c + 64) % 256 \in {64, 73, 74, 77, 96, 110, 125}
    BY <2>1 DEF NUL, CR, LF, ESCAPE, SPACE, TAB, DOT
  <2>3. Encoded(b, pos) = <<ESCAPE, (c + 64) % 256>>
    BY <1>2 DEF Encoded
  <2> QED
    BY <2>2, <2>3
<1>3. CASE ~NeedsEscaping(c, pos)
  BY <1>1, <1>3 DEF Encoded, NeedsEscaping
<1> QED
  BY <1>2, <1>3

\* What holds of a line while it is written.
SafeSoFar(l) ==
  /\ l \in Seq(Byte)
  /\ l # <<>> => Harmless(l)
  /\ Len(l) = 1 => l[1] # ESCAPE
  /\ Len(l) <= LineLength + 1
  /\ Len(l) >= LineLength => l[Len(l)] \notin {SPACE, TAB}

LEMMA CharactersDiffer ==
  /\ NUL = 0 /\ TAB = 9 /\ LF = 10 /\ CR = 13 /\ SPACE = 32 /\ DOT = 46 /\ ESCAPE = 61 /\ KEYWORD = 121
  /\ LineLength \in Nat \ {0} /\ Byte = 0..255
  BY LineAssumption DEF NUL, TAB, LF, CR, SPACE, DOT, ESCAPE, KEYWORD, Byte

LEMMA LineGrows ==
  ASSUME NEW l, SafeSoFar(l), Len(l) < LineLength, NEW b \in Byte
  PROVE  SafeSoFar(l \o Encoded(b, Len(l)))
<1>1. l \in Seq(Byte) /\ Len(l) \in Nat
  BY DEF SafeSoFar
<1>2. ASSUME NEW c \in Byte, Encoded(b, Len(l)) = <<c>>, c \notin {NUL, LF, CR, ESCAPE},
             Len(l) = 0 => c \notin {SPACE, TAB, DOT}, Len(l) = LineLength - 1 => c \notin {SPACE, TAB}
      PROVE  SafeSoFar(l \o Encoded(b, Len(l)))
  <2> DEFINE m == l \o <<c>>
  <2>1. /\ m \in Seq(Byte) /\ Len(m) = Len(l) + 1 /\ m[Len(m)] = c
        /\ \A i \in 1..Len(l) : m[i] = l[i]
    BY <1>1
  <2> HIDE DEF m
  <2>2. Harmless(m)
    <3>1. m # <<>>
      BY <1>1, <2>1
    <3>2. \A i \in 1..Len(m) : m[i] \notin {NUL, LF, CR}
      BY <1>1, <1>2, <2>1 DEF SafeSoFar, Harmless
    <3>3. m[1] \notin {DOT, SPACE, TAB}
      BY <1>1, <1>2, <2>1 DEF SafeSoFar, Harmless
    <3>4. m[1] = ESCAPE /\ Len(m) > 1 => m[2] # KEYWORD
      <4>1. CASE Len(l) = 0
        BY <1>1, <2>1, <4>1
      <4>2. CASE Len(l) = 1
        BY <1>1, <2>1, <4>2 DEF SafeSoFar
      <4>3. CASE Len(l) > 1
        BY <1>1, <2>1, <4>3 DEF SafeSoFar, Harmless
      <4>4. \A n \in Nat : n = 0 \/ n = 1 \/ n > 1
        OBVIOUS
      <4> QED
        BY <1>1, <4>1, <4>2, <4>3, <4>4
    <3> QED
      BY <3>1, <3>2, <3>3, <3>4 DEF Harmless
  <2>3. /\ Len(m) <= LineLength + 1
        /\ Len(m) >= LineLength => m[Len(m)] \notin {SPACE, TAB}
        /\ Len(m) = 1 => m[1] # ESCAPE
    BY <1>1, <1>2, <2>1, CharactersDiffer
  <2>4. SafeSoFar(m)
    BY <2>1, <2>2, <2>3 DEF SafeSoFar
  <2> QED
    BY <1>2, <2>4 DEF m
<1>3. ASSUME NEW c \in {64, 73, 74, 77, 96, 110, 125}, Encoded(b, Len(l)) = <<ESCAPE, c>>
      PROVE  SafeSoFar(l \o Encoded(b, Len(l)))
  <2> DEFINE m == l \o <<ESCAPE, c>>
  <2>1. /\ m \in Seq(Byte) /\ Len(m) = Len(l) + 2 /\ m[Len(m)] = c /\ m[Len(l) + 1] = ESCAPE
        /\ \A i \in 1..Len(l) : m[i] = l[i]
    BY <1>1, CharactersDiffer
  <2> HIDE DEF m
  <2>2. Harmless(m)
    <3>1. m # <<>>
      BY <1>1, <2>1
    <3>2. \A i \in 1..Len(m) : m[i] \notin {NUL, LF, CR}
      <4>1. ASSUME NEW i \in 1..Len(l) PROVE m[i] \notin {NUL, LF, CR}
        <5>1. l # <<>>
          BY <1>1
        <5> QED
          BY <2>1, <4>1, <5>1 DEF SafeSoFar, Harmless
      <4>2. m[Len(l) + 1] \notin {NUL, LF, CR} /\ m[Len(l) + 2] \notin {NUL, LF, CR}
        BY <1>3, <2>1, CharactersDiffer
      <4>3. \A i \in 1..Len(m) : i \in 1..Len(l) \/ i = Len(l) + 1 \/ i = Len(l) + 2
        BY <1>1, <2>1
      <4> QED
        BY <4>1, <4>2, <4>3
    <3>3. m[1] \notin {DOT, SPACE, TAB}
      <4>1. CASE l = <<>>
        BY <1>1, <2>1, <4>1, CharactersDiffer
      <4>2. CASE l # <<>>
        BY <1>1, <2>1, <4>2 DEF SafeSoFar, Harmless
      <4> QED
        BY <4>1, <4>2
    <3>4. m[1] = ESCAPE /\ Len(m) > 1 => m[2] # KEYWORD
      <4>1. CASE Len(l) = 0
        BY <1>3, <2>1, <4>1, CharactersDiffer
      <4>2. CASE Len(l) = 1
        BY <1>1, <2>1, <4>2, CharactersDiffer
      <4>3. CASE Len(l) > 1
        BY <1>1, <2>1, <4>3 DEF SafeSoFar, Harmless
      <4>4. \A n \in Nat : n = 0 \/ n = 1 \/ n > 1
        OBVIOUS
      <4> QED
        BY <1>1, <4>1, <4>2, <4>3, <4>4
    <3> QED
      BY <3>1, <3>2, <3>3, <3>4 DEF Harmless
  <2>3. Len(m) <= LineLength + 1 /\ m[Len(m)] \notin {SPACE, TAB} /\ Len(m) # 1
    BY <1>1, <1>3, <2>1, CharactersDiffer
  <2>4. SafeSoFar(m)
    BY <2>1, <2>2, <2>3 DEF SafeSoFar
  <2> QED
    BY <1>3, <2>4 DEF m
<1> QED
  BY <1>1, <1>2, <1>3, EncodedByte

-----------------------------------------------------------------------------
(* Types.                                                                   *)

FileRecord == [id : DOMAIN given.disk, size : Nat, parts : Nat, good : BOOLEAN]

\* Nothing appears under a path, what is not a directory has gone as a whole or not at all,
\* and every file keeps to bytes.
WorldInv ==
  /\ given \in Inputs
  /\ DOMAIN tree = DOMAIN given.tree
  /\ \A p \in DOMAIN tree :
       /\ tree[p].entries \subseteq given.tree[p].entries
       /\ tree[p].kind \in {given.tree[p].kind, "missing", "unreachable"}
       /\ tree[p].kind = "file" => \E e \in tree[p].entries : e.kind = "file" /\ tree[p].entries = {e}
       /\ tree[p].kind \notin {"file", "directory"} => tree[p].entries = {}
  /\ DOMAIN disk = DOMAIN given.disk
  /\ \A id \in DOMAIN disk : disk[id] \in Seq(Byte)

Walking == {"walk", "enter", "list", "add"}

Stages == {"start", "post", "encode", "done", "exit1", "crashed"} \cup Walking

Running == {"post", "encode", "done"} \cup Walking

MainInv ==
  /\ stage \in Stages
  /\ file \in Nat /\ piece \in Nat /\ walked \in Nat /\ disturbed \in Nat
  /\ stage \in Running \/ cfg # None => cfg.article_size \in 0..(SizeT - 1) /\ cfg.files = given.cmd.files
  /\ files \in Seq(FileRecord)

\* What the walk has at hand is from the path under way.
SearchInv ==
  /\ stage \in {"enter", "list", "add"} => walked \in 1..Len(cfg.files)
  /\ stage = "enter" => given.tree[cfg.files[walked]].kind = "directory"
  /\ stage \notin {"list", "add", "crashed"} => todo = {}
  /\ todo # {} => todo \subseteq given.tree[cfg.files[walked]].entries
  /\ stage = "add" => found \in given.tree[cfg.files[walked]].entries /\ found.kind = "file"

\* Between two parts there is nothing in the encoder.
EncoderInv ==
  /\ input \in Seq(Byte) /\ lines \in Seq(Seq(Byte))
  /\ SafeSoFar(line)
  /\ stage # "encode" /\ stage # "crashed" => input = <<>> /\ line = <<>> /\ lines = <<>>

TypeInv == WorldInv /\ MainInv /\ SearchInv /\ EncoderInv

LEMMA InitTypes == Init => TypeInv
<1> SUFFICES ASSUME Init PROVE TypeInv
  OBVIOUS
<1>1. WorldInv
  BY InputAssumption DEF Init, WorldInv
<1>2. MainInv
  BY DEF Init, MainInv, Stages, Running, Walking
<1>3. SearchInv
  BY DEF Init, SearchInv
<1>4. EncoderInv
  BY CharactersDiffer DEF Init, EncoderInv, SafeSoFar
<1> QED
  BY <1>1, <1>2, <1>3, <1>4 DEF TypeInv

\* What a step of the walk may change.
LEMMA WalkMoves ==
  ASSUME Walk
  PROVE  /\ stage \in Walking /\ stage' \in Walking \cup {"crashed"}
         /\ UNCHANGED <<world, disturbed, cfg, position, part, encoder, posted>>
         /\ walked' = walked \/ (NextPath /\ walked' = walked + 1)
         /\ files' = files \/ (AddPostitem /\ files' = Append(files, Opened(found)))
  BY DEF Walk, NextPath, EnterDirectory, NextEntry, AddPostitem, PathDone, Walking, main, setup

\* The file system changes only where RemovePath, RemoveEntry and ChangeFile say.
LEMMA WorldStep == ASSUME TypeInv, [Next]_vars PROVE WorldInv' /\ given' = given
<1> USE DEF TypeInv
<1>1. CASE UNCHANGED world
  BY <1>1 DEF WorldInv, world
<1>2. CASE RemovePath
  BY <1>2 DEF RemovePath, WorldInv
<1>3. CASE RemoveEntry
  BY <1>3 DEF RemoveEntry, WorldInv
<1>4. CASE ChangeFile
  <2>1. PICK i \in DOMAIN files, bytes \in Contents : disk' = [disk EXCEPT ![files[i].id] = bytes]
    BY <1>4 DEF ChangeFile
  <2>2. bytes \in Seq(Byte)
    BY InputAssumption
  <2> QED
    BY <1>4, <2>1, <2>2 DEF ChangeFile, WorldInv
<1>5. RemovePath \/ RemoveEntry \/ ChangeFile \/ UNCHANGED world
  BY WalkMoves DEF Next, LoadConfig, StartPool, NextFile, ReadPart, EncodePart, OutgrowMemory, EnqueueArticle,
                   Retry, End, Ended, vars
<1> QED
  BY <1>1, <1>2, <1>3, <1>4, <1>5 DEF RemovePath, RemoveEntry, ChangeFile, world

\* main looks at one of the named paths.
LEMMA PathUnderWay ==
  ASSUME TypeInv, stage \in Walking, NEW i \in 1..Len(cfg.files)
  PROVE  cfg.files[i] \in DOMAIN tree /\ cfg.files[i] \in DOMAIN given.tree
<1>1. given.cmd.files \in Seq(DOMAIN given.tree)
  BY InputAssumption DEF TypeInv, WorldInv
<1>2. cfg.files \in Seq(DOMAIN given.tree)
  BY <1>1 DEF TypeInv, MainInv, Running
<1> QED
  BY <1>2 DEF TypeInv, WorldInv

LEMMA OpenedIsARecord ==
  ASSUME TypeInv, AddPostitem, stage' = "list"
  PROVE  Opened(found) \in FileRecord /\ files' = Append(files, Opened(found))
         /\ cfg.article_size \in Nat \ {0}
<1>1. stage = "add" /\ files' = Append(files, Opened(found)) /\ cfg.article_size # 0
  BY DEF AddPostitem
<1>2. walked \in 1..Len(cfg.files)
  BY <1>1 DEF TypeInv, SearchInv
<1> PICK p : p = cfg.files[walked]
  OBVIOUS
<1>3. p \in DOMAIN given.tree /\ found \in given.tree[p].entries /\ found.kind = "file"
  BY <1>1, <1>2, PathUnderWay DEF TypeInv, SearchInv, Walking
<1>4. found.id \in DOMAIN given.disk /\ found.id \in DOMAIN disk
  BY <1>3, InputAssumption DEF TypeInv, WorldInv
<1>5. Len(disk[found.id]) \in Nat
  BY <1>4 DEF TypeInv, WorldInv
<1>6. cfg.article_size \in Nat \ {0}
  BY <1>1, SizeAssumption DEF TypeInv, MainInv, Running, Walking
<1>7. \A n \in Nat : NumParts(n) \in Nat
  <2>1. \A n \in Nat, a \in Nat \ {0} : n \div a \in Nat
    OBVIOUS
  <2> QED
    BY <1>6, <2>1 DEF NumParts
<1> QED
  BY <1>1, <1>4, <1>5, <1>6, <1>7 DEF Opened, FileRecord

LEMMA MainStep == ASSUME TypeInv, [Next]_vars PROVE MainInv'
<1> USE DEF TypeInv
<1>1. given' = given /\ FileRecord' = FileRecord /\ given \in Inputs
  BY WorldStep DEF FileRecord, WorldInv
<1>2. CASE UNCHANGED <<stage, main>> /\ disturbed' \in Nat
  BY <1>1, <1>2 DEF MainInv, main, setup, position
<1>3. CASE RemovePath \/ RemoveEntry \/ ChangeFile \/ Retry
  BY <1>2, <1>3 DEF RemovePath, RemoveEntry, ChangeFile, Retry, Disturbed, MainInv
<1>4. CASE LoadConfig
  <2>1. UNCHANGED <<files, file, piece, walked, disturbed>>
    BY <1>4 DEF LoadConfig, position
  <2>2. CASE cfg' = cfg /\ stage' \in {"exit1", "crashed"}
    BY <1>1, <2>1, <2>2 DEF MainInv, Stages, Running, Walking
  <2>3. CASE ~(cfg' = cfg /\ stage' \in {"exit1", "crashed"})
    <3>1. /\ stage' \in {"walk", "crashed"} /\ Accepts(given.cmd, given.conf, KindOf)
          /\ cfg' = ProgConfig(given.cmd, given.conf)
      BY <1>4, <2>3 DEF LoadConfig
    <3>2. {given.cmd.articlesize, given.conf.ArticleSize} \subseteq Int \cup {None}
      BY <1>1, InputAssumption
    <3>3. given.conf.ArticleSize # None
      BY <3>1 DEF Accepts, FileReads, HasNumber
    <3>4. ArticleSize(given.cmd, given.conf) \in 0..(SizeT - 1)
      BY <3>2, <3>3, SizeAssumption DEF ArticleSize
    <3>5. cfg'.article_size \in 0..(SizeT - 1) /\ cfg'.files = given.cmd.files
      BY <3>1, <3>4 DEF ProgConfig
    <3> QED
      BY <1>1, <2>1, <3>1, <3>5, SizeAssumption DEF MainInv, Stages, Walking
  <2> QED
    BY <2>2, <2>3
<1>5. CASE Walk
  <2>1. /\ stage \in Walking /\ stage' \in Walking \cup {"crashed"}
        /\ UNCHANGED <<cfg, file, piece, disturbed>> /\ walked' \in Nat
    BY <1>5, WalkMoves DEF position, MainInv
  <2>2. files' \in Seq(FileRecord)
    <3>1. CASE files' = files
      BY <3>1 DEF MainInv
    <3>2. CASE files' # files
      <4>1. AddPostitem /\ stage' = "list"
        BY <1>5, <3>2, WalkMoves DEF AddPostitem
      <4> QED
        BY <4>1, OpenedIsARecord DEF MainInv
    <3> QED
      BY <3>1, <3>2
  <2> QED
    BY <1>1, <2>1, <2>2 DEF MainInv, Stages, Running, Walking
<1>6. CASE StartPool \/ OutgrowMemory
  BY <1>1, <1>6 DEF StartPool, OutgrowMemory, MainInv, Stages, Running, Walking, main, setup, position
<1>7. CASE NextFile
  BY <1>1, <1>7 DEF NextFile, MainInv, setup
<1>8. CASE ReadPart
  <2>1. stage = "post" /\ UNCHANGED <<cfg, walked, file, piece, disturbed>> /\ stage' \in {"encode", "crashed"}
    BY <1>8 DEF ReadPart, setup, position
  <2>2. files' \in Seq(FileRecord)
    <3>1. ASSUME file + 1 \in 1..Len(files), NEW b \in BOOLEAN
          PROVE  [files EXCEPT ![file + 1].good = b] \in Seq(FileRecord)
      <4> DEFINE r == [files[file + 1] EXCEPT !.good = b]
      <4>1. files \in Seq(FileRecord) /\ files[file + 1] \in FileRecord
        BY <3>1 DEF MainInv
      <4>2. r \in FileRecord
        BY <4>1 DEF FileRecord
      <4> HIDE DEF r
      <4>3. [files EXCEPT ![file + 1] = r] \in Seq(FileRecord)
        BY <3>1, <4>1, <4>2
      <4>4. [files EXCEPT ![file + 1].good = b] = [files EXCEPT ![file + 1] = r]
        BY DEF r
      <4> QED
        BY <4>3, <4>4
    <3>2. CASE UNCHANGED files
      BY <3>2 DEF MainInv
    <3>3. CASE ~UNCHANGED files
      <4>1. file + 1 \in 1..Len(files) /\ files[file + 1] \in FileRecord
        BY <1>8 DEF ReadPart, MainInv
      <4>2. PICK n : files' = [files EXCEPT ![file + 1].good = (files[file + 1].good /\ n = cfg.article_size)]
        BY <1>8, <3>3 DEF ReadPart
      <4>3. (files[file + 1].good /\ n = cfg.article_size) \in BOOLEAN
        BY <4>1 DEF FileRecord
      <4> QED
        BY <3>1, <4>1, <4>2, <4>3
    <3> QED
      BY <3>2, <3>3
  <2> QED
    BY <1>1, <2>1, <2>2 DEF MainInv, Stages, Running, Walking
<1>9. CASE EncodePart
  BY <1>1, <1>9 DEF EncodePart, MainInv, setup, position
<1>10. CASE EnqueueArticle
  BY <1>1, <1>10 DEF EnqueueArticle, MainInv, Stages, Running, Walking, setup
<1>11. CASE End
  BY <1>1, <1>11 DEF End, MainInv, Stages, Running, Walking, main, setup, position
<1>12. CASE Ended \/ UNCHANGED vars
  BY <1>2, <1>12 DEF Ended, vars, MainInv
<1> QED
  BY <1>3, <1>4, <1>5, <1>6, <1>7, <1>8, <1>9, <1>10, <1>11, <1>12 DEF Next

\* What is still to be shown is from the path under way.
LEMMA SearchStep == ASSUME TypeInv, [Next]_vars PROVE SearchInv'
<1> USE DEF TypeInv
<1>1. given' = given
  BY WorldStep
<1>2. CASE UNCHANGED <<cfg, walked, todo, found>> /\ (stage' = stage \/ stage' = "crashed")
  BY <1>1, <1>2 DEF SearchInv
<1>3. CASE RemovePath \/ RemoveEntry \/ ChangeFile \/ Retry \/ NextFile \/ EncodePart \/ OutgrowMemory \/ Ended
           \/ UNCHANGED vars
  BY <1>2, <1>3 DEF RemovePath, RemoveEntry, ChangeFile, Retry, NextFile, EncodePart, OutgrowMemory, Ended,
       vars, main,
                    setup
<1>4. CASE StartPool \/ ReadPart \/ EnqueueArticle \/ End
  BY <1>4 DEF StartPool, ReadPart, EnqueueArticle, End, SearchInv, main, setup
<1>5. CASE LoadConfig
  BY <1>5 DEF LoadConfig, SearchInv
<1>6. CASE NextPath
  <2>1. /\ stage = "walk" /\ walked < Len(cfg.files) /\ walked' = walked + 1 /\ UNCHANGED <<cfg, todo>>
        /\ stage' \in {"walk", "enter", "add", "crashed"}
    BY <1>6 DEF NextPath
  <2>2. cfg.files \in Seq(DOMAIN given.tree)
    BY <2>1, InputAssumption DEF WorldInv, MainInv, Running, Walking
  <2>3. walked' \in 1..Len(cfg'.files)
    BY <2>1, <2>2 DEF MainInv
  <2>4. ASSUME stage' = "add"
        PROVE  found' \in given.tree[cfg.files[walked']].entries /\ found'.kind = "file"
    <3>1. tree[cfg.files[walked + 1]].kind = "file" /\ found' \in tree[cfg.files[walked + 1]].entries
      BY <1>6, <2>4 DEF NextPath
    <3>2. cfg.files[walked + 1] \in DOMAIN tree
      BY <2>1, <2>3, PathUnderWay DEF Walking
    <3> QED
      BY <2>1, <3>1, <3>2 DEF WorldInv
  <2>5. ASSUME stage' = "enter" PROVE given.tree[cfg.files[walked']].kind = "directory"
    <3>1. tree[cfg.files[walked + 1]].kind = "directory"
      BY <1>6, <2>5 DEF NextPath
    <3>2. cfg.files[walked + 1] \in DOMAIN tree
      BY <2>1, <2>3, PathUnderWay DEF Walking
    <3> QED
      BY <2>1, <3>1, <3>2 DEF WorldInv
  <2> QED
    BY <1>1, <2>1, <2>3, <2>4, <2>5 DEF SearchInv
<1>7. CASE EnterDirectory
  <2>1. stage = "enter" /\ UNCHANGED <<cfg, walked>> /\ stage' \in {"list", "crashed"}
        /\ todo' \in {todo, tree[cfg.files[walked]].entries}
    BY <1>7 DEF EnterDirectory, UnderWay
  <2>2. cfg.files[walked] \in DOMAIN tree
    BY <2>1, PathUnderWay DEF SearchInv, Walking
  <2> QED
    BY <1>1, <2>1, <2>2 DEF SearchInv, WorldInv
<1>8. CASE NextEntry
  <2>1. /\ stage = "list" /\ UNCHANGED <<cfg, walked>> /\ stage' \in {"list", "add", "crashed"} /\ todo # {}
        /\ todo' \subseteq todo
        /\ stage' = "add" => found' \in todo /\ found'.kind = "file"
    BY <1>8 DEF NextEntry, LeftAfter
  <2> QED
    BY <1>1, <2>1 DEF SearchInv
<1>9. CASE AddPostitem
  BY <1>1, <1>9 DEF AddPostitem, SearchInv, setup
<1>10. CASE PathDone
  BY <1>1, <1>10 DEF PathDone, SearchInv, main, setup
<1> QED
  BY <1>3, <1>4, <1>5, <1>6, <1>7, <1>8, <1>9, <1>10 DEF Next, Walk

\* The encoder gets only bytes, and only when it has none left.
LEMMA EncoderStep == ASSUME TypeInv, [Next]_vars PROVE EncoderInv'
<1> USE DEF TypeInv
<1>1. CASE EncodePart
  <2>1. stage = "encode" /\ stage' = stage
    BY <1>1 DEF EncodePart
  <2>2. CASE EncodeByte
    <3>1. Head(input) \in Byte /\ Tail(input) \in Seq(Byte)
      BY <2>2 DEF EncodeByte, EncoderInv
    <3>2. SafeSoFar(line \o Encoded(Head(input), Len(line)))
      BY <2>2, <3>1, LineGrows DEF EncodeByte, EncoderInv
    <3> QED
      BY <2>1, <2>2, <3>1, <3>2 DEF EncodeByte, EncoderInv, SafeSoFar
  <2>3. CASE EndLine
    BY <2>1, <2>3, CharactersDiffer DEF EndLine, EncoderInv, SafeSoFar
  <2> QED
    BY <1>1, <2>2, <2>3 DEF EncodePart
<1>2. CASE ReadPart
  <2>1. stage = "post" /\ UNCHANGED <<line, lines>>
    BY <1>2 DEF ReadPart
  <2>2. CASE UNCHANGED input
    BY <1>2, <2>1, <2>2 DEF ReadPart, EncoderInv, SafeSoFar, Harmless
  <2>3. CASE ~UNCHANGED input
    <3> DEFINE f == files[file + 1]
    <3>1. stage' = "encode"
      BY <1>2, <2>3 DEF ReadPart
    <3>2. PICK m, n : input' = SubSeq(disk[f.id], m + 1, m + n) /\ m = piece * cfg.article_size
                      /\ n = BytesRead(f, m)
      BY <1>2, <2>3 DEF ReadPart
    <3>3. file + 1 \in 1..Len(files) /\ f \in FileRecord
      BY <1>2 DEF ReadPart, MainInv
    <3>4. disk[f.id] \in Seq(Byte) /\ Len(disk[f.id]) \in Nat
      BY <3>3 DEF FileRecord, WorldInv
    <3> HIDE DEF f
    <3>5. m \in Nat
      <4>1. cfg.article_size \in Nat /\ piece \in Nat
        BY <2>1, SizeAssumption DEF MainInv, Running
      <4> QED
        BY <3>2, <4>1
    <3>6. n \in Nat /\ (n > 0 => m + n <= Len(disk[f.id]))
      <4>1. cfg.article_size \in Nat
        BY <2>1, SizeAssumption DEF MainInv, Running
      <4>2. n = 0 \/ (m < Len(disk[f.id]) /\ n = Least(cfg.article_size, Len(disk[f.id]) - m))
        BY <3>2 DEF BytesRead
      <4> QED
        BY <3>4, <3>5, <4>1, <4>2 DEF Least
    <3>7. input' \in Seq(Byte)
      BY <3>2, <3>4, <3>5, <3>6
    <3> QED
      BY <2>1, <3>1, <3>7 DEF EncoderInv, SafeSoFar, Harmless
  <2> QED
    BY <2>2, <2>3
<1>3. CASE EnqueueArticle
  BY <1>3 DEF EnqueueArticle, BlockEncoded, EncoderInv, SafeSoFar, Harmless
<1>4. CASE UNCHANGED encoder /\ (stage' = stage \/ stage' = "crashed" \/ stage \notin {"encode", "crashed"})
  BY <1>4 DEF encoder, EncoderInv, SafeSoFar, Harmless
<1>5. CASE LoadConfig \/ Walk \/ StartPool \/ OutgrowMemory \/ NextFile \/ End
  BY <1>4, <1>5, WalkMoves DEF LoadConfig, StartPool, OutgrowMemory, NextFile, End, main, Walking
<1>6. CASE RemovePath \/ RemoveEntry \/ ChangeFile \/ Retry \/ Ended \/ UNCHANGED vars
  BY <1>4, <1>6 DEF RemovePath, RemoveEntry, ChangeFile, Retry, Ended, vars, main
<1> QED
  BY <1>1, <1>2, <1>3, <1>5, <1>6 DEF Next

LEMMA TypeStep == TypeInv /\ [Next]_vars => TypeInv'
  BY WorldStep, MainStep, SearchStep, EncoderStep DEF TypeInv

LEMMA TypeInvariant == Spec => []TypeInv
  BY InitTypes, TypeStep, PTL DEF Spec

\* Type correctness, for files of any bytes that change at any time: main, the fileset and
\* the encoder keep to their types, and the article size is a size_t (main.cc:119-258).
THEOREM ArticlesTypeCorrect == Spec => []ArticlesTypeOK
<1>1. TypeInv => ArticlesTypeOK
  <2> SUFFICES ASSUME TypeInv PROVE ArticlesTypeOK
    OBVIOUS
  <2>1. \A i \in DOMAIN files : files[i] \in FileRecord
    BY DEF TypeInv, MainInv
  <2> QED
    BY <2>1 DEF TypeInv, MainInv, SearchInv, EncoderInv, SafeSoFar, ArticlesTypeOK, FileRecord, Stages,
         Searching,
                Running, Walking
<1> QED
  BY <1>1, TypeInvariant, PTL

-----------------------------------------------------------------------------
(* The lines of a part.                                                     *)

LEMMA LinesStep == TypeInv /\ LinesAreSafe /\ [Next]_vars => LinesAreSafe'
<1> SUFFICES ASSUME TypeInv, LinesAreSafe, [Next]_vars PROVE LinesAreSafe'
  OBVIOUS
<1> USE DEF TypeInv
<1>0. lines \in Seq(Seq(Byte)) /\ Len(lines) \in Nat
  BY DEF EncoderInv
<1>1. CASE EncodePart /\ EncodeByte
  BY <1>1 DEF EncodeByte, LinesAreSafe, BlockEncoded, Full, Harmless
<1>2. CASE EncodePart /\ EndLine
  <2>1. line # <<>> /\ (Len(line) >= LineLength \/ input = <<>>)
        /\ lines' = Append(lines, line) /\ line' = <<>> /\ input' = input
    BY <1>2 DEF EndLine
  <2>2. line \in Seq(Byte) /\ Harmless(line)
    BY <2>1 DEF EncoderInv, SafeSoFar
  <2>3. \A i \in DOMAIN lines : Harmless(lines[i]) /\ Full(lines[i])
    BY <2>1 DEF LinesAreSafe, BlockEncoded
  <2>4. Full(line) \/ input = <<>>
    BY <2>1, <2>2, CharactersDiffer DEF EncoderInv, SafeSoFar, Full
  <2>5. /\ Len(lines') = Len(lines) + 1 /\ DOMAIN lines' = 1..(Len(lines) + 1)
        /\ lines'[Len(lines) + 1] = line
        /\ \A i \in DOMAIN lines : lines'[i] = lines[i] /\ i \in 1..Len(lines)
    BY <1>0, <2>1, <2>2
  <2>6. \A i \in DOMAIN lines' : i = Len(lines') \/ i \in DOMAIN lines
    BY <1>0, <2>5
  <2>7. \A i \in DOMAIN lines' : Harmless(lines'[i])
    BY <2>2, <2>3, <2>5, <2>6
  <2>8. \A i \in DOMAIN lines' : Full(lines'[i]) \/ (i = Len(lines') /\ BlockEncoded')
    BY <2>1, <2>3, <2>4, <2>5, <2>6 DEF BlockEncoded
  <2> QED
    BY <2>7, <2>8 DEF LinesAreSafe, Harmless, Full
<1>3. CASE UNCHANGED encoder
  BY <1>3 DEF encoder, LinesAreSafe, BlockEncoded, Harmless, Full
<1>4. CASE lines' = <<>>
  BY <1>4 DEF LinesAreSafe
<1>5. CASE ReadPart
  BY <1>4, <1>5 DEF ReadPart, EncoderInv
<1>6. CASE RemovePath \/ RemoveEntry \/ ChangeFile \/ LoadConfig \/ Walk \/ StartPool \/ OutgrowMemory
           \/ NextFile
  BY <1>3, <1>6, WalkMoves DEF RemovePath, RemoveEntry, ChangeFile, LoadConfig, StartPool, OutgrowMemory,
       NextFile,
                               main
<1>7. CASE Retry \/ End \/ Ended \/ UNCHANGED vars
  BY <1>3, <1>7 DEF Retry, End, Ended, vars, main
<1>8. EncodePart => EncodeByte \/ EndLine
  BY DEF EncodePart
<1> QED
  BY <1>1, <1>2, <1>4, <1>5, <1>6, <1>7, <1>8 DEF Next, EnqueueArticle

\* The encoder's promise, for every line length and whatever the bytes of the file: no line
\* of an article means something to a server or a transport, and all but the last of a
\* part are full, with no blank at their end (yenc.cc:7-18, yenc.hpp:21-49).
THEOREM LinesStaySafe == Spec => []LinesAreSafe
<1>1. Init => LinesAreSafe
  BY DEF Init, LinesAreSafe
<1> QED
  BY <1>1, TypeInvariant, LinesStep, PTL DEF Spec

-----------------------------------------------------------------------------
(* Message ids.                                                             *)

LEMMA LeastElement ==
  ASSUME NEW I \in SUBSET Int, NEW m \in I, \A y \in I : m <= y
  PROVE  I # {} /\ Min(I) = m
<1>1. \A x \in I : (\A y \in I : x <= y) => x = m
  OBVIOUS
<1>2. Min(I) \in I /\ \A y \in I : Min(I) <= y
  BY DEF Min
<1> QED
  BY <1>1, <1>2

\* get_key_from_message_id undoes get_usenet_message_id, whatever dots the domain has, since
\* it looks only at the first two (main.cc:84-100).
THEOREM KeyIsParsedBack ==
  ASSUME NEW nonce, NEW D, NEW domain \in Seq(D), NEW f, NEW p
  PROVE  KeyFromMessageId(MessageId(nonce, domain, f, p)) = <<f, p>>
<1> DEFINE start == <<Mark("<"), Token("nonce", nonce), Mark("."), Token("digits", f), Mark("."),
                      Token("digits", p), Mark("@")>>
           T == D \cup {Mark("<"), Token("nonce", nonce), Mark("."), Token("digits", f),
                        Token("digits", p), Mark("@"), Mark(">")}
           id == MessageId(nonce, domain, f, p)
<1>1. start \in Seq(T) /\ Len(start) = 7
  <2>1. ASSUME NEW S, NEW a \in S, NEW b \in S, NEW c \in S, NEW d \in S, NEW e \in S, NEW g \in S, NEW h \in S
        PROVE  <<a, b, c, d, e, g, h>> \in Seq(S) /\ Len(<<a, b, c, d, e, g, h>>) = 7
    OBVIOUS
  <2>2. {Mark("<"), Token("nonce", nonce), Mark("."), Token("digits", f), Token("digits", p), Mark("@")}
          \subseteq T
    OBVIOUS
  <2> HIDE DEF T
  <2> QED
    BY <2>1, <2>2
<1>2. \A i \in 1..7 : IsDot(start[i]) <=> i \in {3, 5}
  BY DEF Mark, Token, IsDot
<1>3. start[4].number = f /\ start[6].number = p
  BY DEF Token
<1>4. id = (start \o domain) \o <<Mark(">")>> /\ Mark(">") \in T
  BY DEF MessageId
<1>5. domain \in Seq(T)
  OBVIOUS
<1> HIDE DEF start, id, T
<1>6. id \in Seq(T) /\ Len(id) >= 8 /\ Len(id) \in Nat /\ \A i \in 1..7 : id[i] = start[i]
  <2>1. ASSUME NEW s \in Seq(T), NEW t \in Seq(T)
        PROVE  /\ s \o t \in Seq(T) /\ Len(s \o t) = Len(s) + Len(t) /\ Len(s) \in Nat /\ Len(t) \in Nat
               /\ \A i \in 1..Len(s) : (s \o t)[i] = s[i]
    OBVIOUS
  <2>2. <<Mark(">")>> \in Seq(T) /\ Len(<<Mark(">")>>) = 1
    BY <1>4
  <2>3. /\ start \o domain \in Seq(T) /\ Len(start \o domain) = Len(start) + Len(domain)
        /\ Len(domain) \in Nat
        /\ \A i \in 1..Len(start) : (start \o domain)[i] = start[i]
    BY <1>1, <1>5, <2>1, Zenon
  <2>4. /\ id \in Seq(T) /\ Len(id) = Len(start \o domain) + 1
        /\ \A i \in 1..Len(start \o domain) : id[i] = (start \o domain)[i]
    BY <1>4, <2>1, <2>2, <2>3
  <2>5. \A i \in 1..7 : i \in 1..Len(start) /\ i \in 1..Len(start \o domain)
    BY <1>1, <2>3
  <2>6. Len(id) = 8 + Len(domain)
    BY <1>1, <2>3, <2>4
  <2> QED
    BY <2>3, <2>4, <2>5, <2>6
<1>7. SelectInSeq(id, IsDot) = 3
  <2> DEFINE I == {i \in 1..Len(id) : IsDot(id[i])}
  <2>1. I \in SUBSET Int /\ 3 \in I /\ \A y \in I : 3 <= y
    BY <1>2, <1>6
  <2>2. I # {} /\ Min(I) = 3
    BY <2>1, LeastElement
  <2> QED
    BY <2>2 DEF SelectInSeq
<1>8. SelectInSubSeq(id, 3 + 1, Len(id), IsDot) = 5
  <2> DEFINE I == {i \in (3 + 1)..Len(id) : IsDot(id[i])}
  <2>1. I \in SUBSET Int /\ 5 \in I /\ \A y \in I : 5 <= y
    BY <1>2, <1>6
  <2>2. I # {} /\ Min(I) = 5
    BY <2>1, LeastElement
  <2> QED
    BY <2>2 DEF SelectInSubSeq
<1>9. KeyFromMessageId(id) = <<id[3 + 1].number, id[5 + 1].number>>
  BY <1>7, <1>8 DEF KeyFromMessageId
<1> QED
  BY <1>3, <1>6, <1>9 DEF id

-----------------------------------------------------------------------------
(* The articles.                                                            *)

IsLog(log) == \E P, Q, M : log \in Seq([part : P, payload : Q, msgid : M])

\* What get_part says of a part fits its place in the file.
IsPiece(p) ==
  /\ p.file \in Nat /\ p.piece \in Nat /\ p.begin \in Int /\ p.end \in Int
  /\ p.begin = p.piece * cfg.article_size + 1
  /\ p.end <= (p.piece + 1) * cfg.article_size
  /\ p.file + 1 \in DOMAIN files
  /\ p.piece < files[p.file + 1].parts

Before(p, f, k) == p.file < f \/ (p.file = f /\ p.piece < k)

\* The articles are parts of files, in the order of the loop in main.
PartsInv ==
  /\ IsLog(articles)
  /\ stage \in Searching => articles = <<>>
  /\ articles # <<>> => cfg.article_size \in Nat
  /\ stage = "encode" => IsPiece(part) /\ part.file = file /\ part.piece = piece
  /\ \A i \in DOMAIN articles : IsPiece(articles[i].part) /\ Before(articles[i].part, file, piece)
  /\ \A i, j \in DOMAIN articles :
       i < j => Before(articles[i].part, articles[j].part.file, articles[j].part.piece)

\* Once main is past the directories, it is settled what files and parts there are.
LEMMA PiecesStay ==
  ASSUME TypeInv, [Next]_vars, ~LoadConfig, ~Walk
  PROVE  /\ cfg' = cfg
         /\ DOMAIN files' = DOMAIN files
         /\ \A f \in DOMAIN files : files'[f].parts = files[f].parts
         /\ \A p : IsPiece(p) => IsPiece(p)'
<1>1. cfg' = cfg
  BY DEF Next, RemovePath, RemoveEntry, ChangeFile, StartPool, OutgrowMemory, NextFile, ReadPart,
       EncodePart, EnqueueArticle, Retry, End,
         Ended, vars, main, setup
<1>2. CASE UNCHANGED files
  BY <1>1, <1>2 DEF IsPiece
<1>3. CASE ReadPart
  <2>1. files \in Seq(FileRecord) /\ file + 1 \in Nat
    BY DEF TypeInv, MainInv
  <2>2. CASE ~UNCHANGED files
    <3>1. PICK b : files' = [files EXCEPT ![file + 1].good = b]
      BY <1>3, <2>2 DEF ReadPart
    <3>2. \A f \in DOMAIN files : files[f] \in FileRecord
      BY <2>1
    <3>3. \A f \in DOMAIN files : files'[f].parts = files[f].parts
      BY <3>1, <3>2 DEF FileRecord
    <3> QED
      BY <1>1, <3>1, <3>3 DEF IsPiece
  <2> QED
    BY <1>2, <2>2
<1>4. UNCHANGED files \/ ReadPart
  BY DEF Next, RemovePath, RemoveEntry, ChangeFile, StartPool, OutgrowMemory, NextFile, EncodePart,
       EnqueueArticle, Retry, End,
         Ended, vars, main
<1> QED
  BY <1>1, <1>2, <1>3, <1>4

\* An article is added behind the others, or gets another id.
LEMMA LogGrows ==
  ASSUME NEW log, IsLog(log), NEW a, NEW p, NEW q, NEW m, a = [part |-> p, payload |-> q, msgid |-> m]
  PROVE  IsLog(Append(log, a))
<1>1. PICK P, Q, M : log \in Seq([part : P, payload : Q, msgid : M])
  BY DEF IsLog
<1> DEFINE S == [part : P, payload : Q, msgid : M]
           R == [part : P \cup {p}, payload : Q \cup {q}, msgid : M \cup {m}]
<1>2. S \subseteq R /\ a \in R
  OBVIOUS
<1>3. log \in Seq(S)
  BY <1>1
<1>4. \A x \in Seq(S) : S \subseteq R => x \in Seq(R)
  <2> HIDE DEF S, R
  <2> QED
    OBVIOUS
<1>5. \A x \in Seq(R) : a \in R => Append(x, a) \in Seq(R)
  <2> HIDE DEF R
  <2> QED
    OBVIOUS
<1> HIDE DEF S, R
<1>6. Append(log, a) \in Seq(R)
  BY <1>2, <1>3, <1>4, <1>5
<1> QED
  BY <1>6 DEF IsLog, R

LEMMA LogAppended ==
  ASSUME NEW log, IsLog(log), NEW a
  PROVE  /\ Len(log) \in Nat /\ DOMAIN log = 1..Len(log) /\ DOMAIN Append(log, a) = 1..(Len(log) + 1)
         /\ Append(log, a)[Len(log) + 1] = a
         /\ \A i \in DOMAIN log : Append(log, a)[i] = log[i]
<1>1. PICK P, Q, M : log \in Seq([part : P, payload : Q, msgid : M])
  BY DEF IsLog
<1>2. ASSUME NEW T, NEW s \in Seq(T), NEW x
      PROVE  /\ Len(s) \in Nat /\ DOMAIN s = 1..Len(s) /\ DOMAIN Append(s, x) = 1..(Len(s) + 1)
             /\ Append(s, x)[Len(s) + 1] = x
             /\ \A i \in DOMAIN s : Append(s, x)[i] = s[i]
  OBVIOUS
<1> QED
  BY <1>1, <1>2, Zenon

LEMMA LogRenamed ==
  ASSUME NEW log, IsLog(log), NEW i \in DOMAIN log, NEW m,
         NEW new, new = [log EXCEPT ![i].msgid = m]
  PROVE  /\ IsLog(new) /\ DOMAIN new = DOMAIN log
         /\ \A j \in DOMAIN log : /\ new[j].part = log[j].part /\ new[j].payload = log[j].payload
                                 /\ new[j].msgid = IF j = i THEN m ELSE log[j].msgid
<1>1. PICK P, Q, M : log \in Seq([part : P, payload : Q, msgid : M])
  BY DEF IsLog
<1> DEFINE S == [part : P, payload : Q, msgid : M]
           R == [part : P, payload : Q, msgid : M \cup {m}]
<1>2. i \in 1..Len(log) /\ Len(log) \in Nat /\ DOMAIN log = 1..Len(log) /\ \A j \in DOMAIN log : log[j] \in S
  <2>1. ASSUME NEW T, log \in Seq(T)
        PROVE  i \in 1..Len(log) /\ Len(log) \in Nat /\ DOMAIN log = 1..Len(log) /\ \A j \in DOMAIN log : log[j] \in T
    BY <2>1
  <2> QED
    BY <1>1, <2>1, Zenon
<1>3. DOMAIN new = 1..Len(log) /\ \A j \in DOMAIN log : new[j] = IF j = i THEN [log[j] EXCEPT !.msgid = m] ELSE log[j]
  BY <1>2
<1>4. \A r \in S : /\ r \in R /\ [r EXCEPT !.msgid = m] \in R
                   /\ [r EXCEPT !.msgid = m].part = r.part /\ [r EXCEPT !.msgid = m].payload = r.payload
                   /\ [r EXCEPT !.msgid = m].msgid = m
  OBVIOUS
<1>5. new = [j \in 1..Len(log) |-> new[j]]
  BY <1>2
<1> HIDE DEF S, R
<1>6. \A j \in 1..Len(log) : /\ new[j] \in R /\ new[j].part = log[j].part /\ new[j].payload = log[j].payload
                            /\ new[j].msgid = IF j = i THEN m ELSE log[j].msgid
  BY <1>2, <1>3, <1>4
<1>7. new \in Seq(R)
  <2>1. new \in [1..Len(log) -> R]
    BY <1>5, <1>6, Zenon
  <2>2. ASSUME NEW T, NEW n \in Nat, NEW f \in [1..n -> T] PROVE f \in Seq(T)
    OBVIOUS
  <2> QED
    BY <1>2, <2>1, <2>2, Zenon
<1> QED
  BY <1>2, <1>3, <1>6, <1>7 DEF IsLog, R

\* get_part reads no more than an article holds.
LEMMA PartIsRead ==
  ASSUME TypeInv, ReadPart, stage' = "encode"
  PROVE  IsPiece(part') /\ part'.file = file /\ part'.piece = piece
<1> DEFINE f == files[file + 1]
           offset == piece * cfg.article_size
<1>1. file + 1 \in DOMAIN files /\ f \in FileRecord /\ file \in Nat /\ piece \in Nat /\ cfg.article_size \in Nat
  BY SizeAssumption DEF TypeInv, MainInv, ReadPart, Running
<1>2. Len(disk[f.id]) \in Nat
  BY <1>1 DEF TypeInv, WorldInv, FileRecord
<1>3. PICK n : /\ n = BytesRead(f, offset)
               /\ part' = [file |-> file, piece |-> piece, total |-> f.parts, size |-> f.size,
                           begin |-> offset + 1, end |-> offset + n,
                           data |-> SubSeq(disk[f.id], offset + 1, offset + n)]
  BY DEF ReadPart
<1>4. part'.file = file /\ part'.piece = piece /\ part'.begin = offset + 1 /\ part'.end = offset + n
  BY <1>3
<1>5. piece < f.parts
  BY DEF ReadPart
<1>6. offset \in Nat /\ offset + cfg.article_size = (piece + 1) * cfg.article_size
  BY <1>1
<1> HIDE DEF f, offset
<1>7. n \in Nat /\ n <= cfg.article_size
  <2>1. n = 0 \/ (offset < Len(disk[f.id]) /\ n = Least(cfg.article_size, Len(disk[f.id]) - offset))
    BY <1>3 DEF BytesRead
  <2> QED
    BY <1>1, <1>2, <1>6, <2>1 DEF Least
<1>8. offset + n <= (piece + 1) * cfg.article_size
  BY <1>1, <1>6, <1>7
<1> QED
  BY <1>1, <1>4, <1>5, <1>6, <1>7, <1>8 DEF IsPiece, f, offset

LEMMA PartsStep == ASSUME TypeInv, PartsInv, [Next]_vars PROVE PartsInv'
<1>1. CASE LoadConfig \/ Walk
  <2>1. articles' = <<>> /\ stage' # "encode"
    BY <1>1, WalkMoves DEF LoadConfig, PartsInv, posted, Searching, Walking
  <2>2. IsLog(articles')
    BY <2>1 DEF IsLog
  <2> QED
    BY <2>1, <2>2 DEF PartsInv
<1> SUFFICES ASSUME ~LoadConfig, ~Walk PROVE PartsInv'
  BY <1>1
<1>2. cfg' = cfg /\ \A p : IsPiece(p) => IsPiece(p)'
  BY PiecesStay
<1>3. file \in Nat /\ piece \in Nat
  BY DEF TypeInv, MainInv
<1>4. CASE UNCHANGED <<stage, part, file, piece, articles>>
  BY <1>2, <1>4 DEF PartsInv
<1>5. CASE StartPool \/ OutgrowMemory \/ End
  BY <1>2, <1>5 DEF StartPool, OutgrowMemory, End, PartsInv, Searching, main, position, posted
<1>6. CASE NextFile
  <2>1. \A i \in DOMAIN articles : articles[i].part.file \in Nat
    BY DEF PartsInv, IsPiece
  <2>2. UNCHANGED <<stage, part, articles>> /\ file' = file + 1 /\ stage = "post"
    BY <1>6 DEF NextFile, posted
  <2>3. \A i \in DOMAIN articles : Before(articles[i].part, file', piece')
    BY <1>3, <2>1, <2>2 DEF PartsInv, Before
  <2> QED
    BY <1>2, <2>2, <2>3 DEF PartsInv
<1>7. CASE ReadPart
  <2>1. UNCHANGED <<articles, file, piece>> /\ stage = "post" /\ stage' \in {"encode", "crashed"}
    BY <1>7 DEF ReadPart, position, posted
  <2>2. stage' = "encode" => IsPiece(part)' /\ part'.file = file /\ part'.piece = piece
    BY <1>2, <1>7, PartIsRead
  <2> QED
    BY <1>2, <2>1, <2>2 DEF PartsInv, Searching
<1>8. CASE EnqueueArticle
  <2> DEFINE a == [part |-> part, payload |-> Payload(lines),
                   msgid |-> MessageId(RunNonce, cfg.msgiddomain, file, piece)]
  <2>1. /\ stage = "encode" /\ stage' = "post" /\ articles' = Append(articles, a)
        /\ UNCHANGED <<file, part>> /\ piece' = piece + 1
    BY <1>8 DEF EnqueueArticle
  <2>2. IsPiece(part) /\ part.file = file /\ part.piece = piece /\ a.part = part
    BY <2>1 DEF PartsInv
  <2>3. IsLog(articles')
    BY <2>1, LogGrows DEF PartsInv
  <2> HIDE DEF a
  <2>4. /\ Len(articles) \in Nat /\ DOMAIN articles = 1..Len(articles)
        /\ DOMAIN articles' = 1..(Len(articles) + 1)
        /\ articles'[Len(articles) + 1] = a
        /\ \A i \in DOMAIN articles : articles'[i] = articles[i]
    <3>1. IsLog(articles)
      BY DEF PartsInv
    <3>2. /\ Len(articles) \in Nat /\ DOMAIN articles = 1..Len(articles)
          /\ DOMAIN Append(articles, a) = 1..(Len(articles) + 1)
          /\ Append(articles, a)[Len(articles) + 1] = a
          /\ \A i \in DOMAIN articles : Append(articles, a)[i] = articles[i]
      BY <3>1, LogAppended
    <3> QED
      BY <2>1, <3>2, Zenon
  <2>5. \A i \in DOMAIN articles' : i \in DOMAIN articles \/ (i = Len(articles) + 1 /\ articles'[i].part = part)
    BY <2>2, <2>4
  <2>6. \A i \in DOMAIN articles' : IsPiece(articles'[i].part) /\ Before(articles'[i].part, file', piece')
    <3>1. \A i \in DOMAIN articles : IsPiece(articles[i].part) /\ Before(articles[i].part, file', piece')
      BY <1>3, <2>1 DEF PartsInv, Before, IsPiece
    <3>2. Before(part, file', piece')
      BY <1>3, <2>1, <2>2 DEF Before
    <3> QED
      BY <2>2, <2>4, <2>5, <3>1, <3>2
  <2>7. ASSUME NEW i \in DOMAIN articles', NEW j \in DOMAIN articles', i < j
        PROVE  Before(articles'[i].part, articles'[j].part.file, articles'[j].part.piece)
    <3>1. i \in DOMAIN articles
      BY <2>4, <2>7
    <3>2. CASE j \in DOMAIN articles
      BY <2>4, <2>7, <3>1, <3>2 DEF PartsInv
    <3>3. CASE articles'[j].part = part
      BY <2>2, <2>4, <3>1, <3>3 DEF PartsInv
    <3> QED
      BY <2>5, <3>2, <3>3
  <2>8. cfg.article_size \in Nat
    BY <2>1, SizeAssumption DEF TypeInv, MainInv, Running
  <2> QED
    BY <1>2, <2>1, <2>3, <2>6, <2>7, <2>8 DEF PartsInv, Searching
<1>9. CASE Retry
  <2> PICK i \in DOMAIN articles : \E m : articles' = [articles EXCEPT ![i].msgid = m]
    BY <1>9 DEF Retry
  <2>1. PICK m : articles' = [articles EXCEPT ![i].msgid = m]
    OBVIOUS
  <2>2. IsLog(articles)
    BY DEF PartsInv
  <2>3. /\ IsLog(articles') /\ DOMAIN articles' = DOMAIN articles
        /\ \A j \in DOMAIN articles : articles'[j].part = articles[j].part
    <3>1. DOMAIN articles' = DOMAIN articles /\ \A j \in DOMAIN articles : articles'[j].part = articles[j].part
      BY <2>1, <2>2, LogRenamed
    <3>2. IsLog(articles')
      BY <2>1, <2>2, LogRenamed
    <3> QED
      BY <3>1, <3>2
  <2>4. UNCHANGED <<stage, part, file, piece>> /\ articles # <<>>
    BY <1>9 DEF Retry, main, position
  <2> QED
    BY <1>2, <2>3, <2>4 DEF PartsInv
<1>10. CASE RemovePath \/ RemoveEntry \/ ChangeFile \/ EncodePart \/ Ended \/ UNCHANGED vars
  BY <1>4, <1>10 DEF RemovePath, RemoveEntry, ChangeFile, EncodePart, Ended, vars, main, position, posted
<1> QED
  BY <1>5, <1>6, <1>7, <1>8, <1>9, <1>10 DEF Next

LEMMA PartsInvariant == Spec => []PartsInv
<1>1. Init => PartsInv
  BY DEF Init, PartsInv, IsLog
<1> QED
  BY <1>1, TypeInvariant, PartsStep, PTL DEF Spec

\* Two articles of a file never claim the same byte of it, for every article size and number
\* of parts, even if the file grows or shrinks while it is posted (yencgenerator.cc:38-58).
THEOREM PartsAreDisjoint == Spec => []PartsDoNotOverlap
<1>1. PartsInv => PartsDoNotOverlap
  <2> SUFFICES ASSUME PartsInv, NEW i \in DOMAIN articles, NEW j \in DOMAIN articles, i < j,
                      articles[i].part.file = articles[j].part.file
               PROVE  articles[i].part.end < articles[j].part.begin
    BY DEF PartsDoNotOverlap
  <2> DEFINE p == articles[i].part
             q == articles[j].part
             size == cfg.article_size
  <2>1. IsPiece(p) /\ IsPiece(q) /\ Before(p, q.file, q.piece) /\ size \in Nat
    BY DEF PartsInv
  <2>2. p.piece \in Nat /\ q.piece \in Nat /\ p.piece + 1 <= q.piece
    BY <2>1 DEF IsPiece, Before
  <2>3. \A k, m, n \in Nat : k + 1 <= m => (k + 1) * n <= m * n
    OBVIOUS
  <2>4. (p.piece + 1) * size <= q.piece * size
    BY <2>1, <2>2, <2>3
  <2>5. (p.piece + 1) * size \in Int /\ q.piece * size \in Int
    BY <2>1, <2>2
  <2>6. p.end \in Int /\ p.end <= (p.piece + 1) * size /\ q.begin = q.piece * size + 1
    BY <2>1 DEF IsPiece
  <2> HIDE DEF p, q, size
  <2>7. p.end < q.begin
    BY <2>4, <2>5, <2>6
  <2> QED
    BY <2>7 DEF p, q
<1> QED
  BY <1>1, PartsInvariant, PTL

-----------------------------------------------------------------------------
(* The nzb file.                                                            *)

KeyOf(a) == <<a.part.file, a.part.piece>>

\* main knows the id and the size of every article, and of nothing else.
Known(a) ==
  /\ a.msgid = MessageId(NonceOf(KeyOf(a)), cfg.msgiddomain, a.part.file, a.part.piece)
  /\ KeyOf(a) \in DOMAIN piece_sizes
  /\ piece_sizes[KeyOf(a)] = Size(a.payload)

IdsInv ==
  /\ \A i \in DOMAIN articles : Known(articles[i])
  /\ \A k \in DOMAIN exceptions : \E i \in DOMAIN articles : k = KeyOf(articles[i])
  /\ articles # <<>> => \E D : cfg.msgiddomain \in Seq(D)
  /\ stage \in Running => \E D : cfg.msgiddomain \in Seq(D)
  /\ nzb # None => stage = "done" /\ nzb = [f \in DOMAIN files |-> Segments(f)]

LEMMA KeysDiffer ==
  ASSUME PartsInv, NEW i \in DOMAIN articles, NEW j \in DOMAIN articles, i # j
  PROVE  KeyOf(articles[i]) # KeyOf(articles[j])
<1>1. i \in Int /\ j \in Int
  <2>1. PICK P, Q, M : articles \in Seq([part : P, payload : Q, msgid : M])
    BY DEF PartsInv, IsLog
  <2>2. ASSUME NEW T, NEW s \in Seq(T) PROVE DOMAIN s \subseteq Int
    OBVIOUS
  <2> QED
    BY <2>1, <2>2, Zenon
<1>2. /\ articles[i].part.file \in Nat /\ articles[i].part.piece \in Nat
      /\ articles[j].part.file \in Nat /\ articles[j].part.piece \in Nat
  BY DEF PartsInv, IsPiece
<1>3. i < j \/ j < i
  BY <1>1
<1>4. \/ Before(articles[i].part, articles[j].part.file, articles[j].part.piece)
      \/ Before(articles[j].part, articles[i].part.file, articles[i].part.piece)
  BY <1>3 DEF PartsInv
<1> QED
  BY <1>2, <1>4 DEF KeyOf, Before

LEMMA IdsStep == ASSUME TypeInv, PartsInv, IdsInv, [Next]_vars PROVE IdsInv'
<1>1. CASE UNCHANGED <<cfg, files, stage, piece_sizes, articles, exceptions, nzb>>
  BY <1>1 DEF IdsInv, Known, NonceOf, Segments
<1>2. CASE RemovePath \/ RemoveEntry \/ ChangeFile \/ EncodePart \/ NextFile \/ Ended \/ UNCHANGED vars
  BY <1>1, <1>2 DEF RemovePath, RemoveEntry, ChangeFile, EncodePart, NextFile, Ended, vars, main, setup,
       posted
<1>3. CASE LoadConfig \/ Walk
  <2>1. articles = <<>> /\ articles' = <<>> /\ UNCHANGED <<exceptions, nzb>> /\ stage \in Searching
    BY <1>3, WalkMoves DEF LoadConfig, PartsInv, posted, Searching, Walking
  <2>2. nzb = None /\ DOMAIN exceptions = {}
    <3>1. DOMAIN articles = {}
      BY <2>1
    <3>2. stage # "done"
      BY <2>1 DEF Searching
    <3> QED
      BY <3>1, <3>2 DEF IdsInv
  <2>3. stage' \in Running => \E D : cfg'.msgiddomain \in Seq(D)
    <3>1. CASE Walk
      BY <3>1, WalkMoves DEF IdsInv, Running
    <3>2. CASE LoadConfig
      <4>1. stage' \in Running => cfg' = ProgConfig(given.cmd, given.conf)
        BY <3>2 DEF LoadConfig, Running, Walking
      <4>2. given \in Inputs
        BY DEF TypeInv, WorldInv
      <4>3. given.conf.MsgIdDomain \in Seq([text : STRING, number : Nat])
        BY <4>2, InputAssumption
      <4>4. DefaultDomain \in Seq({[text |-> "post2usenet", number |-> 0]})
        BY DEF DefaultDomain
      <4>5. ProgConfig(given.cmd, given.conf).msgiddomain \in {DefaultDomain, given.conf.MsgIdDomain}
        BY DEF ProgConfig
      <4> QED
        BY <4>1, <4>3, <4>4, <4>5
    <3> QED
      BY <1>3, <3>1, <3>2
  <2> QED
    BY <2>1, <2>2, <2>3 DEF IdsInv
<1>4. CASE StartPool \/ OutgrowMemory
  BY <1>4 DEF StartPool, OutgrowMemory, IdsInv, Known, NonceOf, Segments, Running, Walking, main, setup,
       posted
<1>5. CASE ReadPart
  <2>1. UNCHANGED <<cfg, piece_sizes, articles, exceptions, nzb>> /\ stage = "post"
    BY <1>5 DEF ReadPart, setup, posted
  <2> QED
    BY <2>1 DEF IdsInv, Known, NonceOf, Running
<1>6. CASE End
  <2>1. UNCHANGED <<cfg, files, piece_sizes, articles, exceptions>> /\ stage = "post" /\ stage' = "done"
        /\ nzb' \in {None, [f \in DOMAIN files |-> Segments(f)]}
    BY <1>6 DEF End, main, setup
  <2>2. \A f : Segments(f)' = Segments(f)
    BY <2>1 DEF Segments, NonceOf
  <2>3. nzb' # None => nzb' = [f \in DOMAIN files' |-> Segments(f)']
    BY <2>1, <2>2
  <2> QED
    BY <2>1, <2>3 DEF IdsInv, Known, NonceOf, Running
<1>7. CASE EnqueueArticle
  <2> DEFINE a == [part |-> part, payload |-> Payload(lines),
                   msgid |-> MessageId(RunNonce, cfg.msgiddomain, file, piece)]
             k == <<file, piece>>
  <2>1. /\ stage = "encode" /\ stage' = "post" /\ articles' = Append(articles, a)
        /\ piece_sizes' = Put(piece_sizes, k, Size(a.payload))
        /\ UNCHANGED <<cfg, files, exceptions, nzb>>
    BY <1>7 DEF EnqueueArticle, setup
  <2>2. part.file = file /\ part.piece = piece /\ a.part = part /\ KeyOf(a) = k
    BY <2>1 DEF PartsInv, KeyOf
  <2>3. \A i \in DOMAIN articles : KeyOf(articles[i]) # k
    <3>1. file \in Nat /\ piece \in Nat
      BY DEF TypeInv, MainInv
    <3>2. \A i \in DOMAIN articles : articles[i].part.file # file \/ articles[i].part.piece # piece
      BY <3>1 DEF PartsInv, Searching, IsPiece, Before
    <3> QED
      BY <3>2 DEF KeyOf
  <2>4. k \notin DOMAIN exceptions
    BY <2>3 DEF IdsInv
  <2>5. /\ k \in DOMAIN piece_sizes' /\ piece_sizes'[k] = Size(a.payload)
        /\ \A x \in DOMAIN piece_sizes : x # k => x \in DOMAIN piece_sizes' /\ piece_sizes'[x] = piece_sizes[x]
    BY <2>1 DEF Put
  <2>6. \A x : NonceOf(x)' = NonceOf(x)
    BY <2>1 DEF NonceOf
  <2>7. a.msgid = MessageId(NonceOf(k), cfg.msgiddomain, part.file, part.piece)
    BY <2>2, <2>4 DEF NonceOf
  <2> HIDE DEF a, k
  <2>8. /\ DOMAIN articles' = 1..(Len(articles) + 1) /\ DOMAIN articles = 1..Len(articles)
        /\ articles'[Len(articles) + 1] = a
        /\ \A i \in DOMAIN articles : articles'[i] = articles[i]
        /\ Len(articles) \in Nat
    <3>1. IsLog(articles)
      BY DEF PartsInv
    <3>2. /\ Len(articles) \in Nat /\ DOMAIN articles = 1..Len(articles)
          /\ DOMAIN Append(articles, a) = 1..(Len(articles) + 1)
          /\ Append(articles, a)[Len(articles) + 1] = a
          /\ \A i \in DOMAIN articles : Append(articles, a)[i] = articles[i]
      BY <3>1, LogAppended
    <3> QED
      BY <2>1, <3>2, Zenon
  <2>9. \A i \in DOMAIN articles' : i \in DOMAIN articles \/ articles'[i] = a
    BY <2>8
  <2>10. ASSUME NEW i \in DOMAIN articles' PROVE Known(articles[i])'
    <3>1. CASE i \in DOMAIN articles
      <4>1. Known(articles[i]) /\ articles'[i] = articles[i]
        BY <2>8, <3>1 DEF IdsInv
      <4> QED
        BY <2>1, <2>3, <2>5, <2>6, <3>1, <4>1 DEF Known, KeyOf
    <3>2. CASE articles'[i] = a
      BY <2>1, <2>2, <2>5, <2>6, <2>7, <3>2 DEF Known, KeyOf
    <3> QED
      BY <2>9, <3>1, <3>2
  <2>11. \A x \in DOMAIN exceptions' : \E i \in DOMAIN articles' : x = KeyOf(articles'[i])
    <3>1. \A i \in DOMAIN articles : i \in DOMAIN articles' /\ articles'[i] = articles[i]
      BY <2>8
    <3> QED
      BY <2>1, <3>1 DEF IdsInv
  <2>12. nzb' = None
    BY <2>1 DEF IdsInv
  <2>13. \E D : cfg'.msgiddomain \in Seq(D)
    BY <2>1 DEF IdsInv, Running
  <2> QED
    BY <2>10, <2>11, <2>12, <2>13 DEF IdsInv, KeyOf
<1>8. CASE Retry
  <2>1. PICK i \in DOMAIN articles :
          LET key == KeyFromMessageId(articles[i].msgid)
              nonce == disturbed + 1
          IN /\ exceptions' = Put(exceptions, key, nonce)
             /\ articles' = [articles EXCEPT ![i].msgid = MessageId(nonce, cfg.msgiddomain, key[1], key[2])]
    BY <1>8 DEF Retry
  <2> PICK k : k = KeyOf(articles[i])
    OBVIOUS
  <2> DEFINE nonce == disturbed + 1
           m == MessageId(nonce, cfg.msgiddomain, articles[i].part.file, articles[i].part.piece)
  <2>2. UNCHANGED <<cfg, files, stage, piece_sizes, nzb>> /\ stage # "done"
    BY <1>8 DEF Retry, main, setup
  <2>3. KeyFromMessageId(articles[i].msgid) = k
    <3>1. PICK D : cfg.msgiddomain \in Seq(D)
      BY DEF IdsInv
    <3>2. Known(articles[i])
      BY DEF IdsInv
    <3> QED
      BY <3>1, <3>2, KeyIsParsedBack DEF Known, KeyOf
  <2>4. exceptions' = Put(exceptions, k, nonce) /\ articles' = [articles EXCEPT ![i].msgid = m]
    BY <2>1, <2>3 DEF KeyOf
  <2>5. /\ DOMAIN articles' = DOMAIN articles
        /\ \A j \in DOMAIN articles :
             /\ articles'[j].part = articles[j].part /\ articles'[j].payload = articles[j].payload
             /\ articles'[j].msgid = IF j = i THEN m ELSE articles[j].msgid
    <3>1. IsLog(articles)
      BY DEF PartsInv
    <3> HIDE DEF m
    <3> QED
      BY <2>4, <3>1, LogRenamed
  <2>6. \A j \in DOMAIN articles : KeyOf(articles'[j]) = KeyOf(articles[j])
    BY <2>4, <2>5 DEF KeyOf
  <2>7. NonceOf(k)' = nonce /\ \A x : x # k => NonceOf(x)' = NonceOf(x)
    BY <2>4 DEF NonceOf, Put
  <2>8. ASSUME NEW j \in DOMAIN articles' PROVE Known(articles[j])'
    <3>1. j \in DOMAIN articles /\ Known(articles[j])
      BY <2>4, <2>5 DEF IdsInv
    <3>2. CASE j = i
      <4>1. /\ articles'[i].msgid = m /\ articles'[i].payload = articles[i].payload
            /\ articles'[i].part = articles[i].part
        BY <2>5
      <4>2. NonceOf(k)' = nonce /\ k = KeyOf(articles'[i])
        BY <2>6, <2>7
      <4>3. articles'[i].msgid = MessageId(NonceOf(KeyOf(articles[i]))', cfg.msgiddomain,
                                           articles'[i].part.file, articles'[i].part.piece)
        BY <2>6, <4>1, <4>2
      <4>4. k \in DOMAIN piece_sizes /\ piece_sizes[k] = Size(articles[i].payload)
        BY <3>1, <3>2 DEF Known
      <4> QED
        BY <2>2, <3>2, <4>1, <4>2, <4>3, <4>4 DEF Known
    <3>3. CASE j # i
      <4>1. KeyOf(articles[j]) # k
        BY <3>1, <3>3, KeysDiffer
      <4> QED
        BY <2>2, <2>4, <2>5, <2>6, <2>7, <3>1, <3>3, <4>1 DEF Known, KeyOf
    <3> QED
      BY <3>2, <3>3
  <2>9. \A x \in DOMAIN exceptions' : \E j \in DOMAIN articles' : x = KeyOf(articles'[j])
    <3>1. \A x \in DOMAIN exceptions' : x = k \/ x \in DOMAIN exceptions
      BY <2>4 DEF Put
    <3> QED
      BY <2>4, <2>5, <2>6, <3>1 DEF IdsInv
  <2>10. \E D : cfg'.msgiddomain \in Seq(D)
    BY <2>2 DEF IdsInv
  <2> QED
    BY <2>2, <2>8, <2>9, <2>10 DEF IdsInv, KeyOf
<1> QED
  BY <1>2, <1>3, <1>4, <1>5, <1>6, <1>7, <1>8 DEF Next

LEMMA IdsInvariant == Spec => []IdsInv
<1>1. Init => IdsInv
  BY DEF Init, IdsInv, Running, Walking
<1> QED
  BY <1>1, TypeInvariant, PartsInvariant, IdsStep, PTL DEF Spec

\* The loop in main leaves no part out.
PostedSoFar ==
  /\ stage \in Searching => file = 0 /\ piece = 0
  /\ \A f \in DOMAIN files, k \in Nat :
       k < files[f].parts /\ (f - 1 < file \/ (f - 1 = file /\ k < piece)) =>
         \E i \in DOMAIN articles : KeyOf(articles[i]) = <<f - 1, k>>

LEMMA PostedStep == ASSUME TypeInv, PartsInv, PostedSoFar, [Next]_vars PROVE PostedSoFar'
<1>1. file \in Nat /\ piece \in Nat
  BY DEF TypeInv, MainInv
<1>2. \A f \in DOMAIN files : f \in Nat \ {0}
  <2>1. ASSUME NEW T, NEW s \in Seq(T) PROVE \A i \in DOMAIN s : i \in Nat \ {0}
    OBVIOUS
  <2> QED
    BY <2>1 DEF TypeInv, MainInv
<1>3. CASE LoadConfig \/ Walk
  <2>1. file' = 0 /\ piece' = 0
    BY <1>3, WalkMoves DEF LoadConfig, position, PostedSoFar, Searching, Walking
  <2>2. \A f \in DOMAIN files' : f \in Nat \ {0}
    <3>1. files' \in Seq(FileRecord')
      BY MainStep DEF MainInv
    <3>2. ASSUME NEW T, NEW s \in Seq(T) PROVE \A i \in DOMAIN s : i \in Nat \ {0}
      OBVIOUS
    <3> QED
      BY <3>1, <3>2
  <2>3. \A f \in DOMAIN files', k \in Nat : ~(f - 1 < file' \/ (f - 1 = file' /\ k < piece'))
    BY <2>1, <2>2
  <2> QED
    BY <2>1, <2>3 DEF PostedSoFar
<1> SUFFICES ASSUME ~LoadConfig, ~Walk PROVE PostedSoFar'
  BY <1>3
<1>4. DOMAIN files' = DOMAIN files /\ \A f \in DOMAIN files : files'[f].parts = files[f].parts
  BY PiecesStay
<1>5. stage' \in Searching => stage \in Searching /\ UNCHANGED <<file, piece>>
  BY DEF Next, RemovePath, RemoveEntry, ChangeFile, StartPool, OutgrowMemory, NextFile, ReadPart,
       EncodePart, EnqueueArticle, Retry, End,
         Ended, vars, main, position, Searching
<1>6. CASE UNCHANGED <<file, piece, articles>>
  BY <1>4, <1>5, <1>6 DEF PostedSoFar
<1>7. CASE RemovePath \/ RemoveEntry \/ ChangeFile \/ StartPool \/ OutgrowMemory \/ ReadPart \/ EncodePart \/ End
           \/ Ended \/ UNCHANGED vars
  BY <1>6, <1>7 DEF RemovePath, RemoveEntry, ChangeFile, StartPool, OutgrowMemory, ReadPart, EncodePart,
       End, Ended, vars, main, position,
                    posted
<1>8. CASE NextFile
  <2>1. file' = file + 1 /\ piece' = 0 /\ articles' = articles /\ piece = files[file + 1].parts
    BY <1>8 DEF NextFile, posted
  <2>2. ASSUME NEW f \in DOMAIN files, NEW k \in Nat, k < files[f].parts, f - 1 < file'
        PROVE  f - 1 < file \/ (f - 1 = file /\ k < piece)
    <3>1. f - 1 < file \/ f = file + 1
      BY <1>1, <1>2, <2>1, <2>2
    <3> QED
      BY <1>1, <1>2, <2>1, <2>2, <3>1
  <2>3. \A f \in DOMAIN files, k \in Nat : ~(f - 1 = file' /\ k < piece')
    BY <2>1
  <2> QED
    BY <1>4, <1>5, <2>1, <2>2, <2>3 DEF PostedSoFar
<1>9. CASE EnqueueArticle
  <2>1. PICK a : articles' = Append(articles, a) /\ a.part = part /\ KeyOf(a) = <<file, piece>>
    <3> DEFINE a == [part |-> part, payload |-> Payload(lines),
                     msgid |-> MessageId(RunNonce, cfg.msgiddomain, file, piece)]
    <3>1. articles' = Append(articles, a) /\ stage = "encode"
      BY <1>9 DEF EnqueueArticle
    <3>2. a.part = part /\ KeyOf(a) = <<file, piece>>
      BY <3>1 DEF KeyOf, PartsInv
    <3> QED
      BY <3>1, <3>2
  <2>2. file' = file /\ piece' = piece + 1
    BY <1>9 DEF EnqueueArticle
  <2>3. /\ Len(articles) + 1 \in DOMAIN articles' /\ articles'[Len(articles) + 1] = a
        /\ \A i \in DOMAIN articles : i \in DOMAIN articles' /\ articles'[i] = articles[i]
    <3>1. IsLog(articles)
      BY DEF PartsInv
    <3>2. /\ Len(articles) \in Nat /\ DOMAIN articles = 1..Len(articles)
          /\ DOMAIN Append(articles, a) = 1..(Len(articles) + 1)
          /\ Append(articles, a)[Len(articles) + 1] = a
          /\ \A i \in DOMAIN articles : Append(articles, a)[i] = articles[i]
      BY <3>1, LogAppended
    <3>3. /\ Len(articles) + 1 \in DOMAIN Append(articles, a)
          /\ \A i \in DOMAIN articles : i \in DOMAIN Append(articles, a)
      BY <3>2
    <3> QED
      BY <2>1, <3>2, <3>3, Zenon
  <2>4. ASSUME NEW f \in DOMAIN files, NEW k \in Nat, k < files[f].parts,
               f - 1 < file' \/ (f - 1 = file' /\ k < piece')
        PROVE  \E i \in DOMAIN articles' : KeyOf(articles'[i]) = <<f - 1, k>>
    <3>1. CASE f - 1 < file \/ (f - 1 = file /\ k < piece)
      <4>1. PICK i \in DOMAIN articles : KeyOf(articles[i]) = <<f - 1, k>>
        BY <2>4, <3>1 DEF PostedSoFar
      <4> QED
        BY <2>3, <4>1
    <3>2. CASE f - 1 = file /\ k = piece
      BY <2>1, <2>3, <3>2
    <3>3. k < piece + 1 => k < piece \/ k = piece
      BY <1>1
    <3> QED
      BY <2>2, <2>4, <3>1, <3>2, <3>3
  <2> QED
    BY <1>4, <1>5, <2>4 DEF PostedSoFar, KeyOf
<1>10. CASE Retry
  <2> PICK i \in DOMAIN articles : \E m : articles' = [articles EXCEPT ![i].msgid = m]
    BY <1>10 DEF Retry
  <2>1. PICK m : articles' = [articles EXCEPT ![i].msgid = m]
    OBVIOUS
  <2>2. IsLog(articles)
    BY DEF PartsInv
  <2>3. DOMAIN articles' = DOMAIN articles /\ \A j \in DOMAIN articles : articles'[j].part = articles[j].part
    BY <2>1, <2>2, LogRenamed
  <2>4. DOMAIN articles' = DOMAIN articles /\ \A j \in DOMAIN articles : KeyOf(articles'[j]) = KeyOf(articles[j])
    BY <2>3 DEF KeyOf
  <2>5. UNCHANGED <<file, piece>>
    BY <1>10 DEF Retry, main, position
  <2> QED
    BY <1>4, <1>5, <2>4, <2>5 DEF PostedSoFar, KeyOf
<1> QED
  BY <1>7, <1>8, <1>9, <1>10 DEF Next

LEMMA PostedInvariant == Spec => []PostedSoFar
<1>1. Init => PostedSoFar
  BY DEF Init, PostedSoFar
<1> QED
  BY <1>1, TypeInvariant, PartsInvariant, PostedStep, PTL DEF Spec

AllPosted == stage = "done" => file = Len(files)

LEMMA AllPostedStep == ASSUME AllPosted, [Next]_vars PROVE AllPosted'
<1>1. CASE stage = "done"
  BY <1>1, WalkMoves DEF Next, Walking, AllPosted, RemovePath, RemoveEntry, ChangeFile, LoadConfig,
       StartPool, NextFile,
     ReadPart, EncodePart, OutgrowMemory, EnqueueArticle, Retry, End, Ended, vars, main, position
<1>2. CASE stage # "done" /\ stage' = "done"
  <2>1. End
    BY <1>2, WalkMoves DEF Next, Walking, RemovePath, RemoveEntry, ChangeFile, LoadConfig, StartPool,
         NextFile, ReadPart,
       EncodePart, OutgrowMemory, EnqueueArticle, Retry, Ended, vars
  <2> QED
    BY <2>1 DEF End, AllPosted, main, position
<1> QED
  BY <1>1, <1>2 DEF AllPosted

LEMMA AllPostedInvariant == Spec => []AllPosted
<1>1. Init => AllPosted
  BY DEF Init, AllPosted
<1> QED
  BY <1>1, AllPostedStep, PTL DEF Spec

Segment(a) == [bytes |-> Size(a.payload), number |-> a.part.piece + 1, msgid |-> Bare(a.msgid)]

\* The segments of the nzb file and the articles correspond.
NzbMatches ==
  nzb # None =>
    /\ \A i \in DOMAIN articles :
         LET p == articles[i].part
         IN /\ p.file + 1 \in DOMAIN nzb /\ p.piece + 1 \in DOMAIN nzb[p.file + 1]
            /\ nzb[p.file + 1][p.piece + 1] = Segment(articles[i])
    /\ \A f \in DOMAIN nzb : \A k \in DOMAIN nzb[f] :
         \E i \in DOMAIN articles :
           articles[i].part.file + 1 = f /\ articles[i].part.piece + 1 = k /\ nzb[f][k] = Segment(articles[i])

LEMMA MatchesFromInvariants ==
  ASSUME TypeInv, PartsInv, IdsInv, PostedSoFar, AllPosted PROVE NzbMatches
<1> SUFFICES ASSUME nzb # None PROVE NzbMatches
  BY DEF NzbMatches
<1>1. stage = "done" /\ nzb = [f \in DOMAIN files |-> Segments(f)] /\ file = Len(files)
  BY DEF IdsInv, AllPosted
<1>2. ASSUME NEW i \in DOMAIN articles
      PROVE  LET p == articles[i].part
             IN /\ p.file + 1 \in DOMAIN files
                /\ p.piece \in Nat /\ p.file \in Nat
                /\ p.piece + 1 \in 1..files[p.file + 1].parts
                /\ Segments(p.file + 1)[p.piece + 1] = Segment(articles[i])
  <2> DEFINE p == articles[i].part
  <2>1. IsPiece(p) /\ Known(articles[i])
    BY DEF PartsInv, IdsInv
  <2>2. p.file \in Nat /\ p.piece \in Nat /\ p.file + 1 \in DOMAIN files /\ p.piece < files[p.file + 1].parts
    BY <2>1 DEF IsPiece
  <2>3. files[p.file + 1].parts \in Nat
    <3>1. \A f \in DOMAIN files : files[f] \in FileRecord
      BY DEF TypeInv, MainInv
    <3> QED
      BY <2>2, <3>1 DEF FileRecord
  <2>4. p.piece + 1 \in 1..files[p.file + 1].parts /\ (p.piece + 1) - 1 = p.piece /\ (p.file + 1) - 1 = p.file
    BY <2>2, <2>3
  <2>5. Segments(p.file + 1)[p.piece + 1] =
          [bytes |-> piece_sizes[<<p.file, p.piece>>], number |-> p.piece + 1,
           msgid |-> Bare(MessageId(NonceOf(<<p.file, p.piece>>), cfg.msgiddomain, p.file, p.piece))]
    BY <2>4 DEF Segments
  <2> QED
    BY <2>1, <2>2, <2>4, <2>5 DEF Known, KeyOf, Segment
<1>3. \A f \in DOMAIN files : DOMAIN Segments(f) = 1..files[f].parts /\ nzb[f] = Segments(f)
  BY <1>1 DEF Segments
<1>4. DOMAIN nzb = DOMAIN files
  BY <1>1
<1>5. ASSUME NEW i \in DOMAIN articles
      PROVE  LET p == articles[i].part
             IN /\ p.file + 1 \in DOMAIN nzb /\ p.piece + 1 \in DOMAIN nzb[p.file + 1]
                /\ nzb[p.file + 1][p.piece + 1] = Segment(articles[i])
  BY <1>2, <1>3, <1>4
<1>6. ASSUME NEW f \in DOMAIN nzb, NEW k \in DOMAIN nzb[f]
      PROVE  \E i \in DOMAIN articles :
               articles[i].part.file + 1 = f /\ articles[i].part.piece + 1 = k /\ nzb[f][k] = Segment(articles[i])
  <2>1. f \in DOMAIN files /\ k \in 1..files[f].parts
    BY <1>3, <1>4
  <2>2. f \in 1..Len(files) /\ Len(files) \in Nat /\ files[f] \in FileRecord
    BY <2>1 DEF TypeInv, MainInv
  <2>3. files[f].parts \in Nat
    BY <2>2 DEF FileRecord
  <2>4. k - 1 \in Nat /\ k - 1 < files[f].parts /\ f - 1 < file
    BY <1>1, <2>1, <2>2, <2>3
  <2>5. PICK i \in DOMAIN articles : KeyOf(articles[i]) = <<f - 1, k - 1>>
    BY <2>1, <2>4 DEF PostedSoFar
  <2>6. articles[i].part.file = f - 1 /\ articles[i].part.piece = k - 1
    BY <2>5 DEF KeyOf
  <2>7. articles[i].part.file + 1 = f /\ articles[i].part.piece + 1 = k
    BY <2>1, <2>2, <2>3, <2>6
  <2> QED
    BY <1>5, <2>7
<1> QED
  BY <1>5, <1>6 DEF NzbMatches

\* The segments of the nzb file and the articles correspond, each with the size of the payload
\* and with the id it has after all retries, in whatever order articles fail, for all files
\* and domains (main.cc:67-100 against 205-255).
THEOREM NzbIsComplete == Spec => []NzbMatches
  BY TypeInvariant, PartsInvariant, IdsInvariant, PostedInvariant, AllPostedInvariant,
       MatchesFromInvariants, PTL

-----------------------------------------------------------------------------
(* The ends that nobody wanted.                                             *)

\* An accepted configuration names only what there is.
AcceptedInv ==
  stage \in Running => \A i \in DOMAIN cfg.files : given.tree[cfg.files[i]].kind # "unreachable"

LEMMA AcceptedStep == ASSUME TypeInv, AcceptedInv, [Next]_vars PROVE AcceptedInv'
<1>1. given' = given
  BY WorldStep
<1>2. CASE LoadConfig
  <2>1. stage' \in Running =>
          PathsExist(given.cmd, KindOf) /\ cfg'.files = given.cmd.files
    BY <1>2 DEF LoadConfig, Accepts, ProgConfig, Running, Walking
  <2>2. given.cmd.files \in Seq(DOMAIN given.tree)
    BY InputAssumption DEF TypeInv, WorldInv
  <2>3. \A i \in DOMAIN given.cmd.files : given.cmd.files[i] \in DOMAIN tree
    BY <2>2 DEF TypeInv, WorldInv
  <2>4. ASSUME PathsExist(given.cmd, KindOf), NEW i \in DOMAIN given.cmd.files
        PROVE  given.tree[given.cmd.files[i]].kind # "unreachable"
    BY <2>3, <2>4 DEF PathsExist, KindOf, TypeInv, WorldInv
  <2> QED
    BY <1>1, <2>1, <2>4 DEF AcceptedInv
<1>3. CASE ~LoadConfig
  <2>1. cfg' = cfg
    BY <1>3, WalkMoves DEF Next, RemovePath, RemoveEntry, ChangeFile, StartPool, NextFile, ReadPart,
         EncodePart,
       OutgrowMemory, EnqueueArticle, Retry, End, Ended, vars, main, setup
  <2>2. stage' \in Running => stage \in Running
    BY <1>3, WalkMoves DEF Next, RemovePath, RemoveEntry, ChangeFile, StartPool, NextFile, ReadPart,
         EncodePart,
       OutgrowMemory, EnqueueArticle, Retry, End, Ended, vars, Running, Walking
  <2> QED
    BY <1>1, <2>1, <2>2 DEF AcceptedInv
<1> QED
  BY <1>2, <1>3

LEMMA AcceptedInvariant == Spec => []AcceptedInv
<1>1. Init => AcceptedInv
  BY DEF Init, AcceptedInv, Running, Walking
<1> QED
  BY <1>1, TypeInvariant, AcceptedStep, PTL DEF Spec

\* A step of the walk ends the program where something cannot be read or has gone.
LEMMA WalkCrashes ==
  ASSUME TypeInv, AcceptedInv, Walk, stage' = "crashed",
         NEW w, w = cfg.files[walked'], NEW p, p = given.tree[w]
  PROVE  \/ cfg.article_size = 0
         \/ walked' > 0 /\ (Unreadable(p) \/ tree[w] # p)
<1>1. stage \in Walking /\ walked \in Nat
  BY WalkMoves DEF TypeInv, MainInv
<1>2. CASE NextPath
  <2>1. walked' = walked + 1 /\ walked < Len(cfg.files) /\ tree[w].kind = "unreachable"
    BY <1>2 DEF NextPath
  <2>2. walked + 1 \in DOMAIN cfg.files
    <3>1. cfg.files \in Seq(DOMAIN given.tree)
      BY <1>1, InputAssumption DEF TypeInv, WorldInv, MainInv, Running
    <3> QED
      BY <1>1, <2>1, <3>1
  <2>3. p.kind # "unreachable"
    BY <1>1, <2>1, <2>2 DEF AcceptedInv, Running
  <2> QED
    BY <1>1, <2>1, <2>3
<1>3. CASE ~NextPath
  <2>1. walked' = walked /\ stage \in {"enter", "list", "add"}
    BY <1>3, WalkMoves DEF Walk, EnterDirectory, NextEntry, AddPostitem, PathDone
  <2>2. walked > 0
    BY <1>1, <2>1 DEF TypeInv, SearchInv
  <2>3. CASE EnterDirectory
    BY <2>1, <2>2, <2>3 DEF EnterDirectory, UnderWay, Unreadable, TypeInv, SearchInv
  <2>4. CASE NextEntry
    <3>1. PICK e \in todo : Throws(e)
      BY <2>4 DEF NextEntry
    <3>2. e \in p.entries
      BY <2>1, <3>1 DEF TypeInv, SearchInv
    <3> QED
      BY <2>1, <2>2, <3>1, <3>2 DEF Throws, UnderWay, Unreadable
  <2>5. CASE AddPostitem
    <3>1. found \in p.entries
      BY <2>1, <2>5 DEF AddPostitem, TypeInv, SearchInv
    <3> QED
      BY <2>1, <2>2, <2>5, <3>1 DEF AddPostitem, UnderWay, Unreadable
  <2> QED
    BY <1>3, <2>3, <2>4, <2>5 DEF Walk, PathDone
<1> QED
  BY <1>2, <1>3

LEMMA CrashStep == ASSUME TypeInv, AcceptedInv, CrashesAreExplained, [Next]_vars PROVE CrashesAreExplained'
<1>1. given' = given
  BY WorldStep
<1>2. CASE stage' # "crashed"
  BY <1>2 DEF CrashesAreExplained
<1>3. CASE stage = "crashed"
  <2>1. UNCHANGED <<tree, cfg, walked>>
    BY <1>3, WalkMoves DEF Next, Walking, RemovePath, RemoveEntry, Searching, ChangeFile, LoadConfig,
         StartPool,
       NextFile, ReadPart, EncodePart, OutgrowMemory, EnqueueArticle, Retry, End, Ended, vars, world, main, setup
  <2> QED
    BY <1>1, <1>3, <2>1 DEF CrashesAreExplained, Reserved, UnderWay, Unreadable
<1> SUFFICES ASSUME stage # "crashed", stage' = "crashed" PROVE CrashesAreExplained'
  BY <1>2, <1>3
<1>4. CASE LoadConfig
  BY <1>1, <1>4 DEF LoadConfig, ConfigPath, CrashesAreExplained
<1>5. CASE Walk
  <2>1. UNCHANGED <<tree, cfg>>
    BY <1>5, WalkMoves DEF world
  <2>2. \/ cfg.article_size = 0
        \/ /\ walked' > 0
           /\ Unreadable(given.tree[cfg.files[walked']]) \/ tree[cfg.files[walked']] # given.tree[cfg.files[walked']]
    BY <1>5, WalkCrashes
  <2> QED
    BY <1>1, <2>1, <2>2 DEF CrashesAreExplained, UnderWay, Unreadable
<1>6. CASE StartPool
  BY <1>6 DEF StartPool, main, setup, CrashesAreExplained
<1>7. CASE ReadPart \/ OutgrowMemory
  <2>1. cfg' = cfg /\ 2 * Reserved > Memory
    <3>1. cfg.article_size \in Nat
      BY <1>7, SizeAssumption DEF ReadPart, OutgrowMemory, TypeInv, MainInv, Running, Walking
    <3>2. Reserved \in Nat /\ Memory \in Nat
      BY <3>1, MemoryAssumption DEF Reserved
    <3>3. cfg' = cfg /\ (Reserved > Memory \/ 2 * Reserved > Memory)
      BY <1>7 DEF ReadPart, OutgrowMemory, main, setup
    <3> QED
      BY <3>2, <3>3
  <2> QED
    BY <2>1 DEF CrashesAreExplained, Reserved
<1> QED
  BY <1>4, <1>5, <1>6, <1>7 DEF Next, RemovePath, RemoveEntry, ChangeFile, NextFile, EncodePart,
       EnqueueArticle,
     Retry, End, Ended, vars

\* Nothing ends the program by a signal or by an exception that nobody catches, except for the
\* numbers that nothing checks, statuses that cannot be had, and what cannot be read or has
\* gone under the path that the walk is at, for whatever others remove and whenever they do
\* (program_config.cc:77-131, 210-221, main.cc:115-154, yencgenerator.cc:9-43).
THEOREM CrashesHaveCauses == Spec => []CrashesAreExplained
<1>1. Init => CrashesAreExplained
  BY DEF Init, CrashesAreExplained
<1> QED
  BY <1>1, TypeInvariant, AcceptedInvariant, CrashStep, PTL DEF Spec
=============================================================================
